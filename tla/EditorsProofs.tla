---------------------------- MODULE EditorsProofs ----------------------------
(***************************************************************************)
(* Proofs about the window's editors: the mail composer, the editor of     *)
(* contacts, mailing lists, events and tasks, the settings, and the tabs   *)
(* with their appearance, for every number of texts, fields, records,      *)
(* accounts, tabs and calls in flight.                                     *)
(***************************************************************************)
EXTENDS MCEditors, FiniteSetTheorems, WellFoundedInduction, TLAPS

-----------------------------------------------------------------------------
(***************************************************************************)
(* The composer.                                                           *)
(***************************************************************************)
(* Composers, drafts and calls with the numbers drawn up to n.             *)
Composers(n) ==
    [kind : {"composer"}, account : Accounts, text : 0..n, base : 0..n,
     draft : Nat, form : Composer!Forms, obj : 0..n]
Drafts(n) == [id : Nat, account : Accounts, text : 0..n]
Submissions(n) ==
    [kind : {"send", "save"}, at : {"main", "answered"}, compose : Composers(n),
     snapshot : SUBSET Drafts(n),
     outcome : {"none", "failed", "taken", "rejected", "saved"}]
OtherCalls ==
    [kind : {"choose"}] \cup [kind : {"open"}, id : Nat]
        \cup [kind : {"remove"}, account : Accounts]

SlotType ==
    /\ cSlot.kind = "replace-compose" => cSlot.form \in Composer!Forms
    /\ cSlot.kind = "remove-account" => cSlot.account \in Accounts
ComposerType ==
    /\ cFresh \in Nat
    /\ cCompose \in Composers(cFresh) \cup {Composer!None}
    /\ cDrafts \subseteq Drafts(cFresh)
    /\ cCalls \subseteq Submissions(cFresh) \cup OtherCalls
    /\ cAccounts \subseteq Accounts
    /\ SlotType

(* What the composer started with, what is stored as a draft and what a    *)
(* call was answered about is nobody's unsaved work.                       *)
Submits == {c \in cCalls : c.kind \in {"send", "save"}}
SafeTexts ==
    /\ cSafe \subseteq 0..cFresh
    /\ cCompose # Composer!None => cCompose.base \in cSafe
    /\ \A d \in cDrafts : d.text \in cSafe
    /\ \A c \in Submits :
          c.outcome \in {"taken", "rejected", "saved"} => c.compose.text \in cSafe

(* Sends and saves exclude each other, and nothing that was reported as    *)
(* delivered is in the composer or on its way.                             *)
OneSubmit == \A c, d \in Submits : c = d
NotTold ==
    /\ cTold \subseteq (0..cFresh) \X (0..cFresh)
    /\ cCompose # Composer!None => <<cCompose.obj, cCompose.text>> \notin cTold
    /\ \A c \in Submits : c.at = "main" => Composer!Reported(c) \notin cTold

ComposerInv ==
    ComposerType /\ SafeTexts /\ OneSubmit /\ NotTold
        /\ Composer!LossDecided /\ Composer!DeliveredOnce

(* A composer and a call keep their type when they are changed as the code  *)
(* changes them.                                                            *)
LEMMA ComposerRecords ==
    ASSUME NEW n \in Nat, NEW c \in Composers(n)
    PROVE  /\ c # Composer!None
           /\ \A t \in 0..n : [c EXCEPT !.text = t] \in Composers(n)
           /\ \A t \in 0..n, f \in Composer!Forms :
                 [c EXCEPT !.text = t, !.form = f] \in Composers(n)
           /\ \A t \in 0..n : [c EXCEPT !.base = t] \in Composers(n)
           /\ \A d \in Nat, t \in 0..n :
                 [c EXCEPT !.draft = d, !.base = t] \in Composers(n)
           /\ \A d \in Nat : [c EXCEPT !.draft = d] \in Composers(n)
<1>1. c # Composer!None
  BY DEF Composers, Composer!None
<1>2. \A t \in 0..n : [c EXCEPT !.text = t] \in Composers(n)
  BY DEF Composers
<1>3. \A t \in 0..n, f \in Composer!Forms :
         [c EXCEPT !.text = t, !.form = f] \in Composers(n)
  BY DEF Composers
<1>4. \A t \in 0..n : [c EXCEPT !.base = t] \in Composers(n)
  BY DEF Composers
<1>5. \A d \in Nat, t \in 0..n :
         [c EXCEPT !.draft = d, !.base = t] \in Composers(n)
  BY DEF Composers
<1>6. \A d \in Nat : [c EXCEPT !.draft = d] \in Composers(n)
  BY DEF Composers
<1> QED BY <1>1, <1>2, <1>3, <1>4, <1>5, <1>6

(* The same for a submission that is answered.                             *)
LEMMA SubmissionRecords ==
    ASSUME NEW n \in Nat, NEW c \in Submissions(n)
    PROVE  /\ \A o \in {"none", "failed", "taken", "rejected", "saved"} :
                 [c EXCEPT !.at = "answered", !.outcome = o] \in Submissions(n)
           /\ \A d \in Nat :
                 [c EXCEPT !.at = "answered", !.outcome = "saved", !.compose.draft = d]
                    \in Submissions(n)
BY DEF Submissions, Composers

(* Drawing another number takes nothing out of these sets.                  *)
LEMMA DrawnGrows ==
    ASSUME NEW n \in Nat
    PROVE  /\ n + 1 \in Nat /\ 0..n \subseteq 0..(n + 1) /\ n + 1 \in 0..(n + 1)
           /\ Composers(n) \subseteq Composers(n + 1)
           /\ Drafts(n) \subseteq Drafts(n + 1)
           /\ Submissions(n) \subseteq Submissions(n + 1)
<1>1. n + 1 \in Nat /\ 0..n \subseteq 0..(n + 1) /\ n + 1 \in 0..(n + 1)
  OBVIOUS
<1>2. Composers(n) \subseteq Composers(n + 1)
  BY <1>1 DEF Composers
<1>3. Drafts(n) \subseteq Drafts(n + 1)
  BY <1>1 DEF Drafts
<1>4. Submissions(n) \subseteq Submissions(n + 1)
  BY <1>2, <1>3 DEF Submissions
<1> QED BY <1>1, <1>2, <1>3, <1>4

(* A step that leaves the composer alone or empties it.                     *)
LEMMA ComposerLeft ==
    ASSUME ComposerInv, UNCHANGED <<cFresh, cSafe, cTold, cTwice>>,
           cCompose' \in {cCompose, Composer!None},
           cDrafts' \subseteq cDrafts, cAccounts' \subseteq cAccounts,
           cCalls' \subseteq cCalls \cup OtherCalls,
           SlotType', Composer!LossDecided'
    PROVE  ComposerInv'
<1>1. Submits' \subseteq Submits
  BY DEF Submits, OtherCalls
<1>2. ComposerType'
  BY DEF ComposerInv, ComposerType, Composer!None
<1>3. SafeTexts'
  BY <1>1 DEF ComposerInv, SafeTexts
<1>4. OneSubmit'
  BY <1>1 DEF ComposerInv, OneSubmit
<1>5. NotTold'
  BY <1>1 DEF ComposerInv, NotTold, Composer!Reported
<1>6. Composer!DeliveredOnce'
  BY DEF ComposerInv, Composer!DeliveredOnce
<1> QED BY <1>2, <1>3, <1>4, <1>5, <1>6 DEF ComposerInv

(* A step that opens a composer or changes the text of the one that is      *)
(* open, with the next number.                                              *)
LEMMA ComposerDrawn ==
    ASSUME ComposerInv, cFresh' = cFresh + 1, UNCHANGED <<cDrafts, cTold, cTwice, cAccounts>>,
           cCompose' \in Composers(cFresh + 1),
           cCompose'.obj = cFresh + 1 \/ cCompose'.text = cFresh + 1,
           cCompose'.base \in cSafe',
           cSafe \subseteq cSafe', cSafe' \subseteq cSafe \cup {cFresh + 1},
           cCalls' \subseteq cCalls, SlotType', Composer!LossDecided'
    PROVE  ComposerInv'
<1>1. cFresh \in Nat
  BY DEF ComposerInv, ComposerType
<1>2. Submits' \subseteq Submits
  BY DEF Submits
<1>3. ComposerType'
  BY <1>1, DrawnGrows DEF ComposerInv, ComposerType
<1>4. SafeTexts'
  BY <1>1, <1>2, DrawnGrows DEF ComposerInv, SafeTexts
<1>5. OneSubmit'
  BY <1>2 DEF ComposerInv, OneSubmit
<1>6. NotTold'
  BY <1>1, <1>2, DrawnGrows DEF ComposerInv, NotTold, Composer!Reported
<1>7. Composer!DeliveredOnce'
  BY DEF ComposerInv, Composer!DeliveredOnce
<1> QED BY <1>3, <1>4, <1>5, <1>6, <1>7 DEF ComposerInv

(* A send or a save starts from the composer that is open.                  *)
LEMMA ComposerSubmits ==
    ASSUME ComposerInv, NEW kind \in {"send", "save"}, Composer!Exclusive,
           cCompose # Composer!None, cCalls' = cCalls \cup {Composer!Submitted(kind)},
           UNCHANGED <<cCompose, cDrafts, cAccounts, cFresh, cSafe, cLost, cTold, cTwice>>,
           SlotType'
    PROVE  ComposerInv'
<1> DEFINE call == Composer!Submitted(kind)
<1>1. Submits = {}
  BY DEF Submits, Composer!Exclusive, Composer!Busy
<1>2. call \in Submissions(cFresh)
  BY DEF ComposerInv, ComposerType, Submissions, Composer!Submitted, Composer!Persisted
<1>3. Submits' = {call}
  BY <1>1 DEF Submits, Composer!Submitted
<1>4. ComposerType'
  BY <1>2 DEF ComposerInv, ComposerType
<1>5. SafeTexts'
  BY <1>3 DEF ComposerInv, SafeTexts, Composer!Submitted
<1>6. OneSubmit'
  BY <1>3 DEF OneSubmit
<1>7. NotTold'
  BY <1>3 DEF ComposerInv, NotTold, Composer!Submitted, Composer!Reported
<1> QED BY <1>4, <1>5, <1>6, <1>7 DEF ComposerInv, Composer!DeliveredOnce, Composer!LossDecided

(* Unsaved work leaves the composer by decision only.                       *)
LEMMA LeaveDecides ==
    ASSUME ComposerInv, NEW how, Composer!Leave(how),
           \/ how \in Composer!Decisions \cup {"open-draft"}
           \/ cCompose # Composer!None => cCompose.text \in cSafe
    PROVE  Composer!LossDecided'
BY DEF ComposerInv, Composer!Leave, Composer!LossDecided

(* beginComposer: the new composer is a number that nobody holds yet.       *)
LEMMA BeginComposerSafe ==
    ASSUME ComposerInv, NEW account \in Accounts, NEW form \in Composer!Forms, NEW how,
           Composer!BeginComposer(account, form, how),
           \/ how \in Composer!Decisions \cup {"open-draft"}
           \/ cCompose # Composer!None => cCompose.text \in cSafe,
           UNCHANGED <<cDrafts, cAccounts, cCalls, cTold, cTwice>>, SlotType'
    PROVE  ComposerInv'
<1>1. cFresh \in Nat
  BY DEF ComposerInv, ComposerType
<1>2. Composer!LossDecided'
  BY LeaveDecides DEF Composer!BeginComposer
<1>3. /\ cCompose' \in Composers(cFresh + 1)
      /\ cCompose'.obj = cFresh + 1 /\ cCompose'.base = cFresh + 1
  BY <1>1 DEF Composer!BeginComposer, Composer!ComposerOf, Composers
<1>4. cFresh' = cFresh + 1 /\ cSafe' = cSafe \cup {cFresh + 1}
  BY DEF Composer!BeginComposer, Composer!Draw
<1> QED BY <1>2, <1>3, <1>4, ComposerDrawn

(* openComposer asks before it replaces unsaved work.                       *)
LEMMA OpenComposerSafe ==
    ASSUME ComposerInv, NEW account \in Accounts, NEW form \in Composer!Forms,
           Composer!OpenComposer(account, form),
           UNCHANGED <<cDrafts, cAccounts, cCalls, cTold, cTwice>>
    PROVE  ComposerInv'
<1>1. CASE Composer!ComposerIsDirty /\ UNCHANGED <<cCompose, cFresh, cSafe, cLost>>
           /\ cSlot' = [kind |-> "replace-compose", account |-> account, form |-> form]
  <2>1. SlotType' /\ Composer!LossDecided'
    BY <1>1 DEF SlotType, ComposerInv, Composer!LossDecided
  <2> QED BY <1>1, <2>1, ComposerLeft
<1>2. CASE ~Composer!ComposerIsDirty /\ Composer!BeginComposer(account, form, "silent")
           /\ UNCHANGED cSlot
  <2>1. SlotType'
    BY <1>2 DEF SlotType, ComposerInv, ComposerType
  <2>2. cCompose # Composer!None => cCompose.text \in cSafe
    BY <1>2 DEF Composer!ComposerIsDirty, ComposerInv, SafeTexts
  <2> QED BY <1>2, <2>1, <2>2, BeginComposerSafe
<1> QED BY <1>1, <1>2 DEF Composer!OpenComposer

(* The user types, or the text changes under his hands.                     *)
LEMMA TextChanges ==
    ASSUME ComposerInv, cCompose # Composer!None, Composer!Draw,
           \/ cCompose' = [cCompose EXCEPT !.text = cFresh + 1]
           \/ \E form \in Composer!Forms :
                 cCompose' = [cCompose EXCEPT !.text = cFresh + 1, !.form = form],
           cSafe \subseteq cSafe', cSafe' \subseteq cSafe \cup {cFresh + 1},
           cCalls' \subseteq cCalls,
           UNCHANGED <<cSlot, cDrafts, cAccounts, cLost, cTold, cTwice>>
    PROVE  ComposerInv'
<1>1. cFresh \in Nat /\ cFresh' = cFresh + 1
  BY DEF ComposerInv, ComposerType, Composer!Draw
<1>2. cCompose \in Composers(cFresh + 1)
  BY <1>1, DrawnGrows DEF ComposerInv, ComposerType
<1>3. cCompose' \in Composers(cFresh + 1)
  <2>1. cFresh + 1 \in Nat /\ cFresh + 1 \in 0..(cFresh + 1)
    BY <1>1, DrawnGrows
  <2>2. [cCompose EXCEPT !.text = cFresh + 1] \in Composers(cFresh + 1)
    BY <1>2, <2>1, ComposerRecords
  <2>3. \A form \in Composer!Forms :
           [cCompose EXCEPT !.text = cFresh + 1, !.form = form] \in Composers(cFresh + 1)
    BY <1>2, <2>1, ComposerRecords
  <2> QED BY <2>2, <2>3
<1>4. cCompose'.text = cFresh + 1 /\ cCompose'.base = cCompose.base
  BY <1>2 DEF Composers
<1>5. cCompose'.base \in cSafe'
  BY <1>4 DEF ComposerInv, SafeTexts
<1>6. SlotType' /\ Composer!LossDecided'
  BY DEF SlotType, ComposerInv, ComposerType, Composer!LossDecided
<1> QED BY <1>1, <1>3, <1>4, <1>5, <1>6, ComposerDrawn

(* The main process stores, queues or delivers what was submitted.          *)
LEMMA MainAnswersSafe ==
    ASSUME ComposerInv, NEW call \in cCalls, Composer!MainAnswers(call)
    PROVE  ComposerInv'
<1> DEFINE id == IF call.compose.draft = 0 THEN cFresh + 1 ELSE call.compose.draft
           Answered(c) == cCalls' = (cCalls \ {call}) \cup {c}
<1>1. /\ call \in Submits /\ call \in Submissions(cFresh) /\ call.at = "main"
      /\ call.compose \in Composers(cFresh) /\ cFresh \in Nat
      /\ UNCHANGED <<cCompose, cSlot, cAccounts, cLost, cTold, cOpen>>
  BY DEF Composer!MainAnswers, ComposerInv, ComposerType, Submits, Submissions, OtherCalls
<1>2. cFresh' \in {cFresh, cFresh + 1}
  BY DEF Composer!MainAnswers, Composer!Draw
<1>3. \E c \in Submissions(cFresh') :
         /\ Answered(c) /\ c.at = "answered"
         /\ c.compose.text = call.compose.text
         /\ c.outcome # "failed" => call.compose.text \in cSafe'
  <2>1. call \in Submissions(cFresh')
    BY <1>1, <1>2, DrawnGrows
  <2>2. \A o \in {"failed", "taken", "rejected"} :
           /\ [call EXCEPT !.at = "answered", !.outcome = o] \in Submissions(cFresh')
           /\ [call EXCEPT !.at = "answered", !.outcome = o].at = "answered"
           /\ [call EXCEPT !.at = "answered", !.outcome = o].outcome = o
           /\ [call EXCEPT !.at = "answered", !.outcome = o].compose = call.compose
    <3>1. cFresh' \in Nat
      BY <1>1, <1>2
    <3>2. \A o \in {"failed", "taken", "rejected"} :
             [call EXCEPT !.at = "answered", !.outcome = o] \in Submissions(cFresh')
      BY <2>1, <3>1, SubmissionRecords
    <3> QED BY <2>1, <3>2 DEF Submissions
  <2>3. /\ [call EXCEPT !.at = "answered", !.outcome = "saved", !.compose.draft = id]
              \in Submissions(cFresh')
        /\ [call EXCEPT !.at = "answered", !.outcome = "saved", !.compose.draft = id].at = "answered"
        /\ [call EXCEPT !.at = "answered", !.outcome = "saved", !.compose.draft = id].compose.text
              = call.compose.text
    <3>1. id \in Nat
      BY <1>1 DEF Composers
    <3>2. cFresh' \in Nat
      BY <1>1, <1>2
    <3>3. [call EXCEPT !.at = "answered", !.outcome = "saved", !.compose.draft = id]
              \in Submissions(cFresh')
      BY <2>1, <3>1, <3>2, SubmissionRecords
    <3> QED BY <1>1, <2>1, <3>3 DEF Submissions, Composers
  <2> QED BY <2>2, <2>3 DEF Composer!MainAnswers
<1>4. PICK c \in Submissions(cFresh') :
         /\ Answered(c) /\ c.at = "answered"
         /\ c.compose.text = call.compose.text
         /\ c.outcome # "failed" => call.compose.text \in cSafe'
  BY <1>3
<1>5. Submits' = {c}
  BY <1>1, <1>4 DEF Submits, ComposerInv, OneSubmit, Submissions
<1>6. cSafe' \in {cSafe, cSafe \cup {call.compose.text}}
  BY DEF Composer!MainAnswers
<1>7. \A d \in cDrafts' :
         \/ d \in cDrafts
         \/ d \in Drafts(cFresh') /\ d.text = call.compose.text /\ d.text \in cSafe'
  BY <1>1, <1>2, DrawnGrows
     DEF Composer!MainAnswers, Composer!Stored, Drafts, Composers, Composer!Draw
<1>8. cTwice' = {}
  BY <1>1 DEF Composer!MainAnswers, ComposerInv, NotTold, Composer!DeliveredOnce
<1>9. ComposerType'
  <2>1. cCompose' \in Composers(cFresh') \cup {Composer!None}
    BY <1>1, <1>2, DrawnGrows DEF ComposerInv, ComposerType
  <2>2. cDrafts' \subseteq Drafts(cFresh')
    BY <1>1, <1>2, <1>7, DrawnGrows DEF ComposerInv, ComposerType
  <2>3. cCalls' \subseteq Submissions(cFresh') \cup OtherCalls
    BY <1>1, <1>2, <1>4, DrawnGrows DEF ComposerInv, ComposerType
  <2> QED BY <1>1, <1>2, <2>1, <2>2, <2>3 DEF ComposerInv, ComposerType, SlotType
<1>10. SafeTexts'
  <2>1. cSafe' \subseteq 0..cFresh'
    BY <1>1, <1>2, <1>6, DrawnGrows DEF ComposerInv, SafeTexts, Composers
  <2> QED BY <1>1, <1>4, <1>5, <1>6, <1>7, <2>1 DEF ComposerInv, SafeTexts
<1>11. OneSubmit'
  BY <1>5 DEF OneSubmit
<1>12. NotTold'
  BY <1>1, <1>2, <1>4, <1>5, DrawnGrows DEF ComposerInv, NotTold
<1> QED BY <1>1, <1>8, <1>9, <1>10, <1>11, <1>12
        DEF ComposerInv, Composer!LossDecided, Composer!DeliveredOnce

(* sendComposer after its answer: a message that is reported as delivered   *)
(* is in no composer and in no other call.                                  *)
LEMMA SendAnsweredSafe ==
    ASSUME ComposerInv, NEW call \in cCalls, Composer!SendAnswered(call)
    PROVE  ComposerInv'
<1>1. /\ call \in Submits /\ call \in Submissions(cFresh) /\ call.compose \in Composers(cFresh)
      /\ UNCHANGED <<cSlot, cDrafts, cAccounts, cFresh, cSafe, cTwice, cOpen>>
      /\ cCalls' = cCalls \ {call}
  BY DEF Composer!SendAnswered, ComposerInv, ComposerType, Submits, Submissions, OtherCalls
<1>2. Submits' = {}
  BY <1>1 DEF Submits, ComposerInv, OneSubmit
<1>3. SlotType'
  BY <1>1 DEF SlotType, ComposerInv, ComposerType
<1>4. CASE UNCHANGED <<cCompose, cLost, cTold>>
  <2>1. Composer!LossDecided'
    BY <1>4 DEF ComposerInv, Composer!LossDecided
  <2> QED BY <1>1, <1>3, <1>4, <2>1, ComposerLeft
<1>5. CASE call.outcome = "rejected" /\ UNCHANGED <<cLost, cTold>>
           /\ cCompose' = IF Composer!StillCurrent(call)
                          THEN [cCompose EXCEPT !.base = call.compose.text] ELSE cCompose
  <2>1. /\ cCompose' \in Composers(cFresh) \cup {Composer!None}
        /\ cCompose' # Composer!None =>
              /\ cCompose # Composer!None
              /\ cCompose'.obj = cCompose.obj /\ cCompose'.text = cCompose.text
              /\ cCompose'.base \in cSafe
    BY <1>1, <1>5, ComposerRecords
       DEF ComposerInv, ComposerType, SafeTexts, Composer!StillCurrent, Composers
  <2>2. ComposerType'
    BY <1>1, <1>3, <2>1 DEF ComposerInv, ComposerType
  <2>3. SafeTexts'
    BY <1>1, <1>2, <2>1 DEF ComposerInv, SafeTexts
  <2>4. NotTold'
    BY <1>1, <1>2, <1>5, <2>1 DEF ComposerInv, NotTold
  <2> QED BY <1>1, <1>2, <1>5, <2>2, <2>3, <2>4
          DEF ComposerInv, OneSubmit, Composer!LossDecided, Composer!DeliveredOnce
<1>6. CASE /\ call.outcome = "taken"
           /\ IF Composer!StillCurrent(call) /\ ~Composer!NewerEditsRemain(call)
              THEN Composer!Leave("silent") /\ cCompose' = Composer!None
              ELSE UNCHANGED <<cCompose, cLost>>
           /\ cTold' = cTold \cup {Composer!Reported(call)}
  <2>1. Composer!LossDecided'
    <3>1. CASE Composer!StillCurrent(call) /\ ~Composer!NewerEditsRemain(call)
      <4>1. cCompose.text \in cSafe
        BY <1>1, <1>6, <3>1 DEF Composer!NewerEditsRemain, ComposerInv, SafeTexts
      <4> QED BY <1>6, <3>1, <4>1, LeaveDecides
    <3> QED BY <1>6, <3>1 DEF ComposerInv, Composer!LossDecided
  <2>2. cCompose' \in {cCompose, Composer!None}
    BY <1>6
  <2>3. ComposerType'
    BY <1>1, <1>3, <2>2 DEF ComposerInv, ComposerType
  <2>4. SafeTexts'
    BY <1>1, <1>2, <2>2 DEF ComposerInv, SafeTexts
  <2>5. NotTold'
    <3>1. cCompose' # Composer!None =>
             <<cCompose.obj, cCompose.text>> # Composer!Reported(call)
      BY <1>6 DEF Composer!StillCurrent, Composer!NewerEditsRemain, Composer!Reported
    <3>2. Composer!Reported(call) \in (0..cFresh) \X (0..cFresh)
      BY <1>1 DEF Composer!Reported, Composers
    <3> QED BY <1>1, <1>2, <1>6, <2>2, <3>1, <3>2 DEF ComposerInv, NotTold
  <2> QED BY <1>1, <1>2, <2>1, <2>3, <2>4, <2>5
          DEF ComposerInv, OneSubmit, Composer!DeliveredOnce
<1> QED BY <1>4, <1>5, <1>6 DEF Composer!SendAnswered

(* saveComposerDraft after its answer.                                      *)
LEMMA SaveAnsweredSafe ==
    ASSUME ComposerInv, NEW call \in cCalls, Composer!SaveAnswered(call)
    PROVE  ComposerInv'
<1>1. /\ call \in Submits /\ call \in Submissions(cFresh) /\ call.compose \in Composers(cFresh)
      /\ UNCHANGED <<cSlot, cDrafts, cAccounts, cFresh, cSafe, cTold, cTwice, cOpen>>
      /\ cCalls' = cCalls \ {call}
  BY DEF Composer!SaveAnswered, ComposerInv, ComposerType, Submits, Submissions, OtherCalls
<1>2. Submits' = {}
  BY <1>1 DEF Submits, ComposerInv, OneSubmit
<1>3. SlotType'
  BY <1>1 DEF SlotType, ComposerInv, ComposerType
<1>4. CASE UNCHANGED <<cCompose, cLost>>
  <2>1. Composer!LossDecided'
    BY <1>4 DEF ComposerInv, Composer!LossDecided
  <2> QED BY <1>1, <1>3, <1>4, <2>1, ComposerLeft
<1>5. CASE call.outcome = "saved" /\ Composer!StillCurrent(call) /\ ~UNCHANGED <<cCompose, cLost>>
  <2>1. call.compose.text \in cSafe /\ cCompose \in Composers(cFresh)
    BY <1>1, <1>5 DEF ComposerInv, ComposerType, SafeTexts, Composer!StillCurrent
  <2>2. call.compose.draft \in Nat /\ call.compose.text \in 0..cFresh /\ cFresh \in Nat
    BY <1>1 DEF ComposerInv, ComposerType, Composers
  <2>3. /\ cCompose' \in Composers(cFresh)
        /\ cCompose'.obj = cCompose.obj /\ cCompose'.text = cCompose.text
        /\ cCompose'.base \in cSafe
    <3>1. CASE Composer!NewerEditsRemain(call)
      <4>1. cCompose' = [cCompose EXCEPT !.draft = call.compose.draft,
                                        !.base = call.compose.text]
        BY <1>4, <1>5, <3>1 DEF Composer!SaveAnswered
      <4>2. cCompose' \in Composers(cFresh)
        BY <2>1, <2>2, <4>1, ComposerRecords
      <4> QED BY <2>1, <4>1, <4>2 DEF Composers
    <3>2. CASE ~Composer!NewerEditsRemain(call)
      <4>1. cCompose' = [call.compose EXCEPT !.base = call.compose.text]
        BY <1>4, <1>5, <3>2 DEF Composer!SaveAnswered
      <4>2. cCompose' \in Composers(cFresh)
        BY <1>1, <2>2, <4>1, ComposerRecords
      <4>3. call.compose.text = cCompose.text /\ call.compose.obj = cCompose.obj
        BY <1>5, <3>2 DEF Composer!NewerEditsRemain, Composer!StillCurrent
      <4> QED BY <1>1, <2>1, <4>1, <4>2, <4>3 DEF Composers
    <3> QED BY <3>1, <3>2
  <2>4. Composer!LossDecided'
    BY <1>5, <2>1
       DEF Composer!SaveAnswered, Composer!NewerEditsRemain, ComposerInv, Composer!LossDecided
  <2>5. ComposerType'
    BY <1>1, <1>3, <2>3 DEF ComposerInv, ComposerType
  <2>6. SafeTexts'
    BY <1>1, <1>2, <2>3 DEF ComposerInv, SafeTexts
  <2>7. NotTold'
    BY <1>1, <1>2, <1>5, <2>3 DEF ComposerInv, NotTold, Composer!StillCurrent
  <2> QED BY <1>1, <1>2, <2>4, <2>5, <2>6, <2>7
          DEF ComposerInv, OneSubmit, Composer!DeliveredOnce
<1> QED BY <1>4, <1>5 DEF Composer!SaveAnswered

(* "open-draft": a stored draft is nobody's unsaved work.                   *)
LEMMA DraftOpenedSafe ==
    ASSUME ComposerInv, NEW call \in cCalls, Composer!DraftOpened(call)
    PROVE  ComposerInv'
<1> DEFINE stored == CHOOSE x \in cDrafts : x.id = call.id
<1>1. cCalls' = cCalls \ {call} /\ UNCHANGED <<cSlot, cDrafts, cAccounts, cSafe, cTold, cTwice>>
  BY DEF Composer!DraftOpened
<1>2. SlotType'
  BY <1>1 DEF SlotType, ComposerInv, ComposerType
<1>3. CASE UNCHANGED <<cCompose, cFresh, cLost>>
  <2>1. Composer!LossDecided'
    BY <1>3 DEF ComposerInv, Composer!LossDecided
  <2> QED BY <1>1, <1>2, <1>3, <2>1, ComposerLeft
<1>4. CASE \E d \in cDrafts : d.id = call.id /\ d.account \in cAccounts
  <2>1. cFresh \in Nat /\ cFresh' = cFresh + 1 /\ Composer!Leave("open-draft")
    BY <1>4 DEF Composer!DraftOpened, Composer!Draw, ComposerInv, ComposerType
  <2>2. stored \in cDrafts
    BY <1>4
  <2>3. stored \in Drafts(cFresh + 1) /\ stored.text \in cSafe
    BY <2>1, <2>2, DrawnGrows DEF ComposerInv, ComposerType, SafeTexts
  <2>4. /\ stored.account \in Accounts /\ stored.id \in Nat
        /\ stored.text \in 0..(cFresh + 1) /\ cFresh + 1 \in 0..(cFresh + 1)
    BY <2>1, <2>3, DrawnGrows DEF Drafts
  <2>5. PICK form \in Composer!Forms :
           cCompose' = Composer!ComposerOf(stored.account, stored.text, stored.text,
                                           stored.id, form, cFresh + 1)
    BY <1>4 DEF Composer!DraftOpened
  <2>6. /\ cCompose' \in Composers(cFresh + 1)
        /\ cCompose'.obj = cFresh + 1 /\ cCompose'.base = stored.text
    BY <2>4, <2>5 DEF Composer!ComposerOf, Composers
  <2>7. Composer!LossDecided'
    BY <2>1, LeaveDecides
  <2> QED BY <1>1, <1>2, <2>1, <2>3, <2>6, <2>7, ComposerDrawn
<1> QED BY <1>3, <1>4 DEF Composer!DraftOpened

(* No composer is open at the start.                                        *)
LEMMA ComposerStart == Composer!ComposerInit => ComposerInv
BY DEF Composer!ComposerInit, Composer!None, Composer!LossDecided, Composer!DeliveredOnce,
       ComposerInv, ComposerType, SlotType, SafeTexts, OneSubmit, NotTold, Submits

(* Every step of the composer keeps its invariant.                          *)
LEMMA ComposerStep ==
    ASSUME ComposerInv, Composer!ComposerNext
    PROVE  ComposerInv'
<1> DEFINE Clean == cCompose # Composer!None => cCompose.text \in cSafe
<1> USE DEF Composer!None
<1>a. ~Composer!ComposerIsDirty => Clean
  BY DEF Composer!ComposerIsDirty, ComposerInv, SafeTexts
<1>b. SlotType /\ Composer!LossDecided
  BY DEF ComposerInv, ComposerType
<1>c. /\ UNCHANGED cSlot \/ cSlot' = Composer!None => SlotType'
      /\ UNCHANGED cLost => Composer!LossDecided'
  BY <1>b DEF SlotType, Composer!LossDecided
<1>1. ASSUME NEW a \in Accounts, NEW f \in Composer!Forms,
             Composer!Compose(a, f) \/ Composer!Mailto(a, f)
      PROVE  ComposerInv'
  BY <1>1, OpenComposerSafe DEF Composer!Compose, Composer!Mailto
<1>2. ASSUME NEW f \in Composer!Forms, Composer!Edit(f)
      PROVE  ComposerInv'
  BY <1>2, TextChanges DEF Composer!Edit
<1>3. CASE Composer!IdentityRemoved
  BY <1>3, TextChanges DEF Composer!IdentityRemoved
<1>4. ASSUME NEW confirmed, Composer!SendComposer(confirmed)
      PROVE  ComposerInv'
  <2>1. CASE /\ cSlot' = [kind |-> "send-empty-subject"]
             /\ UNCHANGED <<cCompose, cCalls, cDrafts, cAccounts, cFresh, cSafe, cLost, cTold,
                            cTwice>>
    <3>1. SlotType'
      BY <2>1 DEF SlotType
    <3> QED BY <1>c, <2>1, <3>1, ComposerLeft
  <2>2. CASE cSlot' = Composer!None /\ cCalls' = cCalls \cup {Composer!Submitted("send")}
    <3>1. /\ Composer!Exclusive /\ cCompose # Composer!None
          /\ UNCHANGED <<cCompose, cDrafts, cAccounts, cFresh, cSafe, cLost, cTold, cTwice>>
      BY <1>4 DEF Composer!SendComposer
    <3> QED BY <1>c, <2>2, <3>1, ComposerSubmits
  <2> QED BY <1>4, <2>1, <2>2 DEF Composer!SendComposer
<1>5. CASE Composer!Send
  BY <1>4, <1>5 DEF Composer!Send
<1>6. CASE Composer!SaveDraft
  BY <1>6, <1>c, ComposerSubmits DEF Composer!SaveDraft
<1>7. CASE Composer!ChooseAttachments
  BY <1>7, <1>c, ComposerLeft DEF Composer!ChooseAttachments, OtherCalls
<1>8. CASE Composer!AttachmentsChosen
  <2>1. cCalls' \subseteq cCalls
    BY <1>8 DEF Composer!AttachmentsChosen
  <2>2. CASE UNCHANGED <<cCompose, cFresh>>
    BY <1>8, <1>c, <2>1, <2>2, ComposerLeft DEF Composer!AttachmentsChosen
  <2> QED BY <1>8, <2>1, <2>2, TextChanges DEF Composer!AttachmentsChosen
<1>9. ASSUME NEW d \in cDrafts, Composer!OpenDraft(d)
      PROVE  ComposerInv'
  <2>1. d.id \in Nat
    BY DEF ComposerInv, ComposerType, Drafts
  <2> QED BY <1>9, <1>c, <2>1, ComposerLeft DEF Composer!OpenDraft, OtherCalls
<1>10. ASSUME NEW d \in cDrafts, Composer!DeleteDraft(d)
       PROVE  ComposerInv'
  BY <1>10, <1>c, ComposerLeft DEF Composer!DeleteDraft
<1>11. ASSUME NEW call \in cCalls, Composer!AccountRemoved(call)
       PROVE  ComposerInv'
  <2>1. Composer!LossDecided'
    BY <1>11, <1>c, LeaveDecides DEF Composer!AccountRemoved, Composer!Decisions
  <2> QED BY <1>11, <1>c, <2>1, ComposerLeft DEF Composer!AccountRemoved
<1>12. CASE Composer!RequestClose
  <2>1. SlotType'
    BY <1>12, <1>c DEF Composer!RequestClose, SlotType
  <2>2. Composer!LossDecided'
    BY <1>12, <1>a, <1>c, LeaveDecides DEF Composer!RequestClose
  <2> QED BY <1>12, <2>1, <2>2, ComposerLeft DEF Composer!RequestClose
<1>13. CASE Composer!ReviewWindowClose
  <2>1. SlotType'
    <3>1. CASE cSlot' = [kind |-> "close-window"]
      BY <3>1 DEF SlotType
    <3> QED BY <1>13, <1>c, <3>1 DEF Composer!ReviewWindowClose
  <2>2. Composer!LossDecided'
    BY <1>13, <1>a, <1>c, LeaveDecides DEF Composer!ReviewWindowClose
  <2> QED BY <1>13, <2>1, <2>2, ComposerLeft DEF Composer!ReviewWindowClose
<1>14. CASE Composer!CancelConfirmation
  BY <1>14, <1>c, ComposerLeft DEF Composer!CancelConfirmation
<1>15. ASSUME NEW a \in Accounts, Composer!AskRemoveAccount(a)
       PROVE  ComposerInv'
  <2>1. SlotType'
    BY <1>15 DEF Composer!AskRemoveAccount, SlotType
  <2> QED BY <1>15, <1>c, <2>1, ComposerLeft DEF Composer!AskRemoveAccount
<1>16. CASE Composer!ConfirmDiscard
  <2>1. Composer!LossDecided'
    BY <1>16, LeaveDecides DEF Composer!ConfirmDiscard, Composer!Decisions
  <2> QED BY <1>16, <1>c, <2>1, ComposerLeft DEF Composer!ConfirmDiscard
<1>17. CASE Composer!ConfirmReplace
  <2>1. CASE cSlot.account \in cAccounts
    <3>1. cSlot.account \in Accounts /\ cSlot.form \in Composer!Forms
      BY <1>17, <1>b, <2>1 DEF Composer!ConfirmReplace, SlotType, ComposerInv, ComposerType
    <3> QED BY <1>17, <1>c, <2>1, <3>1, BeginComposerSafe
            DEF Composer!ConfirmReplace, Composer!Decisions
  <2>2. CASE ~cSlot.account \in cAccounts
    <3>1. Composer!LossDecided'
      BY <1>17, <2>2, LeaveDecides DEF Composer!ConfirmReplace, Composer!Decisions
    <3> QED BY <1>17, <1>c, <2>2, <3>1, ComposerLeft DEF Composer!ConfirmReplace
  <2> QED BY <2>1, <2>2
<1>18. CASE Composer!ConfirmSend
  BY <1>4, <1>18 DEF Composer!ConfirmSend
<1>19. CASE Composer!ConfirmClose
  <2>1. Composer!LossDecided'
    BY <1>19, LeaveDecides DEF Composer!ConfirmClose, Composer!Decisions
  <2> QED BY <1>19, <1>c, <2>1, ComposerLeft DEF Composer!ConfirmClose
<1>20. CASE Composer!ConfirmRemove
  <2>1. cSlot.account \in Accounts
    BY <1>20, <1>b DEF Composer!ConfirmRemove, SlotType
  <2>2. cCalls' \subseteq cCalls \cup OtherCalls
    BY <1>20, <2>1 DEF Composer!ConfirmRemove, OtherCalls
  <2>3. cDrafts' \subseteq cDrafts /\ cAccounts' \subseteq cAccounts
    BY <1>20 DEF Composer!ConfirmRemove
  <2> QED BY <1>20, <1>c, <2>2, <2>3, ComposerLeft DEF Composer!ConfirmRemove
<1> QED BY <1>1, <1>2, <1>3, <1>5, <1>6, <1>7, <1>8, <1>9, <1>10, <1>11, <1>12, <1>13, <1>14,
           <1>15, <1>16, <1>17, <1>18, <1>19, <1>20, MainAnswersSafe, SendAnsweredSafe,
           SaveAnsweredSafe, DraftOpenedSafe DEF Composer!ComposerNext

-----------------------------------------------------------------------------
(***************************************************************************)
(* The record editor.                                                      *)
(***************************************************************************)
Contents == 0..MaxFields
ListSet == [Uids -> 0..(MaxFields + 1)]
EditorSet ==
    [obj : Nat \ {0}, uid : {0} \cup Uids, fields : Contents, base : Contents,
     record : Contents]
SaveSet ==
    [kind : {"save"}, at : {"main", "saved", "lists"}, owner : Nat \ {0},
     fields : Contents \ {0}, uid : {0} \cup Uids, list : ListSet]
RefreshSet == [kind : {"refresh"}, at : {"main", "lists"}, list : ListSet]

RecordType ==
    /\ rFresh \in Contents
    /\ rEditor \in EditorSet \cup {Record!NoEditor}
    /\ rCalls \subseteq SaveSet \cup RefreshSet
    /\ rStore \in ListSet /\ rList \in ListSet
    /\ rSafe \subseteq Contents /\ 0 \in rSafe
    /\ rMade \subseteq (Nat \ {0}) \X Uids
    /\ rBehind \in BOOLEAN
    /\ rSlot.kind = "replace-pim-editor" => rSlot.uid \in {0} \cup Uids

Stored(list) == \A u \in Record!Present(list) : list[u] \in rSafe

(* Records, lists and baselines are no unsaved work, nor is what a save    *)
(* has stored.                                                             *)
SafeFields ==
    /\ Stored(rStore) /\ Stored(rList) /\ \A c \in rCalls : Stored(c.list)
    /\ Record!IsOpen => rEditor.base \in rSafe
    /\ \A c \in rCalls : c.kind = "save" /\ c.at # "main" => c.fields \in rSafe

(* One save at a time: the editor that owns it holds what it saves, and one *)
(* that was opened since has created nothing.                              *)
Saves == {c \in rCalls : c.kind = "save"}
Ownership ==
    /\ \A c, d \in Saves : c = d
    /\ rEditor.obj <= rFresh
    /\ \A m \in rMade : m[1] <= rFresh
    /\ \A c \in Saves :
          /\ c.owner <= rFresh
          /\ rEditor.obj = c.owner => rEditor.fields = c.fields
          /\ rEditor.obj # c.owner => \A m \in rMade : m[1] # rEditor.obj

(* Uids are given out in order, and none of those is free again.           *)
UidsInOrder ==
    /\ \E last \in Nat : {u \in Uids : rStore[u] # Record!Absent} = 1..last
    /\ \A m \in rMade : rStore[m[2]] # Record!Absent

(* The records that the editor has created and that are still there.       *)
Made(owner) == {u \in Record!Present(rStore) : <<owner, u>> \in rMade}

(* An editor that created a record knows it, and the list on screen shows  *)
(* it as it is stored; while a save is in flight, the call knows it.       *)
Knows ==
    ~rBehind =>
        /\ \A c \in Saves :
              /\ Made(c.owner) \subseteq {c.uid}
              /\ c.at # "main" => c.uid \in Uids /\ rStore[c.uid] \in {c.fields, Record!Deleted}
              /\ c.at = "lists" => c.list[c.uid] \in {c.fields, Record!Deleted}
        /\ Record!IsOpen =>
              \A u \in Made(rEditor.obj) :
                  \/ rEditor.uid = u /\ rList[u] = rStore[u]
                  \/ \E c \in Saves : c.owner = rEditor.obj /\ c.at # "main"

RecordInv ==
    RecordType /\ SafeFields /\ Ownership /\ UidsInOrder /\ Knows
        /\ Record!EditsDecided /\ Record!CreatesOnce

(* One record is stored at the start, and no editor is open.                *)
LEMMA RecordStart == Record!RecordInit => RecordInv
<1> SUFFICES ASSUME Record!RecordInit PROVE RecordInv
  OBVIOUS
<1>1. MaxFields \in Nat \ {0} /\ Uids \subseteq Nat \ {0} /\ (1 \in Uids \/ Uids = {})
  <2>1. Cardinality(Uids) \in Nat
    BY EditorsAssumption, FS_CardinalityType
  <2>2. MaxFields \in Nat \ {0} /\ Uids = 1..Cardinality(Uids)
    BY EditorsAssumption
  <2> QED BY <2>1, <2>2
<1>2. \A u \in Uids : rStore[u] = IF u = 1 THEN 1 ELSE 0
  BY DEF Record!RecordInit, Record!Absent
<1>3. RecordType
  <2>1. rStore \in ListSet /\ rList = rStore
    BY <1>1 DEF Record!RecordInit, Record!Absent, ListSet
  <2>2. rFresh \in Contents /\ rSafe \subseteq Contents /\ 0 \in rSafe
    BY <1>1 DEF Record!RecordInit, Contents
  <2> QED BY <2>1, <2>2 DEF Record!RecordInit, RecordType
<1>4. SafeFields
  BY <1>2 DEF Record!RecordInit, SafeFields, Stored, Record!Present, Record!Absent,
              Record!IsOpen, Record!NoEditor
<1>5. Ownership
  BY DEF Record!RecordInit, Ownership, Saves, Record!NoEditor
<1>6. UidsInOrder
  <2>1. {u \in Uids : rStore[u] # Record!Absent} \in {1..0, 1..1}
    <3>1. CASE 1 \in Uids
      <4>1. {u \in Uids : rStore[u] # Record!Absent} = {1}
        BY <1>2, <3>1 DEF Record!Absent
      <4>2. 1..1 = {1}
        OBVIOUS
      <4> QED BY <4>1, <4>2
    <3>2. CASE Uids = {}
      <4>1. 1..0 = {}
        OBVIOUS
      <4> QED BY <3>2, <4>1
    <3> QED BY <1>1, <3>1, <3>2
  <2> QED BY <2>1 DEF UidsInOrder, Record!RecordInit
<1>7. Knows
  BY DEF Record!RecordInit, Knows, Saves, Record!IsOpen, Record!NoEditor
<1> QED BY <1>3, <1>4, <1>5, <1>6, <1>7
        DEF RecordInv, Record!RecordInit, Record!EditsDecided, Record!CreatesOnce

(* Unsaved fields leave the editor by decision only.                        *)
LEMMA EditorLeaves ==
    ASSUME RecordInv, NEW how, Record!Leave(how),
           \/ how \in {"discard-pim-editor", "replace-pim-editor"}
           \/ Record!IsOpen => rEditor.fields \in rSafe
    PROVE  Record!EditsDecided'
BY DEF RecordInv, Record!Leave, Record!EditsDecided

(* A step of the sheet that leaves the editor alone or closes it.           *)
LEMMA EditorLeft ==
    ASSUME RecordInv, rEditor' \in {rEditor, Record!NoEditor},
           UNCHANGED <<rCalls, rStore, rList, rFresh, rSafe, rMade, rBehind>>,
           rSlot'.kind = "replace-pim-editor" => rSlot'.uid \in {0} \cup Uids,
           Record!EditsDecided'
    PROVE  RecordInv'
<1>1. RecordType'
  BY DEF RecordInv, RecordType
<1>2. SafeFields'
  BY DEF RecordInv, SafeFields, Stored, Record!IsOpen, Record!NoEditor
<1>3. rFresh \in Nat /\ Saves' = Saves
  BY EditorsAssumption DEF RecordInv, RecordType, Contents, Saves
<1>4. Ownership'
  <2>1. \A m \in rMade : m[1] # 0
    BY DEF RecordInv, RecordType
  <2> QED BY <1>3, <2>1 DEF RecordInv, Ownership, RecordType, SaveSet, RefreshSet, Saves, Record!NoEditor
<1>5. UidsInOrder'
  BY DEF RecordInv, UidsInOrder
<1>6. Knows'
  BY <1>3 DEF RecordInv, Knows, Made, Record!IsOpen, Record!NoEditor
<1>7. Record!CreatesOnce'
  BY DEF RecordInv, Record!CreatesOnce
<1> QED BY <1>1, <1>2, <1>4, <1>5, <1>6, <1>7 DEF RecordInv

(* beginPimEditor: the new editor is a number that nobody holds yet.        *)
LEMMA BeginEditorSafe ==
    ASSUME RecordInv, NEW uid \in {0} \cup Uids, NEW how, Record!BeginEditor(uid, how),
           \/ how \in {"discard-pim-editor", "replace-pim-editor"}
           \/ Record!IsOpen => rEditor.fields \in rSafe,
           UNCHANGED <<rCalls, rStore, rList, rMade, rBehind>>,
           rSlot'.kind = "replace-pim-editor" => rSlot'.uid \in {0} \cup Uids
    PROVE  RecordInv'
<1> DEFINE f == Record!CarriedFields(uid)
<1>1. /\ rFresh \in Nat /\ rFresh' = rFresh + 1 /\ rFresh' \in Contents /\ Saves' = Saves
      /\ MaxFields \in Nat
  BY EditorsAssumption
     DEF RecordInv, RecordType, Contents, Record!BeginEditor, Record!Draw, Saves
<1>2. /\ Record!Fields(rList, uid) \in Contents
      /\ Record!Fields(rList, uid) \in rSafe
  BY <1>1 DEF RecordInv, RecordType, SafeFields, Stored, Record!Fields, Record!Present,
              Record!Absent, Record!Deleted, ListSet, Contents
<1>3. f \in Contents /\ f \in rSafe'
  BY <1>2 DEF RecordInv, RecordType, EditorSet, Record!CarriedFields, Record!IsOpen,
              Record!NoEditor, Record!BeginEditor
<1>4. rEditor' = [obj |-> rFresh + 1, uid |-> uid, fields |-> f, base |-> f,
                  record |-> Record!Fields(rList, uid)]
  BY DEF Record!BeginEditor
<1>5. rSafe \subseteq rSafe' /\ rSafe' \subseteq Contents
  BY DEF RecordInv, RecordType, EditorSet, Record!IsOpen, Record!NoEditor, Record!BeginEditor
<1>6. RecordType'
  <2>1. rEditor' \in EditorSet
    BY <1>1, <1>2, <1>3, <1>4 DEF EditorSet
  <2> QED BY <1>1, <1>5, <2>1 DEF RecordInv, RecordType
<1>7. SafeFields'
  BY <1>3, <1>4, <1>5 DEF RecordInv, SafeFields, Stored
<1>8. Ownership'
  <2>1. \A m \in rMade : m[1] \in Nat /\ m[1] # rFresh + 1 /\ m[1] <= rFresh + 1
    BY <1>1 DEF RecordInv, RecordType, Ownership
  <2>2. \A c \in Saves : c.owner \in Nat /\ c.owner # rFresh + 1 /\ c.owner <= rFresh + 1
    BY <1>1 DEF RecordInv, RecordType, Ownership, Saves, SaveSet, RefreshSet
  <2> QED BY <1>1, <1>4, <2>1, <2>2 DEF RecordInv, Ownership
<1>9. UidsInOrder'
  BY DEF RecordInv, UidsInOrder
<1>10. Knows'
  <2>1. Made(rFresh + 1) = {}
    BY <1>1 DEF RecordInv, RecordType, Ownership, Made
  <2> QED BY <1>1, <1>4, <2>1 DEF RecordInv, Knows, Made
<1>11. Record!EditsDecided' /\ Record!CreatesOnce'
  BY EditorLeaves DEF Record!BeginEditor, RecordInv, Record!CreatesOnce
<1> QED BY <1>6, <1>7, <1>8, <1>9, <1>10, <1>11 DEF RecordInv

(* Fields change only while no save is in flight.                           *)
LEMMA EditSafe ==
    ASSUME RecordInv, Record!Edit
    PROVE  RecordInv'
<1>1. /\ rFresh \in Nat /\ rFresh' = rFresh + 1 /\ rFresh' \in Contents
      /\ Saves = {} /\ Saves' = {}
      /\ UNCHANGED <<rSlot, rCalls, rStore, rList, rSafe, rLost, rMade, rBehind>>
  BY EditorsAssumption
     DEF RecordInv, RecordType, Contents, Record!Edit, Record!Draw, Record!Busy, Saves
<1>2. /\ rEditor \in EditorSet /\ rEditor' \in EditorSet
      /\ rEditor'.obj = rEditor.obj /\ rEditor'.uid = rEditor.uid /\ rEditor'.base = rEditor.base
  BY <1>1 DEF Record!Edit, Record!IsOpen, Record!NoEditor, RecordInv, RecordType, EditorSet
<1>3. RecordType'
  BY <1>1, <1>2 DEF RecordInv, RecordType
<1>4. SafeFields'
  BY <1>1, <1>2 DEF RecordInv, SafeFields, Stored, Record!IsOpen
<1>5. Ownership'
  <2>1. rEditor.obj \in Nat /\ \A m \in rMade : m[1] \in Nat
    BY <1>2 DEF EditorSet, RecordInv, RecordType
  <2> QED BY <1>1, <1>2, <2>1 DEF RecordInv, Ownership
<1>6. UidsInOrder'
  BY <1>1 DEF RecordInv, UidsInOrder
<1>7. Knows'
  BY <1>1, <1>2 DEF RecordInv, Knows, Made, Record!IsOpen
<1> QED BY <1>1, <1>3, <1>4, <1>5, <1>6, <1>7
        DEF RecordInv, Record!EditsDecided, Record!CreatesOnce

(* A save is the only one, and it knows what its editor has created.        *)
LEMMA SaveSafe ==
    ASSUME RecordInv, Record!Save
    PROVE  RecordInv'
<1> DEFINE uid == IF Record!Existing THEN rEditor.uid ELSE Record!NoUid
           call == [kind |-> "save", at |-> "main", owner |-> rEditor.obj,
                    fields |-> rEditor.fields, uid |-> uid, list |-> rList]
<1>1. /\ Saves = {} /\ rCalls' = rCalls \cup {call}
      /\ UNCHANGED <<rEditor, rSlot, rStore, rList, rFresh, rSafe, rLost, rMade, rBehind>>
  BY DEF Record!Save, Record!Busy, Saves
<1>2. rEditor \in EditorSet /\ rEditor.fields # 0
  BY DEF Record!Save, Record!IsOpen, Record!NoEditor, RecordInv, RecordType
<1>3. Saves' = {call}
  BY <1>1 DEF Saves
<1>4. RecordType'
  <2>1. call \in SaveSet
    BY <1>2 DEF EditorSet, SaveSet, RecordInv, RecordType, Record!NoUid
  <2> QED BY <1>1, <2>1 DEF RecordInv, RecordType
<1>5. SafeFields'
  BY <1>1 DEF RecordInv, SafeFields, Stored, Record!IsOpen
<1>6. Ownership'
  <2>1. call.owner = rEditor.obj /\ call.fields = rEditor.fields
    OBVIOUS
  <2> HIDE DEF call
  <2> QED BY <1>1, <1>3, <2>1 DEF RecordInv, Ownership
<1>7. UidsInOrder'
  BY <1>1 DEF RecordInv, UidsInOrder
<1>8. Knows'
  <2> SUFFICES ASSUME ~rBehind PROVE Knows'
    BY <1>1 DEF Knows
  <2>1. \A u \in Made(rEditor.obj) : rEditor.uid = u /\ rList[u] = rStore[u]
    BY <1>1, <1>2 DEF RecordInv, Knows, Record!IsOpen, EditorSet
  <2>2. Made(rEditor.obj) \subseteq {uid}
    BY <2>1 DEF Made, Record!Existing, Record!Present
  <2>3. Made(rEditor.obj)' = Made(rEditor.obj)
    BY <1>1 DEF Made
  <2> QED BY <1>1, <1>3, <2>1, <2>2, <2>3 DEF Knows
<1> QED BY <1>1, <1>4, <1>5, <1>6, <1>7, <1>8
        DEF RecordInv, Record!EditsDecided, Record!CreatesOnce

(* The next uid has never been given out.                                   *)
LEMMA NextUidFree ==
    ASSUME RecordInv, Record!NextUid \in Uids
    PROVE  /\ rStore[Record!NextUid] = Record!Absent
           /\ \E last \in Nat :
                 {u \in Uids : rStore[u] # Record!Absent} \cup {Record!NextUid} = 1..last
<1>1. PICK last \in Nat : {u \in Uids : rStore[u] # Record!Absent} = 1..last
  BY DEF RecordInv, UidsInOrder
<1>2. Cardinality(1..last) = last
  BY FS_Interval
<1>3. Record!NextUid = last + 1
  <2> DEFINE used == {u \in Uids : rStore[u] # Record!Absent}
  <2>1. Record!NextUid = Cardinality(used) + 1
    BY Zenon DEF Record!NextUid, Record!Cardinality, Cardinality
  <2>2. used = 1..last
    BY <1>1
  <2> QED BY <1>2, <2>1, <2>2
<1>4. last + 1 \notin 1..last /\ (1..last) \cup {last + 1} = 1..(last + 1) /\ last + 1 \in Nat
  OBVIOUS
<1> QED BY <1>1, <1>3, <1>4

(* A call in flight is of its kind, and a save is the only one.             *)
LEMMA CallInFlight ==
    ASSUME RecordInv, NEW call \in rCalls
    PROVE  /\ call.kind = "save" => call \in SaveSet /\ call \in Saves /\ Saves = {call}
           /\ call.kind = "refresh" => call \in RefreshSet /\ Saves \ {call} = Saves
           /\ call.list \in ListSet /\ Stored(call.list)
BY DEF RecordInv, RecordType, SaveSet, RefreshSet, Saves, Ownership, SafeFields

(* A save reaches the main process: the record it creates is new, and the   *)
(* one it updates is there.                                                 *)
LEMMA MainSavesSafe ==
    ASSUME RecordInv, NEW call \in rCalls, Record!MainSaves(call)
    PROVE  RecordInv'
<1>1. /\ call \in SaveSet /\ call.at = "main" /\ Saves = {call}
      /\ UNCHANGED <<rEditor, rSlot, rList, rFresh, rLost, rBehind>>
  BY CallInFlight DEF Record!MainSaves
<1>2. CASE rCalls' = rCalls \ {call} /\ UNCHANGED <<rStore, rSafe, rMade>>
  <2>1. Saves' = {}
    BY <1>1, <1>2 DEF Saves
  <2>2. RecordType' /\ SafeFields' /\ UidsInOrder'
    BY <1>1, <1>2 DEF RecordInv, RecordType, SafeFields, Stored, Record!IsOpen, UidsInOrder
  <2>3. Ownership'
    BY <1>1, <1>2, <2>1 DEF RecordInv, Ownership
  <2>4. Knows'
    BY <1>1, <1>2, <2>1 DEF RecordInv, Knows, Made, Record!IsOpen
  <2> QED BY <1>1, <1>2, <2>2, <2>3, <2>4
          DEF RecordInv, Record!EditsDecided, Record!CreatesOnce
<1>3. ASSUME NEW u \in Uids,
             IF call.uid = Record!NoUid THEN u = Record!NextUid
                                        ELSE u = call.uid /\ u \in Record!Present(rStore),
             rStore' = [rStore EXCEPT ![u] = call.fields],
             rSafe' = rSafe \cup {call.fields},
             rMade' = IF call.uid = Record!NoUid THEN rMade \cup {<<call.owner, u>>} ELSE rMade,
             rCalls' = (rCalls \ {call}) \cup {[call EXCEPT !.at = "saved", !.uid = u]}
      PROVE  RecordInv'
  <2> DEFINE saved == [call EXCEPT !.at = "saved", !.uid = u]
  <2>1. /\ saved \in SaveSet /\ saved.kind = "save" /\ saved.at = "saved" /\ saved.uid = u
        /\ saved.owner = call.owner /\ saved.fields = call.fields /\ saved.list = call.list
    BY <1>1 DEF SaveSet
  <2> HIDE DEF saved
  <2>2. Saves' = {saved} /\ rCalls' = (rCalls \ {call}) \cup {saved}
    BY <1>1, <1>3, <2>1 DEF Saves, saved
  <2>3. call.fields \in 1..MaxFields /\ MaxFields \in Nat /\ call.fields \in Contents
    BY <1>1, EditorsAssumption DEF SaveSet, Contents
  <2>4. /\ rStore' \in ListSet /\ rStore'[u] = call.fields
        /\ \A v \in Uids : v # u => rStore'[v] = rStore[v]
    BY <1>3, <2>3 DEF RecordInv, RecordType, ListSet
  <2>5. Record!Present(rStore)' = Record!Present(rStore) \cup {u}
    BY <1>3, <2>3, <2>4 DEF Record!Present, Record!Absent, Record!Deleted
  <2>6. RecordType'
    BY <1>1, <1>3, <2>1, <2>2, <2>3, <2>4 DEF RecordInv, RecordType, SaveSet
  <2>7. SafeFields'
    BY <1>1, <1>3, <2>1, <2>2, <2>4, <2>5
       DEF RecordInv, SafeFields, Stored, Record!IsOpen, Record!Present
  <2>8. Ownership'
    BY <1>1, <1>3, <2>1, <2>2 DEF RecordInv, Ownership
  <2>9. UidsInOrder'
    <3>1. {v \in Uids : rStore'[v] # Record!Absent}
             = {v \in Uids : rStore[v] # Record!Absent} \cup {u}
      BY <2>3, <2>4 DEF Record!Absent
    <3>2. \E last \in Nat : {v \in Uids : rStore'[v] # Record!Absent} = 1..last
      <4>1. CASE call.uid = Record!NoUid
        BY <1>3, <3>1, <4>1, NextUidFree
      <4>2. CASE call.uid # Record!NoUid
        BY <1>3, <3>1, <4>2 DEF RecordInv, UidsInOrder, Record!Present
      <4> QED BY <4>1, <4>2
    <3>3. \A m \in rMade' : m[2] \in Uids /\ (m \in rMade \/ m[2] = u)
      BY <1>3 DEF RecordInv, RecordType
    <3>4. \A m \in rMade' : rStore'[m[2]] # Record!Absent
      BY <2>3, <2>4, <3>3 DEF RecordInv, UidsInOrder, Record!Absent
    <3> QED BY <3>2, <3>4 DEF UidsInOrder
  <2>10. rBehind \/ Made(call.owner)' \subseteq {u}
    <3>1. rBehind \/ Made(call.owner) \subseteq {call.uid}
      BY <1>1 DEF RecordInv, Knows
    <3>2. CASE call.uid = Record!NoUid
      <4>1. u # Record!NoUid /\ call.uid \notin Uids
        <5>1. Uids = 1..Cardinality(Uids) /\ Cardinality(Uids) \in Nat
          BY EditorsAssumption, FS_CardinalityType
        <5> QED BY <3>2, <5>1 DEF Record!NoUid
      <4>2. rBehind \/ Made(call.owner) = {}
        BY <3>1, <4>1 DEF Made, Record!Present
      <4> QED BY <1>3, <2>5, <3>2, <4>2 DEF Made
    <3>3. CASE call.uid # Record!NoUid
      BY <1>3, <2>5, <3>1, <3>3 DEF Made
    <3> QED BY <3>2, <3>3
  <2>11. \A owner : owner # call.owner => Made(owner)' = Made(owner)
    <3>1. call.uid = Record!NoUid => \A m \in rMade : m[2] # u
      BY <1>3, NextUidFree DEF RecordInv, UidsInOrder
    <3> QED BY <1>3, <2>5, <3>1 DEF Made
  <2>12. Knows'
    <3>1. \A c \in Saves' : /\ rBehind \/ Made(c.owner)' \subseteq {c.uid}
                            /\ c.uid \in Uids /\ rStore'[c.uid] = c.fields
                            /\ c.at = "saved"
      BY <2>1, <2>2, <2>4, <2>10
    <3>2. Record!IsOpen' => \A v \in Made(rEditor.obj)' : rEditor.obj = call.owner
      BY <1>1, <2>11 DEF RecordInv, Ownership, Made, Record!IsOpen
    <3> QED BY <1>1, <2>1, <2>2, <3>1, <3>2 DEF Knows
  <2>13. Record!CreatesOnce'
    <3> SUFFICES ASSUME ~rBehind, NEW m \in rMade', NEW n \in rMade', m[1] = n[1],
                        {m[2], n[2]} \subseteq Record!Present(rStore)'
                 PROVE  m = n
      BY <1>1 DEF Record!CreatesOnce
    <3>1. /\ m = <<m[1], m[2]>> /\ n = <<n[1], n[2]>>
          /\ m[2] \in Made(m[1])' /\ n[2] \in Made(m[1])'
      BY <2>6 DEF RecordType, Made
    <3>2. CASE m[1] = call.owner
      BY <2>10, <3>1, <3>2
    <3>3. CASE m[1] # call.owner
      <4>1. m[2] \in Made(m[1]) /\ n[2] \in Made(m[1])
        BY <2>11, <3>1, <3>3
      <4> QED BY <3>1, <4>1 DEF Made, RecordInv, Record!CreatesOnce
    <3> QED BY <3>2, <3>3
  <2> QED BY <1>1, <2>6, <2>7, <2>8, <2>9, <2>12, <2>13 DEF RecordInv, Record!EditsDecided
<1> QED BY <1>2, <1>3 DEF Record!MainSaves

(* A refresh reads the records as they are stored.                          *)
LEMMA ReadsListsSafe ==
    ASSUME RecordInv, NEW call \in rCalls, Record!ReadsLists(call)
    PROVE  RecordInv'
<1> DEFINE read == [call EXCEPT !.at = "lists", !.list = rStore]
<1>1. /\ UNCHANGED <<rEditor, rSlot, rStore, rList, rFresh, rSafe, rLost, rMade, rBehind>>
      /\ rCalls' = (rCalls \ {call}) \cup {read} /\ call \in SaveSet \cup RefreshSet
  BY DEF Record!ReadsLists, RecordInv, RecordType
<1>2. /\ read \in SaveSet \cup RefreshSet /\ read.list = rStore
      /\ read.kind = call.kind /\ read.at = "lists"
      /\ call.kind = "save" => /\ read.fields = call.fields /\ read.owner = call.owner
                               /\ read.uid = call.uid /\ call.at = "saved"
  BY <1>1 DEF RecordInv, RecordType, SaveSet, RefreshSet, Record!ReadsLists
<1> HIDE DEF read
<1>3. \/ call.kind = "save" /\ Saves = {call} /\ Saves' = {read}
      \/ call.kind # "save" /\ Saves' = Saves
  BY <1>1, <1>2, CallInFlight DEF Saves
<1>4. RecordType'
  BY <1>1, <1>2 DEF RecordInv, RecordType
<1>5. SafeFields'
  <2>1. \A c \in rCalls' : Stored(c.list)' /\ (c.kind = "save" /\ c.at # "main" => c.fields \in rSafe)
    BY <1>1, <1>2 DEF RecordInv, SafeFields, Stored
  <2> QED BY <1>1, <2>1 DEF RecordInv, SafeFields, Stored, Record!IsOpen
<1>6. Ownership'
  BY <1>1, <1>2, <1>3 DEF RecordInv, Ownership
<1>7. UidsInOrder'
  BY <1>1 DEF RecordInv, UidsInOrder
<1>8. Knows'
  <2>1. \A owner : Made(owner)' = Made(owner)
    BY <1>1 DEF Made
  <2> QED BY <1>1, <1>2, <1>3, <2>1 DEF RecordInv, Knows, Record!IsOpen
<1> QED BY <1>1, <1>4, <1>5, <1>6, <1>7, <1>8
        DEF RecordInv, Record!EditsDecided, Record!CreatesOnce

(* A list that was read earlier is applied: where it differs from a list on *)
(* screen that was right, an older one has come over a newer record.        *)
LEMMA AppliedKeeps ==
    ASSUME RecordInv, NEW call \in rCalls, Record!Applied(call), UNCHANGED rStore,
           NEW u \in Uids, ~rBehind', rList[u] = rStore[u]
    PROVE  ~rBehind /\ rList'[u] = rStore'[u]
BY DEF RecordInv, RecordType, Record!Applied

(* finishPimSave closes the editor that owns the save or makes it the       *)
(* editor of the record that was saved.                                     *)
LEMMA SaveFinishedSafe ==
    ASSUME RecordInv, NEW call \in rCalls, Record!SaveFinished(call)
    PROVE  RecordInv'
<1>1. /\ call \in SaveSet /\ call.at = "lists" /\ Saves = {call} /\ Stored(call.list)
      /\ rCalls' = rCalls \ {call}
      /\ UNCHANGED <<rSlot, rStore, rFresh, rSafe, rMade>>
  BY CallInFlight DEF Record!SaveFinished
<1>2. Saves' = {}
  BY <1>1 DEF Saves
<1>3. call.fields \in rSafe /\ call.fields \in 1..MaxFields /\ MaxFields \in Nat
  BY <1>1, EditorsAssumption DEF RecordInv, SafeFields, SaveSet, Contents
<1>4. UidsInOrder' /\ \A owner : Made(owner)' = Made(owner)
  BY <1>1 DEF RecordInv, UidsInOrder, Made
<1>5. CASE /\ Record!Applied(call)
           /\ IF Record!OwnsPimSaveEditor(call)
              THEN rEditor' = Record!NoEditor /\ Record!ClosedBy(call)
              ELSE UNCHANGED <<rEditor, rLost>>
  <2>1. Record!EditsDecided'
    <3>1. CASE rEditor.obj = call.owner
      <4>1. rEditor.fields \in rSafe
        BY <1>1, <1>3, <3>1 DEF RecordInv, Ownership
      <4> QED BY <1>5, <3>1, <4>1, EditorLeaves DEF Record!OwnsPimSaveEditor, Record!ClosedBy
    <3>2. CASE rEditor.obj # call.owner
      BY <1>5, <3>2 DEF Record!OwnsPimSaveEditor, RecordInv, Record!EditsDecided
    <3> QED BY <3>1, <3>2
  <2>2. /\ rEditor' \in {rEditor, Record!NoEditor} /\ rList' = call.list
        /\ rBehind' \in BOOLEAN /\ (rBehind => rBehind')
        /\ rEditor'.obj # call.owner
    BY <1>1, <1>5 DEF Record!Applied, Record!OwnsPimSaveEditor, RecordInv, RecordType,
                      Record!NoEditor, SaveSet
  <2>3. RecordType'
    BY <1>1, <2>2 DEF RecordInv, RecordType, SaveSet
  <2>4. SafeFields'
    BY <1>1, <2>2 DEF RecordInv, SafeFields, Stored, Record!IsOpen, Record!NoEditor
  <2>5. Ownership'
    BY <1>1, <1>2, <2>2, EditorsAssumption
       DEF RecordInv, RecordType, Ownership, Record!NoEditor, Contents
  <2>6. Knows'
    <3>1. Record!IsOpen' => Made(rEditor'.obj) = {}
      BY <1>1, <2>2 DEF RecordInv, Ownership, Made, Record!IsOpen, Record!NoEditor
    <3> QED BY <1>2, <1>4, <3>1 DEF Knows
  <2>7. Record!CreatesOnce'
    BY <1>1, <2>2 DEF RecordInv, Record!CreatesOnce
  <2> QED BY <1>4, <2>1, <2>3, <2>4, <2>5, <2>6, <2>7 DEF RecordInv
<1>6. CASE /\ rList' = [rList EXCEPT ![call.uid] = call.fields]
           /\ rEditor' = IF Record!OwnsPimSaveEditor(call)
                         THEN [rEditor EXCEPT !.uid = call.uid, !.base = rEditor.fields,
                                              !.record = rEditor.fields]
                         ELSE rEditor
           /\ UNCHANGED <<rLost, rBehind>>
  <2>1. rEditor.obj = call.owner => rEditor \in EditorSet /\ rEditor.fields = call.fields
    BY <1>1 DEF RecordInv, RecordType, Ownership, Record!NoEditor, SaveSet
  <2>2. /\ rEditor' \in EditorSet \cup {Record!NoEditor}
        /\ rEditor'.obj = rEditor.obj
        /\ rEditor.obj = call.owner => rEditor'.uid = call.uid /\ rEditor'.base = call.fields
        /\ rEditor.obj # call.owner => rEditor' = rEditor
    BY <1>1, <1>6, <2>1
       DEF Record!OwnsPimSaveEditor, RecordInv, RecordType, EditorSet, SaveSet
  <2>3. rList' \in ListSet /\ \A u \in Uids : rList'[u] = rList[u] \/ rList'[u] = call.fields
    <3>1. call.fields \in 0..(MaxFields + 1)
      BY <1>3
    <3>2. rList \in [Uids -> 0..(MaxFields + 1)]
      BY DEF RecordInv, RecordType, ListSet
    <3> QED BY <1>6, <3>1, <3>2 DEF ListSet
  <2>4. RecordType'
    BY <1>1, <1>6, <2>2, <2>3 DEF RecordInv, RecordType
  <2>5. SafeFields'
    <3>1. Stored(rList')
      BY <1>3, <2>3 DEF RecordInv, SafeFields, Stored, Record!Present
    <3>2. Record!IsOpen' => rEditor'.base \in rSafe
      BY <1>3, <2>2 DEF RecordInv, SafeFields, Record!IsOpen
    <3> QED BY <1>1, <3>1, <3>2 DEF RecordInv, SafeFields, Stored
  <2>6. Ownership'
    BY <1>1, <1>2, <2>2 DEF RecordInv, Ownership
  <2>7. Knows'
    <3> SUFFICES ASSUME ~rBehind, Record!IsOpen', NEW u \in Made(rEditor.obj)
                 PROVE  rEditor'.uid = u /\ rList'[u] = rStore[u]
      BY <1>1, <1>2, <1>4, <1>6, <2>2 DEF Knows
    <3>1. rEditor.obj = call.owner
      BY <1>1, <2>2 DEF RecordInv, Ownership, Made, Record!IsOpen
    <3>2. u = call.uid /\ call.uid \in Uids /\ rStore[u] = call.fields
      BY <1>1, <3>1 DEF RecordInv, Knows, Made, Record!Present
    <3> QED BY <1>6, <2>2, <3>1, <3>2 DEF RecordInv, RecordType, ListSet
  <2> QED BY <1>1, <1>4, <1>6, <2>4, <2>5, <2>6, <2>7
          DEF RecordInv, Record!EditsDecided, Record!CreatesOnce
<1> QED BY <1>5, <1>6 DEF Record!SaveFinished

(* A record is deleted in the main process, or something else changes       *)
(* there, and the lists are read again.                                     *)
LEMMA ChangeRecordsSafe ==
    ASSUME RecordInv, Record!ChangeRecords
    PROVE  RecordInv'
<1> DEFINE call == [kind |-> "refresh", at |-> "main", list |-> rList]
<1>1. /\ UNCHANGED <<rEditor, rSlot, rList, rFresh, rSafe, rLost, rMade, rBehind>>
      /\ rCalls' = rCalls \cup {call} /\ call \in RefreshSet
  BY DEF Record!ChangeRecords, RecordInv, RecordType, RefreshSet
<1>2. Saves' = Saves
  BY <1>1 DEF Saves
<1>3. /\ rStore' \in ListSet
      /\ \A v \in Uids : \/ rStore'[v] = rStore[v]
                         \/ rStore'[v] = Record!Deleted /\ rStore[v] # Record!Absent
  <2>1. Record!Deleted \in 0..(MaxFields + 1)
    BY EditorsAssumption DEF Record!Deleted
  <2>2. rStore \in [Uids -> 0..(MaxFields + 1)]
    BY DEF RecordInv, RecordType, ListSet
  <2>3. CASE UNCHANGED rStore
    BY <2>2, <2>3 DEF ListSet
  <2>4. ASSUME NEW u \in Record!Present(rStore), rStore' = [rStore EXCEPT ![u] = Record!Deleted]
        PROVE  /\ rStore' \in ListSet
               /\ \A v \in Uids : \/ rStore'[v] = rStore[v]
                                  \/ rStore'[v] = Record!Deleted /\ rStore[v] # Record!Absent
    BY <2>1, <2>2, <2>4 DEF ListSet, Record!Present
  <2> QED BY <2>3, <2>4 DEF Record!ChangeRecords
<1>4. /\ Record!Present(rStore)' \subseteq Record!Present(rStore)
      /\ \A v \in Record!Present(rStore)' : rStore'[v] = rStore[v]
      /\ Record!Deleted # Record!Absent
  BY <1>3, EditorsAssumption DEF Record!Present, Record!Absent, Record!Deleted
<1>5. RecordType'
  BY <1>1, <1>3 DEF RecordInv, RecordType
<1>6. SafeFields'
  BY <1>1, <1>4 DEF RecordInv, SafeFields, Stored, Record!IsOpen, Record!Present
<1>7. Ownership'
  BY <1>1, <1>2 DEF RecordInv, Ownership
<1>8. UidsInOrder'
  <2>1. {u \in Uids : rStore'[u] # Record!Absent} = {u \in Uids : rStore[u] # Record!Absent}
    BY <1>3, <1>4
  <2>2. \A m \in rMade : m[2] \in Uids
    BY DEF RecordInv, RecordType
  <2> QED BY <1>1, <1>3, <1>4, <2>1, <2>2 DEF RecordInv, UidsInOrder
<1>9. Knows'
  <2>1. \A owner : /\ Made(owner)' \subseteq Made(owner)
                   /\ \A u \in Made(owner)' : rStore'[u] = rStore[u]
    BY <1>1, <1>4 DEF Made
  <2> QED BY <1>1, <1>2, <1>3, <2>1 DEF RecordInv, Knows, Record!IsOpen
<1>10. Record!CreatesOnce'
  BY <1>1, <1>4 DEF RecordInv, Record!CreatesOnce
<1> QED BY <1>1, <1>5, <1>6, <1>7, <1>8, <1>9, <1>10 DEF RecordInv, Record!EditsDecided

(* A refresh applies what it read, or fails.                                *)
LEMMA RefreshedSafe ==
    ASSUME RecordInv, NEW call \in rCalls, Record!Refreshed(call)
    PROVE  RecordInv'
<1>1. /\ call \in RefreshSet /\ call.list \in ListSet /\ Stored(call.list)
      /\ Saves' = Saves /\ rCalls' = rCalls \ {call}
      /\ UNCHANGED <<rEditor, rSlot, rStore, rFresh, rSafe, rLost, rMade>>
  BY CallInFlight DEF Record!Refreshed, RefreshSet, Saves
<1>2. /\ rList' \in {rList, call.list} /\ rBehind' \in BOOLEAN /\ (rBehind => rBehind')
      /\ ~rBehind' => \A u \in Uids : rList[u] = rStore[u] => rList'[u] = rStore[u]
  <2>1. CASE UNCHANGED <<rList, rBehind>>
    BY <2>1 DEF RecordInv, RecordType
  <2>2. CASE Record!Applied(call)
    BY <1>1, <2>2, AppliedKeeps DEF Record!Applied, RecordInv, RecordType
  <2> QED BY <2>1, <2>2 DEF Record!Refreshed
<1>3. RecordType'
  BY <1>1, <1>2 DEF RecordInv, RecordType
<1>4. SafeFields'
  BY <1>1, <1>2 DEF RecordInv, SafeFields, Stored, Record!IsOpen
<1>5. Ownership'
  BY <1>1 DEF RecordInv, Ownership
<1>6. UidsInOrder'
  BY <1>1 DEF RecordInv, UidsInOrder
<1>7. Knows'
  <2>1. \A owner : Made(owner)' = Made(owner) /\ Made(owner) \subseteq Uids
    BY <1>1 DEF Made, Record!Present
  <2> QED BY <1>1, <1>2, <2>1 DEF RecordInv, RecordType, Knows, Record!IsOpen
<1>8. Record!CreatesOnce'
  BY <1>1, <1>2 DEF RecordInv, Record!CreatesOnce
<1> QED BY <1>1, <1>3, <1>4, <1>5, <1>6, <1>7, <1>8 DEF RecordInv, Record!EditsDecided

(* Every step of the record editor keeps its invariant.                     *)
LEMMA RecordStep ==
    ASSUME RecordInv, Record!RecordNext
    PROVE  RecordInv'
<1>1. Record!Dirty \/ ~Record!IsOpen \/ rEditor.fields \in rSafe
  BY DEF Record!Dirty, RecordInv, SafeFields
<1>2. rSlot.kind = "replace-pim-editor" => rSlot.uid \in {0} \cup Uids
  BY DEF RecordInv, RecordType
<1>3. ASSUME NEW uid \in Uids \cup {Record!NoUid}, Record!RequestOpen(uid)
      PROVE  RecordInv'
  <2>1. uid \in {0} \cup Uids
    BY DEF Record!NoUid
  <2>2. CASE Record!Dirty
    <3>1. rSlot' = [kind |-> "replace-pim-editor", uid |-> uid]
      BY <1>3, <2>2 DEF Record!RequestOpen
    <3>2. rSlot'.uid = uid
      BY <3>1
    <3> QED BY <1>3, <2>1, <2>2, <3>2, EditorLeft
            DEF Record!RequestOpen, RecordInv, Record!EditsDecided
  <2>3. CASE ~Record!Dirty
    BY <1>1, <1>2, <1>3, <2>1, <2>3, BeginEditorSafe DEF Record!RequestOpen
  <2> QED BY <2>2, <2>3
<1>4. CASE Record!RequestClose
  <2>1. Record!EditsDecided'
    BY <1>1, <1>4, EditorLeaves DEF Record!RequestClose, RecordInv, Record!EditsDecided
  <2>2. rSlot'.kind = "replace-pim-editor" => rSlot'.uid \in {0} \cup Uids
    BY <1>2, <1>4 DEF Record!RequestClose
  <2> QED BY <1>4, <2>1, <2>2, EditorLeft DEF Record!RequestClose
<1>5. CASE Record!Cancel
  <2>1. Record!EditsDecided'
    BY <1>5 DEF Record!Cancel, RecordInv, Record!EditsDecided
  <2>2. rSlot'.kind = "none"
    BY <1>5 DEF Record!Cancel
  <2> QED BY <1>5, <2>1, <2>2, EditorLeft DEF Record!Cancel
<1>6. CASE Record!ConfirmDiscard
  <2>1. Record!EditsDecided'
    BY <1>6, EditorLeaves DEF Record!ConfirmDiscard
  <2>2. rSlot'.kind = "none"
    BY <1>6 DEF Record!ConfirmDiscard
  <2> QED BY <1>6, <2>1, <2>2, EditorLeft DEF Record!ConfirmDiscard
<1>7. CASE Record!ConfirmReplace
  <2>1. rSlot'.kind = "none"
    BY <1>7 DEF Record!ConfirmReplace
  <2> QED BY <1>2, <1>7, <2>1, BeginEditorSafe DEF Record!ConfirmReplace
<1> QED BY <1>3, <1>4, <1>5, <1>6, <1>7, EditSafe, SaveSafe, ChangeRecordsSafe, MainSavesSafe,
           ReadsListsSafe, SaveFinishedSafe, RefreshedSafe DEF Record!RecordNext

-----------------------------------------------------------------------------
(***************************************************************************)
(* Both editors in the window.                                             *)
(***************************************************************************)
(* The steps of one editor leave the other alone.                           *)
LEMMA EditorsAreSafe == EditorsSpec => [](ComposerInv /\ RecordInv)
<1>1. EditorsInit => ComposerInv /\ RecordInv
  BY ComposerStart, RecordStart DEF EditorsInit
<1>2. ComposerInv /\ UNCHANGED composerVars => ComposerInv'
  BY DEF composerVars, ComposerInv, ComposerType, SlotType, SafeTexts, OneSubmit, NotTold,
         Submits, Composer!Reported, Composer!LossDecided, Composer!DeliveredOnce
<1>3. RecordInv /\ UNCHANGED recordVars => RecordInv'
  BY DEF recordVars, RecordInv, RecordType, SafeFields, Stored, Ownership, Saves, UidsInOrder,
         Knows, Made, Record!IsOpen, Record!Present, Record!EditsDecided, Record!CreatesOnce
<1>4. ComposerInv /\ RecordInv /\ [EditorsNext]_editorVars => (ComposerInv /\ RecordInv)'
  BY <1>2, <1>3, ComposerStep, RecordStep DEF EditorsNext, editorVars
<1> QED BY <1>1, <1>4, PTL DEF EditorsSpec

(* What the user typed leaves the composer and the record editor by his     *)
(* decision only (main.ts: sendComposer, saveComposerDraft, finishPimSave). *)
THEOREM TypedTextKept == EditorsSpec => []TypedKept
<1>1. ComposerInv /\ RecordInv => TypedKept
  BY DEF ComposerInv, RecordInv, TypedKept
<1> QED BY <1>1, EditorsAreSafe, PTL

(* A delivered message is not delivered again from its composer, and one    *)
(* editor creates one record (main.ts: sendComposer, claimPimSave).         *)
THEOREM NothingDoneTwice == EditorsSpec => []NothingTwice
<1>1. ComposerInv /\ RecordInv => NothingTwice
  BY DEF ComposerInv, RecordInv, NothingTwice
<1> QED BY <1>1, EditorsAreSafe, PTL

-----------------------------------------------------------------------------
(***************************************************************************)
(* The settings.                                                           *)
(***************************************************************************)
Preferences == [SettingKeys -> Nat]
RevisionSet == [restorable : {FALSE}] \cup [restorable : {TRUE}, before : Preferences]
Patches == UNION {[S -> Nat] : S \in SUBSET SettingKeys}
Sent == IF pFlight.stage = "sent" THEN DOMAIN pFlight.patch ELSE {}
RefusedLast == IF pFlight.stage = "refused" THEN DOMAIN pFlight.patch ELSE {}

SettingsType ==
    /\ pStored \in Preferences /\ pWanted \in Preferences /\ pPatch \in Patches /\ pEdits \in Nat
    /\ pHistory \in Seq(RevisionSet)
    /\ pFlight.stage \in {"none", "sent", "saved", "refused"}
    /\ pFlight = Settings!Nothing \/ pFlight.patch \in Patches
    /\ pFlight.stage = "none" => pFlight = Settings!Nothing
(* A choice is in the patch that waits; or else in the one that was sent;   *)
(* or else stored, refused, or about to be shown as refused.                *)
ChoicesOnTheirWay ==
    /\ \A k \in DOMAIN pPatch : pPatch[k] = pWanted[k]
    /\ \A k \in Sent \ DOMAIN pPatch : pFlight.patch[k] = pWanted[k]
    /\ \A k \in SettingKeys \ (DOMAIN pPatch \cup Sent) :
          k \in pRefused \cup RefusedLast \/ pStored[k] = pWanted[k]
    /\ pFlight = Settings!Nothing => pPatch = Settings!NoPatch
SettingsInv == SettingsType /\ ChoicesOnTheirWay

(* A patch laid over the preferences, or over another patch.                *)
LEMMA Merged ==
    ASSUME NEW old \in Patches, NEW patch \in Patches
    PROVE  /\ Settings!Merge(old, patch) \in Patches
           /\ DOMAIN Settings!Merge(old, patch) = DOMAIN old \cup DOMAIN patch
           /\ \A k \in DOMAIN patch : Settings!Merge(old, patch)[k] = patch[k]
           /\ \A k \in DOMAIN old \ DOMAIN patch : Settings!Merge(old, patch)[k] = old[k]
           /\ old \in Preferences => Settings!Merge(old, patch) \in Preferences
<1>1. /\ DOMAIN old \in SUBSET SettingKeys /\ old \in [DOMAIN old -> Nat]
      /\ DOMAIN patch \in SUBSET SettingKeys /\ patch \in [DOMAIN patch -> Nat]
  BY DEF Patches
<1>2. Settings!Merge(old, patch) \in [DOMAIN old \cup DOMAIN patch -> Nat]
  BY <1>1 DEF Settings!Merge
<1>3. DOMAIN old \cup DOMAIN patch \in SUBSET SettingKeys
  BY <1>1
<1> QED BY <1>1, <1>2, <1>3 DEF Settings!Merge, Patches, Preferences

LEMMA PatchTypes ==
    /\ Preferences \subseteq Patches
    /\ Settings!NoPatch \in Patches /\ DOMAIN Settings!NoPatch = {}
    /\ \A p \in Patches : DOMAIN p \subseteq SettingKeys /\ (DOMAIN p = {} => p = Settings!NoPatch)
BY DEF Preferences, Patches, Settings!NoPatch

(* A revision joins the history in front.                                   *)
LEMMA Recorded ==
    ASSUME SettingsInv,
           NEW snapshot \in RevisionSet
    PROVE  /\ Settings!Record(snapshot) \in Seq(RevisionSet)
           /\ 1 \in 1..Len(Settings!Record(snapshot)) /\ Settings!Record(snapshot)[1] = snapshot
<1> DEFINE all == <<snapshot>> \o pHistory
           n == IF Len(pHistory) < MaxRevisions THEN Len(pHistory) + 1 ELSE MaxRevisions
<1>1. pHistory \in Seq(RevisionSet) /\ MaxRevisions \in Nat \ {0}
  BY EditorsAssumption DEF SettingsInv, SettingsType
<1>2. all \in Seq(RevisionSet) /\ Len(all) = Len(pHistory) + 1 /\ all[1] = snapshot
  BY <1>1
<1>3. n \in 1..Len(all)
  BY <1>1, <1>2
<1>4. SubSeq(all, 1, n) \in Seq(RevisionSet) /\ Len(SubSeq(all, 1, n)) = n /\ SubSeq(all, 1, n)[1] = all[1]
  <2> HIDE DEF all, n
  <2> QED BY <1>2, <1>3
<1> QED BY <1>2, <1>3, <1>4 DEF Settings!Record

LEMMA SettingsStart ==
    ASSUME Settings!SettingsInit
    PROVE  SettingsInv
<1>1. Settings!Defaults \in Preferences
  BY DEF Settings!Defaults, Preferences
<1> QED
  BY <1>1, PatchTypes DEF Settings!SettingsInit, SettingsInv, SettingsType, ChoicesOnTheirWay, Sent,
     RefusedLast, Settings!Nothing

LEMMA PatchSafe ==
    ASSUME SettingsInv, NEW k \in SettingKeys, Settings!SavePreferencesPatch(k)
    PROVE  SettingsInv'
<1> DEFINE v == pEdits + 1
           one == [x \in {k} |-> v]
           patch == Settings!Merge(pPatch, one)
<1>1. /\ v \in Nat /\ pEdits' = v /\ pWanted' = [pWanted EXCEPT ![k] = v] /\ pRefused' = pRefused \ {k}
      /\ IF pFlight = Settings!Nothing THEN Settings!FlushPreferencePatch(patch, TRUE)
         ELSE pPatch' = patch /\ UNCHANGED pFlight
      /\ UNCHANGED <<pStored, pHistory>>
  <2>1. IF pFlight = Settings!Nothing THEN Settings!FlushPreferencePatch(patch, TRUE)
        ELSE pPatch' = patch /\ UNCHANGED pFlight
    BY Zenon DEF Settings!SavePreferencesPatch
  <2>2. v \in Nat
    BY DEF SettingsInv, SettingsType
  <2>3. /\ pEdits' = v /\ pWanted' = [pWanted EXCEPT ![k] = v] /\ pRefused' = pRefused \ {k}
        /\ UNCHANGED <<pStored, pHistory>>
    BY DEF Settings!SavePreferencesPatch
  <2> QED BY <2>1, <2>2, <2>3, Zenon
<1>2. one \in Patches /\ DOMAIN one = {k} /\ one[k] = v
  <2>1. {k} \in SUBSET SettingKeys /\ one \in [{k} -> Nat]
    BY <1>1
  <2> QED BY <2>1 DEF Patches
<1>3. /\ patch \in Patches /\ DOMAIN patch = DOMAIN pPatch \cup {k} /\ patch[k] = v
      /\ \A x \in DOMAIN pPatch \ {k} : patch[x] = pPatch[x]
  BY <1>2, Merged DEF SettingsInv, SettingsType
<1> HIDE DEF patch, one, v
<1>4. /\ pWanted' \in Preferences /\ pWanted'[k] = v
      /\ \A x \in SettingKeys \ {k} : pWanted'[x] = pWanted[x]
  BY <1>1 DEF SettingsInv, SettingsType, Preferences
<1>5. patch # Settings!NoPatch
  BY <1>3, PatchTypes
<1>6. CASE pFlight = Settings!Nothing
  <2>1. /\ pFlight' = [stage |-> "sent", patch |-> patch] /\ pPatch' = Settings!NoPatch
        /\ pPatch = Settings!NoPatch /\ DOMAIN patch = {k} /\ Sent = {} /\ RefusedLast = {}
        /\ Sent' = {k} /\ RefusedLast' = {}
    BY <1>1, <1>3, <1>5, <1>6, PatchTypes
       DEF Settings!FlushPreferencePatch, SettingsInv, ChoicesOnTheirWay, Sent, RefusedLast, Settings!Nothing
  <2>2. SettingsType'
    BY <1>1, <1>3, <1>4, <2>1, PatchTypes DEF SettingsInv, SettingsType
  <2>3. ChoicesOnTheirWay'
    BY <1>1, <1>3, <1>4, <2>1, PatchTypes DEF SettingsInv, ChoicesOnTheirWay, Settings!Nothing
  <2> QED BY <2>2, <2>3 DEF SettingsInv
<1>7. CASE pFlight # Settings!Nothing
  <2>1. pPatch' = patch /\ pFlight' = pFlight /\ Sent' = Sent /\ RefusedLast' = RefusedLast
    BY <1>1, <1>7 DEF Sent, RefusedLast
  <2>2. SettingsType'
    BY <1>1, <1>3, <1>4, <2>1 DEF SettingsInv, SettingsType
  <2>3. Sent \subseteq SettingKeys /\ DOMAIN pPatch \subseteq SettingKeys
    BY <1>7, PatchTypes DEF SettingsInv, SettingsType, Sent
  <2>4. ChoicesOnTheirWay'
    BY <1>1, <1>3, <1>4, <1>7, <2>1, <2>3 DEF SettingsInv, ChoicesOnTheirWay
  <2> QED BY <2>2, <2>4 DEF SettingsInv
<1> QED BY <1>6, <1>7

LEMMA SavePreferencesSafe ==
    ASSUME SettingsInv, Settings!SavePreferences
    PROVE  /\ SettingsInv'
           /\ pStored' # pStored => \E i \in 1..Len(pHistory') :
                 pHistory'[i].restorable /\ pHistory'[i].before = pStored
<1> DEFINE merged == Settings!Merge(pStored, pFlight.patch)
           previous == [restorable |-> TRUE, before |-> pStored]
<1>1. /\ pFlight.stage = "sent" /\ pFlight.patch \in Patches /\ pStored \in Preferences
      /\ pFlight' = [stage |-> "saved", patch |-> pFlight.patch, answer |-> merged]
      /\ pStored' = merged /\ UNCHANGED <<pPatch, pEdits, pWanted, pRefused>>
      /\ (UNCHANGED pHistory /\ UNCHANGED pStored) \/ pHistory' = Settings!Record(previous)
  BY DEF Settings!SavePreferences, SettingsInv, SettingsType, Settings!Nothing
<1>2. /\ merged \in Preferences
      /\ \A k \in DOMAIN pFlight.patch : merged[k] = pFlight.patch[k]
      /\ \A k \in SettingKeys \ DOMAIN pFlight.patch : merged[k] = pStored[k]
  <2>1. pStored \in Patches /\ DOMAIN pStored = SettingKeys
    BY <1>1, PatchTypes DEF Preferences
  <2> QED BY <1>1, <2>1, Merged
<1>3. previous \in RevisionSet
  BY <1>1 DEF RevisionSet
<1> HIDE DEF merged
<1>4. SettingsType'
  BY <1>1, <1>2, <1>3, Recorded DEF SettingsInv, SettingsType, Settings!Nothing
<1>5. ChoicesOnTheirWay'
  BY <1>1, <1>2 DEF SettingsInv, ChoicesOnTheirWay, Sent, RefusedLast, Settings!Nothing
<1>6. ASSUME pStored' # pStored
      PROVE  \E i \in 1..Len(pHistory') : pHistory'[i].restorable /\ pHistory'[i].before = pStored
  BY <1>1, <1>3, <1>6, Recorded
<1> QED BY <1>4, <1>5, <1>6 DEF SettingsInv

LEMMA AnswerSafe ==
    ASSUME SettingsInv, Settings!RefusePatch \/ Settings!PatchAnswered
    PROVE  SettingsInv' /\ UNCHANGED pStored
<1>1. CASE Settings!RefusePatch
  <2>1. /\ pFlight.stage = "sent" /\ pFlight.patch \in Patches
        /\ pFlight'.stage = "refused" /\ pFlight'.patch = pFlight.patch
        /\ UNCHANGED <<pStored, pHistory, pPatch, pEdits, pWanted, pRefused>>
    <3>1. pFlight.stage = "sent" /\ pFlight.patch \in Patches /\ pFlight' = [pFlight EXCEPT !.stage = "refused"]
      BY <1>1 DEF Settings!RefusePatch, SettingsInv, SettingsType, Settings!Nothing
    <3> QED BY <1>1, <3>1 DEF Settings!RefusePatch, SettingsInv, SettingsType, Settings!Nothing
  <2>2. SettingsType'
    BY <2>1 DEF SettingsInv, SettingsType, Settings!Nothing
  <2> QED BY <2>1, <2>2 DEF SettingsInv, ChoicesOnTheirWay, Sent, RefusedLast, Settings!Nothing
<1>2. CASE Settings!PatchAnswered
  <2>1. /\ pFlight.stage \in {"saved", "refused"} /\ Sent = {}
        /\ pRefused' = pRefused \cup (RefusedLast \ DOMAIN pPatch)
        /\ pFlight' = IF pPatch = Settings!NoPatch THEN Settings!Nothing
                      ELSE [stage |-> "sent", patch |-> pPatch]
        /\ pPatch' = Settings!NoPatch
        /\ UNCHANGED <<pStored, pHistory, pEdits, pWanted>>
    BY <1>2 DEF Settings!PatchAnswered, Settings!FlushPreferencePatch, Sent, RefusedLast
  <2>2. SettingsType'
    BY <2>1, PatchTypes DEF SettingsInv, SettingsType, Settings!Nothing
  <2>3. Sent' = DOMAIN pPatch /\ RefusedLast' = {} /\ DOMAIN pPatch' = {}
    BY <2>1, PatchTypes DEF Sent, RefusedLast, Settings!Nothing
  <2>4. \A k \in Sent' : pFlight'.patch = pPatch
    BY <2>1, <2>3, PatchTypes
  <2> QED BY <2>1, <2>2, <2>3, <2>4 DEF SettingsInv, ChoicesOnTheirWay
<1> QED BY <1>1, <1>2

LEMMA RestoreSafe ==
    ASSUME SettingsInv, NEW i \in 1..Len(pHistory), Settings!RestoreHistory(i)
    PROVE  /\ SettingsInv'
           /\ pStored' # pStored => \E j \in 1..Len(pHistory') :
                 pHistory'[j].restorable /\ pHistory'[j].before = pStored
<1> DEFINE previous == [restorable |-> TRUE, before |-> pStored]
           pending == DOMAIN pPatch \cup Sent
<1>1. UNCHANGED <<pPatch, pFlight, pEdits, pRefused>> /\ Sent' = Sent /\ RefusedLast' = RefusedLast
  BY DEF Settings!RestoreHistory, Sent, RefusedLast
<1>2. CASE ~pHistory[i].restorable
  <2>1. UNCHANGED <<pStored, pHistory, pWanted>>
    BY <1>2 DEF Settings!RestoreHistory
  <2> QED BY <1>1, <2>1 DEF SettingsInv, SettingsType, ChoicesOnTheirWay
<1>3. CASE pHistory[i].restorable
  <2>1. /\ pStored' = pHistory[i].before /\ pHistory' = Settings!Record(previous)
        /\ pWanted' = [k \in SettingKeys |-> IF k \in pending THEN pWanted[k] ELSE pHistory[i].before[k]]
    BY <1>3 DEF Settings!RestoreHistory, Sent
  <2>2. pHistory[i].before \in Preferences /\ pStored \in Preferences
    <3>1. pHistory[i] \in RevisionSet /\ pStored \in Preferences
      BY DEF SettingsInv, SettingsType
    <3> QED BY <1>3, <3>1 DEF RevisionSet
  <2>3. previous \in RevisionSet
    BY <2>2 DEF RevisionSet
  <2>4. SettingsType'
    <3>1. pWanted' \in Preferences
      BY <2>1, <2>2 DEF SettingsInv, SettingsType, Preferences
    <3> QED BY <1>1, <2>1, <2>2, <2>3, <3>1, Recorded DEF SettingsInv, SettingsType
  <2>5. pending \subseteq SettingKeys
    BY PatchTypes DEF SettingsInv, SettingsType, Sent, Settings!Nothing
  <2>6. ChoicesOnTheirWay'
    BY <1>1, <2>1, <2>5 DEF SettingsInv, ChoicesOnTheirWay
  <2>7. 1 \in 1..Len(pHistory') /\ pHistory'[1] = previous
    BY <2>1, <2>3, Recorded
  <2>8. pHistory'[1].restorable /\ pHistory'[1].before = pStored
    BY <2>7
  <2> QED BY <2>4, <2>6, <2>7, <2>8 DEF SettingsInv
<1> QED BY <1>2, <1>3

LEMMA SettingsStep ==
    ASSUME SettingsInv, Settings!SettingsNext
    PROVE  /\ SettingsInv'
           /\ pStored' # pStored => \E i \in 1..Len(pHistory') :
                 pHistory'[i].restorable /\ pHistory'[i].before = pStored
<1>1. CASE Settings!RefreshMetadata \/ Settings!BootstrapReads \/ Settings!BootstrapAnswered
  BY <1>1 DEF Settings!RefreshMetadata, Settings!BootstrapReads, Settings!BootstrapAnswered,
     SettingsInv, SettingsType, ChoicesOnTheirWay, Sent, RefusedLast
<1>2. CASE Settings!RecordOther
  <2>1. [restorable |-> FALSE] \in RevisionSet
    BY DEF RevisionSet
  <2> QED BY <1>2, <2>1, Recorded DEF Settings!RecordOther, SettingsInv, SettingsType,
          ChoicesOnTheirWay, Sent, RefusedLast
<1>3. ASSUME NEW k \in SettingKeys, Settings!SavePreferencesPatch(k)
      PROVE  UNCHANGED pStored
  BY <1>3 DEF Settings!SavePreferencesPatch
<1> QED BY <1>1, <1>2, <1>3, PatchSafe, SavePreferencesSafe, AnswerSafe, RestoreSafe
        DEF Settings!SettingsNext

(* Every setting chosen is stored once the patches are flushed, unless it   *)
(* was refused or restored over, and what a change of preferences replaces  *)
(* stays restorable (savePreferences, restoreHistory in app-service.ts,     *)
(* flushPreferencePatch in main.ts).                                        *)
THEOREM SettingsAreKept == EditorsSpec => SettingsKept
<1>1. EditorsInit => SettingsInv
  BY SettingsStart DEF EditorsInit
<1>2. SettingsInv /\ UNCHANGED settingsVars => SettingsInv'
  BY DEF settingsVars, SettingsInv, SettingsType, ChoicesOnTheirWay, Sent, RefusedLast
<1>3. SettingsInv /\ [EditorsNext]_editorVars => SettingsInv'
  BY <1>2, SettingsStep DEF EditorsNext, editorVars
<1>4. SettingsInv /\ [EditorsNext]_editorVars
      => [pStored' # pStored => \E i \in 1..Len(pHistory') :
              pHistory'[i].restorable /\ pHistory'[i].before = pStored]_(Settings!settingsVars)
  BY SettingsStep DEF EditorsNext, editorVars, settingsVars, Settings!settingsVars
<1>5. SettingsInv => Settings!ChoicesStored
  BY PatchTypes DEF SettingsInv, ChoicesOnTheirWay, Settings!ChoicesStored, Sent, RefusedLast, Settings!Nothing
<1> QED BY <1>1, <1>3, <1>4, <1>5, PTL DEF EditorsSpec, SettingsKept, Settings!PreviousRestorable

-----------------------------------------------------------------------------
(***************************************************************************)
(* The tab strip.                                                          *)
(***************************************************************************)
StripFields == {"order", "pinned", "closed"}
WholeStrip(order) == DOMAIN order = DOMAIN Pages /\ Tabs!PageSet \subseteq Tabs!ToSet(order)
Discloses(confirm, pinned) ==
    confirm # Tabs!None =>
        confirm.ids \cap pinned \subseteq (IF confirm.include THEN confirm.pinned ELSE {})
(* Every tab has its place, what is stored is what is on screen but for    *)
(* closed tabs that are pinned, and an open dialog lists the pinned tabs   *)
(* it will close, if it will close any.                                    *)
TabsInv ==
    /\ DOMAIN tPrefs = StripFields /\ DOMAIN tStored = StripFields
    /\ WholeStrip(tPrefs.order)
    /\ tStored.order = tPrefs.order /\ tStored.pinned = tPrefs.pinned
    /\ tPrefs.closed \subseteq tStored.closed
    /\ Discloses(tConfirm, tPrefs.pinned)
    /\ Tabs!PinnedProtected /\ Tabs!ActiveShown

LEMMA LeastNumber ==
    ASSUME NEW T, T \subseteq Nat, T # {}
    PROVE  \E x \in T : \A y \in T : x <= y
<1> DEFINE R == OpToRel(<, Nat)
<1>1. IsWellFoundedOn(R, Nat)
    BY NatLessThanWellFounded
<1> HIDE DEF R
<1>2. PICK x \in T : \A y \in T : ~(<<y, x>> \in R)
    BY <1>1, WFMin
<1>3. \A y \in T : ~(y < x)
    BY <1>2 DEF R, OpToRel
<1> QED BY <1>3

(* Rendering the strip finds a tab of it, or the first page.               *)
LEMMA StripRendered ==
    ASSUME NEW prefs, DOMAIN prefs.order = DOMAIN Pages, NEW active,
           NEW shown, shown = Tabs!RenderTabStrip(prefs, active)
    PROVE  \/ shown \in Tabs!Visible(prefs)
           \/ Tabs!Visible(prefs) = {} /\ shown = Pages[1]
<1>1. CASE active \in Tabs!Visible(prefs)
    BY <1>1 DEF Tabs!RenderTabStrip
<1>2. CASE Tabs!Visible(prefs) = {}
    BY <1>2 DEF Tabs!RenderTabStrip, Tabs!FirstVisible
<1>3. CASE active \notin Tabs!Visible(prefs) /\ Tabs!Visible(prefs) # {}
  <2>1. PICK T : T = {i \in DOMAIN prefs.order : prefs.order[i] \notin prefs.closed}
      OBVIOUS
  <2>2. T \subseteq Nat /\ T # {}
      BY <1>3, <2>1, TabsAssumption DEF Tabs!Visible, Tabs!ToSet
  <2>3. PICK i \in T : \A j \in T : i <= j
      BY <2>2, LeastNumber
  <2>4. \E k \in DOMAIN prefs.order :
            /\ prefs.order[k] \notin prefs.closed
            /\ \A j \in DOMAIN prefs.order : prefs.order[j] \notin prefs.closed => k <= j
      BY <2>1, <2>3
  <2>5. PICK k : k = CHOOSE m \in DOMAIN prefs.order :
            /\ prefs.order[m] \notin prefs.closed
            /\ \A j \in DOMAIN prefs.order : prefs.order[j] \notin prefs.closed => m <= j
      OBVIOUS
  <2>6. k \in DOMAIN prefs.order /\ prefs.order[k] \notin prefs.closed
      BY <2>4, <2>5
  <2>7. shown = prefs.order[k]
      BY <1>3, <2>5 DEF Tabs!RenderTabStrip, Tabs!FirstVisible
  <2> QED BY <2>6, <2>7 DEF Tabs!Visible, Tabs!ToSet
<1> QED BY <1>1, <1>2, <1>3

(* A change that is persisted and drawn.                                   *)
LEMMA StripPersisted ==
    ASSUME TabsInv, NEW prefs, NEW active, Tabs!PersistTabs(prefs, active),
           DOMAIN prefs = StripFields, WholeStrip(prefs.order),
           prefs.pinned \cap prefs.closed \subseteq tWaived', Discloses(tConfirm', prefs.pinned)
    PROVE  TabsInv'
<1>1. tPrefs' = prefs /\ tStored' = prefs
    BY DEF Tabs!PersistTabs
<1>2. \/ tActive' \in Tabs!Visible(prefs)
      \/ Tabs!Visible(prefs) = {} /\ tActive' = Pages[1]
    BY StripRendered DEF Tabs!PersistTabs, WholeStrip
<1>3. Tabs!ActiveShown'
    BY <1>1, <1>2 DEF Tabs!ActiveShown, Tabs!Visible
<1>4. Tabs!PinnedProtected'
    BY <1>1 DEF Tabs!PinnedProtected
<1> QED BY <1>1, <1>3, <1>4 DEF TabsInv

LEMMA TabsStart == Tabs!TabsInit => TabsInv
<1> SUFFICES ASSUME Tabs!TabsInit PROVE TabsInv
    OBVIOUS
<1>1. /\ tPrefs = Tabs!DefaultTabs /\ tStored = Tabs!DefaultTabs /\ tConfirm = Tabs!None
      /\ tActive = Pages[1]
    BY DEF Tabs!TabsInit
<1>2. DOMAIN tPrefs = StripFields /\ tPrefs.order = Pages /\ tPrefs.closed = {}
    BY <1>1 DEF Tabs!DefaultTabs, StripFields
<1>3. WholeStrip(tPrefs.order)
    BY <1>2 DEF WholeStrip, Tabs!PageSet
<1>4. Tabs!ActiveShown
    BY <1>1, <1>2, TabsAssumption DEF Tabs!ActiveShown, Tabs!Visible, Tabs!ToSet
<1> QED BY <1>1, <1>2, <1>3, <1>4 DEF TabsInv, Discloses, Tabs!PinnedProtected

(* A tab that is moved changes places with those between.                  *)
LEMMA StripMoved ==
    ASSUME NEW order, WholeStrip(order), NEW from \in DOMAIN order, NEW to \in DOMAIN order,
           NEW moved, moved = Tabs!Moved(order, from, to)
    PROVE  WholeStrip(moved)
<1>1. DOMAIN moved = DOMAIN order /\ DOMAIN order = 1..Len(Pages) /\ Len(Pages) \in Nat
    BY TabsAssumption DEF Tabs!Moved, WholeStrip
<1>2. \A k \in DOMAIN order :
        /\ k = to => moved[k] = order[from]
        /\ from <= k /\ k < to => moved[k] = order[k + 1]
        /\ to < k /\ k <= from => moved[k] = order[k - 1]
        /\ k # to /\ ~(from <= k /\ k < to) /\ ~(to < k /\ k <= from) => moved[k] = order[k]
    BY <1>1 DEF Tabs!Moved
<1>3. ASSUME NEW i \in DOMAIN order PROVE \E k \in DOMAIN order : moved[k] = order[i]
  <2>1. CASE i = from
      BY <1>2, <2>1
  <2>2. CASE from < i /\ i <= to
    <3>1. i - 1 \in DOMAIN order /\ from <= i - 1 /\ i - 1 < to /\ (i - 1) + 1 = i
        BY <1>1, <2>2
    <3> QED BY <1>2, <3>1
  <2>3. CASE to <= i /\ i < from
    <3>1. i + 1 \in DOMAIN order /\ to < i + 1 /\ i + 1 <= from /\ (i + 1) - 1 = i
        BY <1>1, <2>3
    <3> QED BY <1>2, <3>1
  <2>4. CASE i # from /\ ~(from < i /\ i <= to) /\ ~(to <= i /\ i < from)
    <3>1. i # to /\ ~(from <= i /\ i < to) /\ ~(to < i /\ i <= from)
        BY <1>1, <2>4
    <3> QED BY <1>2, <3>1
  <2> QED BY <2>1, <2>2, <2>3, <2>4
<1>4. Tabs!ToSet(order) \subseteq Tabs!ToSet(moved)
    BY <1>1, <1>3 DEF Tabs!ToSet
<1> QED BY <1>1, <1>4 DEF WholeStrip

LEMMA TabsChanged ==
    ASSUME TabsInv,
           \/ \E id \in Tabs!PageSet : Tabs!ActivateTab(id) \/ Tabs!CloseTab(id)
           \/ \E step \in {"left", "right", "home", "end"} : Tabs!ArrowKey(step)
           \/ Tabs!TogglePin \/ Tabs!DropTab \/ \E offset \in {-1, 1} : Tabs!MoveTabBy(offset)
           \/ Tabs!ConfirmBulkClose
    PROVE  TabsInv'
<1>1. /\ DOMAIN tPrefs = StripFields /\ WholeStrip(tPrefs.order)
      /\ tPrefs.pinned \cap tPrefs.closed \subseteq tWaived /\ Discloses(tConfirm, tPrefs.pinned)
    BY DEF TabsInv, Tabs!PinnedProtected
<1>2. Discloses(Tabs!None, tPrefs.pinned) /\ \A p : Discloses(Tabs!None, p)
    BY DEF Discloses
<1>3. ASSUME NEW id, Tabs!ActivateTab(id) PROVE TabsInv'
  <2>1. PICK prefs : prefs = [tPrefs EXCEPT !.closed = @ \ {id}]
      OBVIOUS
  <2>2. /\ DOMAIN prefs = StripFields /\ prefs.order = tPrefs.order /\ prefs.pinned = tPrefs.pinned
        /\ prefs.closed = tPrefs.closed \ {id}
      BY <1>1, <2>1 DEF StripFields
  <2>3. Tabs!PersistTabs(prefs, id) /\ tWaived' = tWaived \ {id} /\ tConfirm' = tConfirm
      BY <1>3, <2>1 DEF Tabs!ActivateTab
  <2>4. prefs.pinned \cap prefs.closed \subseteq tWaived' /\ Discloses(tConfirm', prefs.pinned)
      BY <1>1, <2>2, <2>3
  <2> QED BY <1>1, <2>2, <2>3, <2>4, StripPersisted
<1>4. ASSUME NEW id, Tabs!CloseTab(id) PROVE TabsInv'
  <2>1. PICK prefs : prefs = [tPrefs EXCEPT !.closed = @ \cup {id}]
      OBVIOUS
  <2>2. /\ DOMAIN prefs = StripFields /\ prefs.order = tPrefs.order /\ prefs.pinned = tPrefs.pinned
        /\ prefs.closed = tPrefs.closed \cup {id}
      BY <1>1, <2>1 DEF StripFields
  <2>3. /\ \E active : Tabs!PersistTabs(prefs, active)
        /\ tWaived' = tWaived /\ tConfirm' = tConfirm /\ id \notin tPrefs.pinned
      BY <1>4, <2>1 DEF Tabs!CloseTab
  <2>4. prefs.pinned \cap prefs.closed \subseteq tWaived' /\ Discloses(tConfirm', prefs.pinned)
      BY <1>1, <2>2, <2>3
  <2> QED BY <1>1, <2>2, <2>3, <2>4, StripPersisted
<1>5. ASSUME NEW step, Tabs!ArrowKey(step) PROVE TabsInv'
  <2>1. /\ \E active : Tabs!PersistTabs(tPrefs, active)
        /\ tWaived' = tWaived /\ tConfirm' = tConfirm
      BY <1>5 DEF Tabs!ArrowKey
  <2>2. tPrefs.pinned \cap tPrefs.closed \subseteq tWaived' /\ Discloses(tConfirm', tPrefs.pinned)
      BY <1>1, <2>1
  <2> QED BY <1>1, <2>1, <2>2, StripPersisted
<1>6. CASE Tabs!TogglePin
  <2>1. PICK prefs : prefs = [tPrefs EXCEPT !.pinned = IF tMenu \notin tPrefs.pinned THEN @ \cup {tMenu} ELSE @ \ {tMenu}]
      OBVIOUS
  <2>2. /\ DOMAIN prefs = StripFields /\ prefs.order = tPrefs.order /\ prefs.closed = tPrefs.closed
        /\ prefs.pinned = IF tMenu \notin tPrefs.pinned THEN tPrefs.pinned \cup {tMenu} ELSE tPrefs.pinned \ {tMenu}
      BY <1>1, <2>1 DEF StripFields
  <2>3. /\ Tabs!PersistTabs(prefs, tActive) /\ tConfirm' = Tabs!None
        /\ tWaived' = IF tMenu \notin tPrefs.pinned /\ tMenu \in tPrefs.closed
                      THEN tWaived \cup {tMenu} ELSE tWaived \ {tMenu}
      BY <1>6, <2>1 DEF Tabs!TogglePin, Tabs!UserActs
  <2>4. prefs.pinned \cap prefs.closed \subseteq tWaived'
      BY <1>1, <2>2, <2>3
  <2> QED BY <1>1, <1>2, <2>2, <2>3, <2>4, StripPersisted
<1>7. CASE Tabs!DropTab \/ \E offset \in {-1, 1} : Tabs!MoveTabBy(offset)
  <2>1. PICK from \in DOMAIN tPrefs.order, to \in DOMAIN tPrefs.order :
            Tabs!PersistTabs([tPrefs EXCEPT !.order = Tabs!Moved(@, from, to)], tActive)
      BY <1>7 DEF Tabs!DropTab, Tabs!MoveTabBy
  <2>2. PICK prefs : prefs = [tPrefs EXCEPT !.order = Tabs!Moved(@, from, to)]
      OBVIOUS
  <2>3. /\ DOMAIN prefs = StripFields /\ prefs.order = Tabs!Moved(tPrefs.order, from, to)
        /\ prefs.pinned = tPrefs.pinned /\ prefs.closed = tPrefs.closed
      BY <1>1, <2>2 DEF StripFields
  <2>4. WholeStrip(prefs.order)
      BY <1>1, <2>3, StripMoved
  <2>5. tWaived' = tWaived /\ tConfirm' = tConfirm
      BY <1>7 DEF Tabs!DropTab, Tabs!MoveTabBy
  <2>6. prefs.pinned \cap prefs.closed \subseteq tWaived' /\ Discloses(tConfirm', prefs.pinned)
      BY <1>1, <2>3, <2>5
  <2> QED BY <2>1, <2>2, <2>3, <2>4, <2>6, StripPersisted
<1>8. CASE Tabs!ConfirmBulkClose
  <2>1. PICK prefs : prefs = [tPrefs EXCEPT !.closed = @ \cup tConfirm.ids]
      OBVIOUS
  <2>2. /\ DOMAIN prefs = StripFields /\ prefs.order = tPrefs.order /\ prefs.pinned = tPrefs.pinned
        /\ prefs.closed = tPrefs.closed \cup tConfirm.ids
      BY <1>1, <2>1 DEF StripFields
  <2>3. /\ Tabs!PersistTabs(prefs, tActive) /\ tConfirm' = Tabs!None /\ tConfirm # Tabs!None
        /\ tWaived' = tWaived \cup (IF tConfirm.include THEN tConfirm.pinned ELSE {})
      BY <1>8, <2>1 DEF Tabs!ConfirmBulkClose
  <2>4. prefs.pinned \cap prefs.closed \subseteq tWaived'
      BY <1>1, <2>2, <2>3 DEF Discloses
  <2> QED BY <1>1, <1>2, <2>2, <2>3, <2>4, StripPersisted
<1> QED BY <1>3, <1>4, <1>5, <1>6, <1>7, <1>8

LEMMA TabsSafe == ASSUME TabsInv, Tabs!TabsNext PROVE TabsInv'
<1>1. CASE \/ \E id \in Tabs!PageSet : Tabs!ActivateTab(id) \/ Tabs!CloseTab(id)
           \/ \E step \in {"left", "right", "home", "end"} : Tabs!ArrowKey(step)
           \/ Tabs!TogglePin \/ Tabs!DropTab \/ \E offset \in {-1, 1} : Tabs!MoveTabBy(offset)
           \/ Tabs!ConfirmBulkClose
    BY <1>1, TabsChanged
<1>2. ASSUME UNCHANGED <<tPrefs, tActive, tStored, tWaived>>, Discloses(tConfirm', tPrefs.pinned)
      PROVE  TabsInv'
    BY <1>2 DEF TabsInv, Tabs!PinnedProtected, Tabs!ActiveShown, Tabs!Visible
<1>3. CASE \/ \E id \in Tabs!PageSet : Tabs!OpenMenu(id)
           \/ Tabs!CloseMenu \/ Tabs!SetIncludePinned
  <2>1. UNCHANGED <<tPrefs, tActive, tStored, tWaived>> /\ tConfirm' = tConfirm
      BY <1>3 DEF Tabs!OpenMenu, Tabs!CloseMenu, Tabs!SetIncludePinned
  <2> QED BY <1>2, <2>1 DEF TabsInv
<1>4. CASE Tabs!RequestBulkClose
  <2>1. PICK pattern, inverse, ids :
            /\ ids = Tabs!EvaluateBulkTabClose(pattern, inverse)
            /\ tConfirm' = [ids |-> ids, include |-> tInclude, pinned |-> ids \cap tPrefs.pinned]
      BY <1>4 DEF Tabs!RequestBulkClose
  <2>2. tInclude \/ ids \cap tPrefs.pinned = {}
      BY <2>1 DEF Tabs!EvaluateBulkTabClose
  <2>3. tConfirm'.ids = ids /\ tConfirm'.include = tInclude /\ tConfirm'.pinned = ids \cap tPrefs.pinned
      BY <2>1
  <2>4. Discloses(tConfirm', tPrefs.pinned)
      BY <2>2, <2>3 DEF Discloses
  <2>5. UNCHANGED <<tPrefs, tActive, tStored, tWaived>>
      BY <1>4 DEF Tabs!RequestBulkClose
  <2> QED BY <1>2, <2>4, <2>5
<1>5. CASE Tabs!CancelBulkClose
  <2>1. UNCHANGED <<tPrefs, tActive, tStored, tWaived>> /\ tConfirm' = Tabs!None
      BY <1>5 DEF Tabs!CancelBulkClose
  <2> QED BY <1>2, <2>1 DEF Discloses
<1>6. CASE Tabs!RestartTabs
  <2>1. PICK prefs : prefs = Tabs!NormalizeTabPreferences(tStored)
      OBVIOUS
  <2>2. /\ tPrefs' = prefs /\ tActive' = Tabs!RenderTabStrip(prefs, Pages[1])
        /\ tConfirm' = Tabs!None /\ tStored' = tStored
      BY <1>6, <2>1 DEF Tabs!RestartTabs
  <2>3. /\ DOMAIN tStored = StripFields /\ WholeStrip(tPrefs.order)
        /\ tStored.order = tPrefs.order /\ tStored.pinned = tPrefs.pinned
      BY DEF TabsInv
  <2>4. /\ DOMAIN prefs = StripFields /\ prefs.order = tStored.order /\ prefs.pinned = tStored.pinned
        /\ prefs.closed = tStored.closed \ tStored.pinned
      BY <2>1, <2>3 DEF Tabs!NormalizeTabPreferences, StripFields, WholeStrip
  <2>5. \/ tActive' \in Tabs!Visible(prefs)
        \/ Tabs!Visible(prefs) = {} /\ tActive' = Pages[1]
      BY <2>2, <2>3, <2>4, StripRendered DEF WholeStrip
  <2>6. Tabs!ActiveShown'
      BY <2>2, <2>5 DEF Tabs!ActiveShown, Tabs!Visible
  <2>7. Tabs!PinnedProtected'
      BY <2>2, <2>4 DEF Tabs!PinnedProtected
  <2> QED BY <2>2, <2>3, <2>4, <2>6, <2>7 DEF TabsInv, Discloses
<1> QED BY <1>1, <1>3, <1>4, <1>5, <1>6 DEF Tabs!TabsNext

LEMMA TabsRest == ASSUME TabsInv, UNCHANGED tabVars PROVE TabsInv'
BY DEF TabsInv, tabVars, Tabs!PinnedProtected, Tabs!ActiveShown, Tabs!Visible

LEMMA StripComesBack == TabsInv => Tabs!RestartKeepsStripButPinned
<1> SUFFICES ASSUME TabsInv PROVE Tabs!RestartKeepsStripButPinned
    OBVIOUS
<1>1. PICK next : next = Tabs!NormalizeTabPreferences(tStored)
    OBVIOUS
<1>2. /\ next.order = tPrefs.order /\ next.pinned = tPrefs.pinned
      /\ next.closed = tStored.closed \ tPrefs.pinned
    BY <1>1 DEF TabsInv, WholeStrip, Tabs!NormalizeTabPreferences
<1>3. tPrefs.closed \ next.closed \subseteq tWaived
    BY <1>2 DEF TabsInv, Tabs!PinnedProtected
<1> QED BY <1>1, <1>2, <1>3 DEF Tabs!RestartKeepsStripButPinned
-----------------------------------------------------------------------------
(***************************************************************************)
(* The appearance of the tabs.                                             *)
(***************************************************************************)
OpenEditors == [kind : {"editor"}, tab : StyledTabs, preset : Nat]
Overrides(styles) == \A t \in DOMAIN styles : styles[t] # {}
IsMap(f) == f = [x \in DOMAIN f |-> f[x]]
Library(presets) ==
    /\ IsMap(presets) /\ DOMAIN presets \subseteq Nat /\ IsFiniteSet(DOMAIN presets)
    /\ Cardinality(DOMAIN presets) <= PresetLimit /\ Overrides(presets)
(* Every entry overrides something, the library holds at most its limit,   *)
(* and what is stored is what is on screen.                                *)
AppearanceInv ==
    /\ IsMap(aStyles) /\ Overrides(aStyles) /\ Library(aPresets)
    /\ DOMAIN aStored = {"styles", "presets"}
    /\ aStored.styles = aStyles /\ aStored.presets = aPresets
    /\ aEditor = Appearance!None \/ aEditor \in OpenEditors
    /\ Appearance!SelectionExists
    /\ aConfirm.kind = "import" =>
          /\ IsMap(aConfirm.styles) /\ Overrides(aConfirm.styles) /\ Library(aConfirm.presets)
    /\ aNextId \in Nat

LEMMA SameCount == \A S : Appearance!Cardinality(S) = Cardinality(S)
BY Zenon DEF Appearance!Cardinality, Cardinality

(* What a start reads of it is all of it.                                  *)
LEMMA LibraryRead ==
    ASSUME NEW presets, Library(presets) PROVE Appearance!NormalizeLibrary(presets) = presets
<1>1. ASSUME NEW p \in DOMAIN presets
      PROVE  Cardinality({q \in DOMAIN presets : q < p}) < PresetLimit
  <2>1. PICK Q : Q = {q \in DOMAIN presets : q < p}
      OBVIOUS
  <2>2. Q \subseteq DOMAIN presets /\ Q # DOMAIN presets
      BY <1>1, <2>1 DEF Library
  <2>3. /\ IsFiniteSet(Q) /\ Cardinality(Q) <= Cardinality(DOMAIN presets)
        /\ Cardinality(Q) # Cardinality(DOMAIN presets)
      BY <2>2, FS_Subset DEF Library
  <2>4. Cardinality(Q) \in Nat /\ Cardinality(DOMAIN presets) \in Nat
      BY <2>3, FS_CardinalityType DEF Library
  <2> QED BY <2>1, <2>3, <2>4, TabsAssumption DEF Library
<1>2. {p \in DOMAIN presets : Appearance!Cardinality({q \in DOMAIN presets : q < p}) < PresetLimit}
          = DOMAIN presets
    BY <1>1, SameCount
<1> QED BY <1>2 DEF Appearance!NormalizeLibrary, Appearance!Restrict, Library, IsMap
LEMMA StylesRead ==
    ASSUME NEW styles, IsMap(styles), Overrides(styles) PROVE Appearance!NormalizeStyles(styles) = styles
<1>1. {t \in DOMAIN styles : styles[t] # {}} = DOMAIN styles
    BY DEF Overrides
<1> QED BY <1>1 DEF Appearance!NormalizeStyles, Appearance!Restrict, IsMap

LEMMA MapPut ==
    ASSUME NEW f, NEW x, NEW v, v # {}, Overrides(f), NEW g, g = Appearance!Put(f, x, v)
    PROVE  IsMap(g) /\ Overrides(g) /\ DOMAIN g = DOMAIN f \cup {x}
BY DEF Appearance!Put, IsMap, Overrides
LEMMA MapWithout ==
    ASSUME NEW f, NEW x, Overrides(f), NEW g, g = Appearance!Without(f, x)
    PROVE  IsMap(g) /\ Overrides(g) /\ DOMAIN g = DOMAIN f \ {x}
BY DEF Appearance!Without, Appearance!Restrict, IsMap, Overrides
LEMMA MapEmpty ==
    /\ IsMap(Appearance!EmptyMap) /\ Overrides(Appearance!EmptyMap) /\ DOMAIN Appearance!EmptyMap = {}
    /\ Library(Appearance!EmptyMap)
<1>1. /\ IsMap(Appearance!EmptyMap) /\ Overrides(Appearance!EmptyMap) /\ DOMAIN Appearance!EmptyMap = {}
    BY DEF Appearance!EmptyMap, IsMap, Overrides
<1>2. IsFiniteSet({}) /\ Cardinality({}) = 0
    BY FS_EmptySet
<1> QED BY <1>1, <1>2, TabsAssumption DEF Library

(* Only the styles change, and are stored.                                 *)
LEMMA StylesPersisted ==
    ASSUME AppearanceInv, NEW styles, IsMap(styles), Overrides(styles), Appearance!PersistTabs(styles),
           UNCHANGED <<aPresets, aEditor, aConfirm, aNextId>>
    PROVE  AppearanceInv'
<1>1. /\ aStyles' = styles /\ DOMAIN aStored' = {"styles", "presets"}
      /\ aStored'.styles = styles /\ aStored'.presets = aPresets
    BY DEF AppearanceInv, Appearance!PersistTabs
<1> QED BY <1>1 DEF AppearanceInv, Appearance!SelectionExists

LEMMA StylesEdited ==
    ASSUME AppearanceInv,
           \/ \E k \in StyleKeys : Appearance!SetTabStyleProperty(k) \/ Appearance!ResetProperty(k)
           \/ Appearance!ResetTabAppearance \/ Appearance!ApplyPreset
    PROVE  AppearanceInv'
<1>1. IsMap(aStyles) /\ Overrides(aStyles) /\ Library(aPresets)
    BY DEF AppearanceInv
<1>2. ASSUME NEW k \in StyleKeys, Appearance!SetTabStyleProperty(k) PROVE AppearanceInv'
  <2>1. PICK v, styles :
            /\ v = {k} \cup (IF Appearance!TabEdited \in DOMAIN aStyles THEN aStyles[Appearance!TabEdited] ELSE {})
            /\ styles = Appearance!Put(aStyles, Appearance!TabEdited, v)
      OBVIOUS
  <2>2. IsMap(styles) /\ Overrides(styles)
      BY <1>1, <2>1, MapPut
  <2>3. Appearance!PersistTabs(styles) /\ UNCHANGED <<aPresets, aEditor, aConfirm, aNextId>>
      BY <1>2, <2>1 DEF Appearance!SetTabStyleProperty
  <2> QED BY <2>2, <2>3, StylesPersisted
<1>3. ASSUME NEW k \in StyleKeys, Appearance!ResetProperty(k) PROVE AppearanceInv'
  <2>1. PICK t, styles : t = Appearance!TabEdited /\ styles = Appearance!ResetTabStyleProperty(t, k)
      OBVIOUS
  <2>2. IsMap(styles) /\ Overrides(styles)
    <3>1. CASE aStyles[t] \ {k} = {}
        BY <1>1, <2>1, <3>1, MapWithout DEF Appearance!ResetTabStyleProperty
    <3>2. CASE aStyles[t] \ {k} # {}
        BY <1>1, <2>1, <3>2, MapPut DEF Appearance!ResetTabStyleProperty
    <3> QED BY <3>1, <3>2
  <2>3. Appearance!PersistTabs(styles) /\ UNCHANGED <<aPresets, aEditor, aConfirm, aNextId>>
      BY <1>3, <2>1 DEF Appearance!ResetProperty
  <2> QED BY <2>2, <2>3, StylesPersisted
<1>4. CASE Appearance!ResetTabAppearance
  <2>1. PICK styles : styles = Appearance!Without(aStyles, Appearance!TabEdited)
      OBVIOUS
  <2>2. IsMap(styles) /\ Overrides(styles)
      BY <1>1, <2>1, MapWithout
  <2>3. Appearance!PersistTabs(styles) /\ UNCHANGED <<aPresets, aEditor, aConfirm, aNextId>>
      BY <1>4, <2>1 DEF Appearance!ResetTabAppearance
  <2> QED BY <2>2, <2>3, StylesPersisted
<1>5. CASE Appearance!ApplyPreset
  <2>1. PICK v, styles :
            /\ v = IF aEditor.preset = Appearance!BuiltIn THEN StyleKeys ELSE aPresets[aEditor.preset]
            /\ styles = Appearance!Put(aStyles, Appearance!TabEdited, v)
      OBVIOUS
  <2>2. v # {}
      BY <1>1, <1>5, <2>1, TabsAssumption DEF Appearance!ApplyPreset, Library, Overrides
  <2>3. IsMap(styles) /\ Overrides(styles)
      BY <1>1, <2>1, <2>2, MapPut
  <2>4. Appearance!PersistTabs(styles) /\ UNCHANGED <<aPresets, aEditor, aConfirm, aNextId>>
      BY <1>5, <2>1 DEF Appearance!ApplyPreset
  <2> QED BY <2>3, <2>4, StylesPersisted
<1> QED BY <1>2, <1>3, <1>4, <1>5

(* Only the editor and the dialog change, and the library when it is       *)
(* stored.                                                                 *)
LEMMA LibraryPersisted ==
    ASSUME AppearanceInv, NEW presets, Library(presets), Appearance!PersistAppearancePresets(presets),
           UNCHANGED aStyles, aNextId' \in Nat,
           aEditor' = Appearance!None \/ aEditor' \in OpenEditors,
           aEditor' # Appearance!None => aEditor'.preset \in {Appearance!BuiltIn} \cup DOMAIN presets,
           aConfirm' = aConfirm \/ aConfirm' = Appearance!None
    PROVE  AppearanceInv'
<1>1. /\ aPresets' = presets /\ DOMAIN aStored' = {"styles", "presets"}
      /\ aStored'.styles = aStyles /\ aStored'.presets = presets
    BY DEF AppearanceInv, Appearance!PersistAppearancePresets
<1>2. Appearance!SelectionExists'
    BY <1>1 DEF Appearance!SelectionExists
<1>3. aConfirm'.kind = "import" => aConfirm' = aConfirm
    BY DEF Appearance!None
<1> QED BY <1>1, <1>2, <1>3 DEF AppearanceInv

LEMMA EditorKept ==
    ASSUME AppearanceInv, NEW presets, NEW editor, editor = Appearance!SelectionAfter(presets)
    PROVE  /\ editor = Appearance!None \/ editor \in OpenEditors
           /\ editor # Appearance!None => editor.preset \in {Appearance!BuiltIn} \cup DOMAIN presets
<1>1. aEditor = Appearance!None \/ aEditor \in OpenEditors
    BY DEF AppearanceInv
<1>2. CASE aEditor # Appearance!None /\ aEditor.preset \notin {Appearance!BuiltIn} \cup DOMAIN presets
  <2>1. editor = [aEditor EXCEPT !.preset = Appearance!BuiltIn] /\ aEditor \in OpenEditors
      BY <1>1, <1>2 DEF Appearance!SelectionAfter
  <2>2. editor \in OpenEditors /\ editor.preset = Appearance!BuiltIn
      BY <2>1 DEF OpenEditors, Appearance!BuiltIn
  <2> QED BY <2>2
<1>3. CASE ~(aEditor # Appearance!None /\ aEditor.preset \notin {Appearance!BuiltIn} \cup DOMAIN presets)
    BY <1>1, <1>3 DEF Appearance!SelectionAfter
<1> QED BY <1>2, <1>3

LEMMA LibraryEdited ==
    ASSUME AppearanceInv, Appearance!SavePreset \/ Appearance!ConfirmDelete \/ Appearance!ConfirmClear
    PROVE  AppearanceInv'
<1>1. /\ Library(aPresets) /\ aNextId \in Nat
      /\ aEditor = Appearance!None \/ aEditor \in OpenEditors
    BY DEF AppearanceInv
<1>2. CASE Appearance!SavePreset
  <2>1. PICK presets : presets = Appearance!Put(aPresets, aNextId, StyleKeys)
      OBVIOUS
  <2>2. IsMap(presets) /\ Overrides(presets) /\ DOMAIN presets = DOMAIN aPresets \cup {aNextId}
      BY <1>1, <2>1, TabsAssumption, MapPut DEF Library
  <2>3. Library(presets)
    <3>1. Cardinality(DOMAIN aPresets) \in Nat /\ Cardinality(DOMAIN aPresets) < PresetLimit
        BY <1>1, <1>2, SameCount, FS_CardinalityType, TabsAssumption
           DEF Appearance!SavePreset, Appearance!LibraryFull, Library
    <3>2. /\ IsFiniteSet(DOMAIN aPresets \cup {aNextId})
          /\ Cardinality(DOMAIN aPresets \cup {aNextId}) <= Cardinality(DOMAIN aPresets) + 1
        BY <1>1, <3>1, FS_AddElement DEF Library
    <3>3. Cardinality(DOMAIN aPresets \cup {aNextId}) \in Nat
        BY <3>2, FS_CardinalityType
    <3>4. Cardinality(DOMAIN aPresets \cup {aNextId}) <= PresetLimit
        BY <3>1, <3>2, <3>3, TabsAssumption
    <3> QED BY <1>1, <2>2, <3>2, <3>4 DEF Library
  <2>4. aEditor \in OpenEditors /\ aEditor' = [aEditor EXCEPT !.preset = aNextId]
      BY <1>1, <1>2 DEF Appearance!SavePreset, Appearance!Editing
  <2>5. aEditor' \in OpenEditors /\ aEditor'.preset = aNextId
      BY <1>1, <2>4 DEF OpenEditors
  <2>6. /\ Appearance!PersistAppearancePresets(presets) /\ UNCHANGED <<aStyles, aConfirm>>
        /\ aNextId' = aNextId + 1
      BY <1>2, <2>1 DEF Appearance!SavePreset
  <2> QED BY <1>1, <2>2, <2>3, <2>5, <2>6, LibraryPersisted
<1>3. CASE Appearance!ConfirmDelete
  <2>1. PICK presets : presets = Appearance!Without(aPresets, aConfirm.preset)
      OBVIOUS
  <2>2. IsMap(presets) /\ Overrides(presets) /\ DOMAIN presets = DOMAIN aPresets \ {aConfirm.preset}
      BY <1>1, <2>1, MapWithout DEF Library
  <2>3. Library(presets)
    <3>1. /\ IsFiniteSet(DOMAIN presets) /\ Cardinality(DOMAIN presets) <= Cardinality(DOMAIN aPresets)
        BY <1>1, <2>2, FS_Subset DEF Library
    <3>2. Cardinality(DOMAIN presets) \in Nat /\ Cardinality(DOMAIN aPresets) \in Nat
        BY <1>1, <3>1, FS_CardinalityType DEF Library
    <3> QED BY <1>1, <2>2, <3>1, <3>2, TabsAssumption DEF Library
  <2>4. /\ Appearance!PersistAppearancePresets(presets) /\ UNCHANGED <<aStyles, aNextId>>
        /\ aEditor' = Appearance!SelectionAfter(presets) /\ aConfirm' = Appearance!None
      BY <1>3, <2>1 DEF Appearance!ConfirmDelete
  <2> QED BY <1>1, <2>3, <2>4, EditorKept, LibraryPersisted
<1>4. CASE Appearance!ConfirmClear
  <2>1. PICK presets : presets = Appearance!EmptyMap
      OBVIOUS
  <2>2. /\ Appearance!PersistAppearancePresets(presets) /\ UNCHANGED <<aStyles, aNextId>>
        /\ aEditor' = Appearance!SelectionAfter(presets) /\ aConfirm' = Appearance!None
      BY <1>4, <2>1 DEF Appearance!ConfirmClear
  <2> QED BY <1>1, <2>1, <2>2, MapEmpty, EditorKept, LibraryPersisted
<1> QED BY <1>2, <1>3, <1>4

(* Nothing that is stored changes.                                         *)
LEMMA OnlyEditor ==
    ASSUME AppearanceInv, UNCHANGED <<aStyles, aPresets, aStored>>, aNextId' \in Nat,
           aEditor' = Appearance!None \/ aEditor' \in OpenEditors,
           aEditor' # Appearance!None => aEditor'.preset \in {Appearance!BuiltIn} \cup DOMAIN aPresets,
           aConfirm'.kind = "import" =>
             /\ IsMap(aConfirm'.styles) /\ Overrides(aConfirm'.styles) /\ Library(aConfirm'.presets)
    PROVE  AppearanceInv'
<1>1. Appearance!SelectionExists'
    BY DEF Appearance!SelectionExists
<1> QED BY <1>1 DEF AppearanceInv

LEMMA EditorMoved ==
    ASSUME AppearanceInv,
           \/ \E t \in StyledTabs : Appearance!OpenTabAppearanceEditor(t)
           \/ Appearance!CloseTabAppearanceEditor
           \/ \E p \in 0..MaxPresetIds : Appearance!SelectPreset(p)
    PROVE  AppearanceInv'
<1>1. /\ aEditor = Appearance!None \/ aEditor \in OpenEditors
      /\ aConfirm.kind = "import" =>
          /\ IsMap(aConfirm.styles) /\ Overrides(aConfirm.styles) /\ Library(aConfirm.presets)
      /\ aNextId \in Nat
    BY DEF AppearanceInv
<1>2. UNCHANGED <<aStyles, aPresets, aStored, aNextId, aConfirm>>
    BY DEF Appearance!OpenTabAppearanceEditor, Appearance!CloseTabAppearanceEditor, Appearance!SelectPreset
<1>3. ASSUME NEW t \in StyledTabs, Appearance!OpenTabAppearanceEditor(t)
      PROVE  aEditor' \in OpenEditors /\ aEditor'.preset = Appearance!BuiltIn
    BY <1>3 DEF Appearance!OpenTabAppearanceEditor, OpenEditors, Appearance!BuiltIn
<1>4. ASSUME NEW p \in 0..MaxPresetIds, Appearance!SelectPreset(p)
      PROVE  aEditor' \in OpenEditors /\ aEditor'.preset \in {Appearance!BuiltIn} \cup DOMAIN aPresets
  <2>1. aEditor \in OpenEditors /\ aEditor' = [aEditor EXCEPT !.preset = p] /\ p \in {Appearance!BuiltIn} \cup DOMAIN aPresets
      BY <1>1, <1>4 DEF Appearance!SelectPreset, Appearance!Editing
  <2>2. p \in Nat
      BY <1>4
  <2> QED BY <2>1, <2>2 DEF OpenEditors
<1>5. CASE Appearance!CloseTabAppearanceEditor
    BY <1>1, <1>2, <1>5, OnlyEditor DEF Appearance!CloseTabAppearanceEditor
<1> QED BY <1>1, <1>2, <1>3, <1>4, <1>5, OnlyEditor

LEMMA DialogsMoved ==
    ASSUME AppearanceInv,
           \/ Appearance!RequestDeletePreset \/ Appearance!RequestClearPresets \/ Appearance!ImportTheme
           \/ Appearance!ThemeRead \/ Appearance!CancelConfirmation
    PROVE  AppearanceInv'
<1>1. /\ aEditor = Appearance!None \/ aEditor \in OpenEditors
      /\ aEditor # Appearance!None => aEditor.preset \in {Appearance!BuiltIn} \cup DOMAIN aPresets
      /\ aConfirm.kind = "import" =>
          /\ IsMap(aConfirm.styles) /\ Overrides(aConfirm.styles) /\ Library(aConfirm.presets)
      /\ aNextId \in Nat
    BY DEF AppearanceInv, Appearance!SelectionExists
<1>2. UNCHANGED <<aStyles, aPresets, aStored, aEditor>>
    BY DEF Appearance!RequestDeletePreset, Appearance!RequestClearPresets, Appearance!ImportTheme,
           Appearance!ThemeRead, Appearance!CancelConfirmation
<1>3. CASE Appearance!RequestDeletePreset \/ Appearance!RequestClearPresets \/ Appearance!ImportTheme
             \/ Appearance!CancelConfirmation
  <2>1. aNextId' = aNextId /\ (aConfirm' = aConfirm \/ aConfirm'.kind \in {"delete", "clear", "none"})
      BY <1>3 DEF Appearance!RequestDeletePreset, Appearance!RequestClearPresets, Appearance!ImportTheme,
           Appearance!CancelConfirmation, Appearance!None
  <2> QED BY <1>1, <1>2, <2>1, OnlyEditor
<1>4. CASE Appearance!ThemeRead /\ UNCHANGED <<aConfirm, aNextId>>
    BY <1>1, <1>2, <1>4, OnlyEditor
<1>5. ASSUME NEW tabs \in SUBSET StyledTabs, NEW n \in 0..PresetLimit, NEW styles, NEW presets,
             styles = [t \in tabs |-> StyleKeys],
             presets = [p \in aNextId..(aNextId + n - 1) |-> StyleKeys],
             Appearance!ValidTheme(styles, presets),
             aConfirm' = [kind |-> "import", styles |-> styles, presets |-> presets],
             aNextId' = aNextId + n
      PROVE  AppearanceInv'
  <2>1. IsMap(styles) /\ Overrides(styles)
      BY <1>5, TabsAssumption DEF IsMap, Overrides
  <2>2. n \in Nat /\ aNextId + n - 1 \in Int
      BY <1>1, <1>5, TabsAssumption
  <2>3. Library(presets)
    <3>1. IsMap(presets) /\ DOMAIN presets = aNextId..(aNextId + n - 1)
        BY <1>5 DEF IsMap
    <3>2. DOMAIN presets \subseteq Nat
        BY <1>1, <2>2, <3>1
    <3>3. IsFiniteSet(DOMAIN presets)
        BY <1>1, <2>2, <3>1, FS_Interval
    <3>4. Overrides(presets) /\ Cardinality(DOMAIN presets) <= PresetLimit
        BY <1>5, SameCount DEF Appearance!ValidTheme, Overrides
    <3> QED BY <3>1, <3>2, <3>3, <3>4 DEF Library
  <2>4. aConfirm'.styles = styles /\ aConfirm'.presets = presets
      BY <1>5
  <2> QED BY <1>1, <1>2, <1>5, <2>1, <2>2, <2>3, <2>4, OnlyEditor
<1>6. CASE Appearance!ThemeRead /\ ~UNCHANGED <<aConfirm, aNextId>>
    BY <1>5, <1>6 DEF Appearance!ThemeRead
<1> QED BY <1>3, <1>4, <1>6

LEMMA AppearanceReplaced ==
    ASSUME AppearanceInv, Appearance!ConfirmImport \/ Appearance!RestartAppearance
    PROVE  AppearanceInv'
<1>1. CASE Appearance!ConfirmImport
  <2>1. /\ IsMap(aConfirm.styles) /\ Overrides(aConfirm.styles) /\ Library(aConfirm.presets)
        /\ aEditor = Appearance!None \/ aEditor \in OpenEditors
      BY <1>1 DEF AppearanceInv, Appearance!ConfirmImport
  <2>2. /\ aStyles' = aConfirm.styles /\ aPresets' = aConfirm.presets /\ aNextId' = aNextId
        /\ aStored' = [styles |-> aConfirm.styles, presets |-> aConfirm.presets]
        /\ aEditor' = IF aEditor = Appearance!None THEN Appearance!None
                      ELSE [aEditor EXCEPT !.preset = Appearance!BuiltIn]
        /\ aConfirm' = Appearance!None
      BY <1>1 DEF Appearance!ConfirmImport
  <2>3. aEditor' = Appearance!None \/ (aEditor' \in OpenEditors /\ aEditor'.preset = Appearance!BuiltIn)
      BY <2>1, <2>2 DEF OpenEditors, Appearance!BuiltIn
  <2>4. Appearance!SelectionExists'
      BY <2>3 DEF Appearance!SelectionExists
  <2>5. aConfirm'.kind # "import"
      BY <2>2 DEF Appearance!None
  <2>6. DOMAIN aStored' = {"styles", "presets"} /\ aStored'.styles = aStyles' /\ aStored'.presets = aPresets'
      BY <2>2
  <2> QED BY <2>1, <2>2, <2>3, <2>4, <2>5, <2>6 DEF AppearanceInv
<1>2. CASE Appearance!RestartAppearance
  <2>1. aStyles' = aStyles /\ aPresets' = aPresets
      BY <1>2, StylesRead, LibraryRead DEF AppearanceInv, Appearance!RestartAppearance
  <2>2. /\ aEditor' = Appearance!None /\ aConfirm' = Appearance!None /\ UNCHANGED <<aStored, aNextId>>
        /\ aConfirm'.kind # "import"
      BY <1>2 DEF Appearance!RestartAppearance, Appearance!None
  <2>3. aNextId \in Nat
      BY DEF AppearanceInv
  <2> QED BY <2>1, <2>2, <2>3, OnlyEditor
<1> QED BY <1>1, <1>2

LEMMA AppearanceStart == Appearance!AppearanceInit => AppearanceInv
<1> SUFFICES ASSUME Appearance!AppearanceInit PROVE AppearanceInv
    OBVIOUS
<1>1. /\ aStyles = Appearance!EmptyMap /\ aPresets = Appearance!EmptyMap
      /\ aEditor = Appearance!None /\ aConfirm = Appearance!None
      /\ aStored = [styles |-> Appearance!EmptyMap, presets |-> Appearance!EmptyMap] /\ aNextId = 1
    BY DEF Appearance!AppearanceInit
<1>2. aConfirm.kind # "import"
    BY <1>1 DEF Appearance!None
<1>3. DOMAIN aStored = {"styles", "presets"} /\ aStored.styles = aStyles /\ aStored.presets = aPresets
    BY <1>1
<1> QED BY <1>1, <1>2, <1>3, MapEmpty DEF AppearanceInv, Appearance!SelectionExists

LEMMA AppearanceSafe == ASSUME AppearanceInv, Appearance!AppearanceNext PROVE AppearanceInv'
BY StylesEdited, LibraryEdited, EditorMoved, DialogsMoved, AppearanceReplaced DEF Appearance!AppearanceNext
LEMMA AppearanceRests == ASSUME AppearanceInv, UNCHANGED appearanceVars PROVE AppearanceInv'
BY DEF AppearanceInv, appearanceVars, Appearance!SelectionExists

LEMMA AppearanceWhole ==
    ASSUME AppearanceInv
    PROVE  Appearance!ExportValid /\ Appearance!SelectionExists /\ Appearance!AppearanceSurvives
<1>1. Appearance!SelectionExists
    BY DEF AppearanceInv
<1>2. Appearance!AppearanceSurvives
    BY StylesRead, LibraryRead DEF AppearanceInv, Appearance!AppearanceSurvives
<1>3. Appearance!ExportValid
    BY SameCount DEF AppearanceInv, Library, Overrides, Appearance!ExportValid, Appearance!ValidTheme
<1> QED BY <1>1, <1>2, <1>3

-----------------------------------------------------------------------------
(* The tabs and their appearance stay whole: a pinned tab is closed only by *)
(* decision, the page on screen has its tab, and the next start shows the   *)
(* same strip and the same appearance (renderTabStrip,                      *)
(* normalizeTabPreferences, tab-appearance.ts).  The invariant adds that    *)
(* every tab has its place in the order, that an open dialog listed the     *)
(* pinned tabs it will close, and that the library holds at most its limit. *)
THEOREM TabsStayKept == EditorsSpec => []TabsKept
<1>1. EditorsInit => TabsInv /\ AppearanceInv
    BY TabsStart, AppearanceStart DEF EditorsInit
<1>2. TabsInv /\ AppearanceInv /\ [EditorsNext]_editorVars => TabsInv' /\ AppearanceInv'
  <2>1. ASSUME TabsInv, AppearanceInv, EditorsNext PROVE TabsInv' /\ AppearanceInv'
    <3>1. Tabs!TabsNext \/ UNCHANGED tabVars
        BY <2>1 DEF EditorsNext
    <3>2. Appearance!AppearanceNext \/ UNCHANGED appearanceVars
        BY <2>1 DEF EditorsNext
    <3> QED BY <2>1, <3>1, <3>2, TabsSafe, TabsRest, AppearanceSafe, AppearanceRests
  <2>2. ASSUME TabsInv, AppearanceInv, UNCHANGED editorVars PROVE TabsInv' /\ AppearanceInv'
    <3>1. UNCHANGED tabVars /\ UNCHANGED appearanceVars
        BY <2>2 DEF editorVars
    <3> QED BY <2>2, <3>1, TabsRest, AppearanceRests
  <2> QED BY <2>1, <2>2
<1>3. TabsInv /\ AppearanceInv => TabsKept
  <2>1. ASSUME TabsInv, AppearanceInv PROVE TabsKept
    <3>1. Tabs!PinnedProtected /\ Tabs!ActiveShown
        BY <2>1 DEF TabsInv
    <3> QED BY <2>1, <3>1, StripComesBack, AppearanceWhole DEF TabsKept
  <2> QED BY <2>1
<1> QED BY <1>1, <1>2, <1>3, PTL DEF EditorsSpec

-----------------------------------------------------------------------------
(* Identities and signatures.  A body is a sequence of paragraphs, and     *)
(* most of the argument is about one paragraph cut out of it or put in.    *)

(* What a set of numbers up to n has for a maximum and a minimum.          *)
LEMMA Greatest ==
    ASSUME NEW T, T \subseteq Nat, T # {}, NEW n \in Nat, \A x \in T : x <= n
    PROVE  Identity!Max(T) \in T /\ \A x \in T : x <= Identity!Max(T)
<1> DEFINE above == {m \in Nat : \A x \in T : x <= m}
<1>1. PICK m \in above : \A k \in above : m <= k
    BY LeastNumber
<1>2. m \in T
  <2>1. ASSUME m \notin T PROVE FALSE
    <3>1. \A x \in T : x \in Nat /\ x <= m - 1
        BY <1>1, <2>1
    <3>2. m - 1 \in Nat
      <4>1. PICK x \in T : TRUE
          OBVIOUS
      <4> QED BY <1>1, <3>1, <4>1
    <3>3. m - 1 \in above
        BY <3>1, <3>2
    <3> QED BY <1>1, <3>3
  <2> QED BY <2>1
<1>3. \A x \in T : m >= x
    BY <1>1
<1> HIDE DEF above
<1>4. Identity!Max(T) \in T /\ \A x \in T : Identity!Max(T) >= x
    BY <1>2, <1>3 DEF Identity!Max
<1> QED BY <1>4

LEMMA Smallest ==
    ASSUME NEW T, T \subseteq Nat, T # {}
    PROVE  Identity!Min(T) \in T /\ \A x \in T : Identity!Min(T) <= x
BY LeastNumber DEF Identity!Min

(* A body without one paragraph, and with one more.                        *)
Cut(P, s, n, r) ==
    /\ r \in Seq(P) /\ Len(r) = Len(s) - 1
    /\ \A k \in 1..(Len(s) - 1) : r[k] = IF k < n THEN s[k] ELSE s[k + 1]
LEMMA RemoveAtIs ==
    ASSUME NEW P, NEW s \in Seq(P), NEW n \in 1..Len(s), NEW r, r = Identity!RemoveAt(s, n)
    PROVE  Cut(P, s, n, r)
<1> DEFINE a == SubSeq(s, 1, n - 1)
           b == SubSeq(s, n + 1, Len(s))
<1>1. a \in Seq(P) /\ Len(a) = n - 1 /\ \A k \in 1..(n - 1) : a[k] = s[k]
    OBVIOUS
<1>2. b \in Seq(P) /\ Len(b) = Len(s) - n /\ \A k \in 1..(Len(s) - n) : b[k] = s[n + k]
    OBVIOUS
<1>3. r = a \o b
    BY DEF Identity!RemoveAt
<1> HIDE DEF a, b
<1>4. r \in Seq(P) /\ Len(r) = Len(s) - 1
  <2>1. a \in Seq(P) /\ b \in Seq(P)
      BY <1>1, <1>2
  <2>2. a \o b \in Seq(P) /\ Len(a \o b) = Len(a) + Len(b)
      BY <2>1
  <2> QED BY <1>1, <1>2, <1>3, <2>2
<1>5. ASSUME NEW k \in 1..(Len(s) - 1) PROVE r[k] = IF k < n THEN s[k] ELSE s[k + 1]
  <2>1. CASE k < n
      BY <1>1, <1>2, <1>3, <2>1
  <2>2. CASE k >= n
    <3>1. r[k] = b[k - (n - 1)] /\ k - (n - 1) \in 1..(Len(s) - n)
        BY <1>1, <1>2, <1>3, <2>2
    <3> QED BY <1>2, <2>2, <3>1
  <2> QED BY <2>1, <2>2
<1> QED BY <1>4, <1>5 DEF Cut

LEMMA CutAt ==
    ASSUME NEW P, NEW s \in Seq(P), NEW n \in Nat, NEW r, Cut(P, s, n, r), NEW k \in 1..(Len(s) - 1)
    PROVE  (k < n => r[k] = s[k]) /\ (k >= n => r[k] = s[k + 1])
BY DEF Cut

LEMMA InsertAtIs ==
    ASSUME NEW P, NEW s \in Seq(P), NEW n \in 1..Len(s), NEW e \in P, NEW r, r = Identity!InsertAt(s, n, e)
    PROVE  /\ r \in Seq(P) /\ Len(r) = Len(s) + 1
           /\ \A k \in 1..(Len(s) + 1) : r[k] = IF k < n THEN s[k] ELSE IF k = n THEN e ELSE s[k - 1]
<1> DEFINE a == SubSeq(s, 1, n - 1)
           b == SubSeq(s, n, Len(s))
           c == a \o <<e>>
<1>1. a \in Seq(P) /\ Len(a) = n - 1 /\ \A k \in 1..(n - 1) : a[k] = s[k]
    OBVIOUS
<1>2. b \in Seq(P) /\ Len(b) = Len(s) - n + 1 /\ \A k \in 1..(Len(s) - n + 1) : b[k] = s[n + k - 1]
    OBVIOUS
<1>3. r = c \o b
    BY DEF Identity!InsertAt
<1> HIDE DEF a, b
<1>4. c \in Seq(P) /\ Len(c) = n /\ c[n] = e /\ \A k \in 1..(n - 1) : c[k] = s[k]
    BY <1>1
<1> HIDE DEF c
<1>5. r \in Seq(P) /\ Len(r) = Len(s) + 1
    BY <1>2, <1>3, <1>4
<1>6. ASSUME NEW k \in 1..(Len(s) + 1) PROVE r[k] = IF k < n THEN s[k] ELSE IF k = n THEN e ELSE s[k - 1]
  <2>1. CASE k <= n
      BY <1>2, <1>3, <1>4, <2>1
  <2>2. CASE k > n
    <3>1. r[k] = b[k - n] /\ k - n \in 1..(Len(s) - n + 1)
        BY <1>2, <1>3, <1>4, <2>2
    <3> QED BY <1>2, <2>2, <3>1
  <2> QED BY <2>1, <2>2
<1> QED BY <1>5, <1>6

(* The last paragraph that reads p.                                        *)
LEMMA LastIs ==
    ASSUME NEW P, NEW s \in Seq(P), NEW p, p \in Identity!Range(s)
    PROVE  /\ Identity!LastOf(s, p) \in 1..Len(s) /\ s[Identity!LastOf(s, p)] = p
           /\ \A k \in 1..Len(s) : s[k] = p => k <= Identity!LastOf(s, p)
<1> DEFINE T == {k \in DOMAIN s : s[k] = p}
<1>1. T \subseteq Nat /\ T # {} /\ Len(s) \in Nat /\ \A k \in T : k <= Len(s)
    BY DEF Identity!Range
<1>2. Identity!Max(T) \in T /\ \A k \in T : k <= Identity!Max(T)
    BY <1>1, Greatest
<1>3. Identity!LastOf(s, p) = Identity!Max(T)
    BY DEF Identity!LastOf
<1> QED BY <1>2, <1>3

LEMMA StripCuts ==
    ASSUME NEW P, NEW s \in Seq(P), NEW p, p # Identity!Unsigned, NEW n \in 1..Len(s), s[n] = p,
           \A k \in 1..Len(s) : s[k] = p => k <= n
    PROVE  Identity!Strip(s, p) = Identity!RemoveAt(s, n)
<1>1. p \in Identity!Range(s)
    BY DEF Identity!Range
<1>2. Identity!LastOf(s, p) = n
    BY <1>1, LastIs
<1> QED BY <1>1, <1>2 DEF Identity!Strip

LEMMA StripStays ==
    ASSUME NEW s, NEW p, p = Identity!Unsigned \/ p \notin Identity!Range(s)
    PROVE  Identity!Strip(s, p) = s
BY DEF Identity!Strip

LEMMA StripBody ==
    ASSUME NEW P, NEW s \in Seq(P), NEW p
    PROVE  Identity!Strip(s, p) \in Seq(P)
<1>1. CASE p = Identity!Unsigned \/ p \notin Identity!Range(s)
    BY <1>1, StripStays
<1>2. CASE p # Identity!Unsigned /\ p \in Identity!Range(s)
  <2>1. PICK n : n = Identity!LastOf(s, p)
      OBVIOUS
  <2>2. n \in 1..Len(s)
      BY <1>2, <2>1, LastIs
  <2>3. Identity!Strip(s, p) = Identity!RemoveAt(s, n)
      BY <1>2, <2>1 DEF Identity!Strip
  <2> QED BY <2>2, <2>3, RemoveAtIs DEF Cut
<1> QED BY <1>1, <1>2

LEMMA SameBody ==
    ASSUME NEW P, NEW s \in Seq(P), NEW t \in Seq(P), Len(s) = Len(t), \A k \in 1..Len(s) : s[k] = t[k]
    PROVE  s = t
OBVIOUS

(* A block put into a body that has none like it is found again.           *)
LEMMA StripInserted ==
    ASSUME NEW P, NEW s \in Seq(P), NEW p \in P, p # Identity!Unsigned, p \notin Identity!Range(s),
           NEW n \in 1..Len(s)
    PROVE  Identity!Strip(Identity!InsertAt(s, n, p), p) = s
<1>1. PICK t : t = Identity!InsertAt(s, n, p)
    OBVIOUS
<1>2. /\ t \in Seq(P) /\ Len(t) = Len(s) + 1
      /\ \A k \in 1..(Len(s) + 1) : t[k] = IF k < n THEN s[k] ELSE IF k = n THEN p ELSE s[k - 1]
    BY <1>1, InsertAtIs
<1>3. \A k \in 1..Len(s) : s[k] # p
    BY DEF Identity!Range
<1>4. n \in 1..Len(t) /\ t[n] = p /\ \A k \in 1..Len(t) : t[k] = p => k <= n
    BY <1>2, <1>3
<1>5. Identity!Strip(t, p) = Identity!RemoveAt(t, n)
    BY <1>2, <1>4, StripCuts
<1>6. PICK r : r = Identity!RemoveAt(t, n)
    OBVIOUS
<1>7. Cut(P, t, n, r)
    BY <1>2, <1>4, <1>6, RemoveAtIs
<1>8. \A k \in 1..Len(r) : r[k] = s[k]
    BY <1>2, <1>7 DEF Cut
<1>9. r = s
    BY <1>2, <1>7, <1>8, SameBody DEF Cut
<1> QED BY <1>1, <1>5, <1>6, <1>9

LEMMA StripAppended ==
    ASSUME NEW P, NEW s \in Seq(P), NEW p \in P, p # Identity!Unsigned
    PROVE  Identity!Strip(Append(s, p), p) = s
<1>1. PICK t : t = Append(s, p)
    OBVIOUS
<1>2. /\ t \in Seq(P) /\ Len(t) = Len(s) + 1 /\ t[Len(t)] = p
      /\ \A k \in 1..Len(s) : t[k] = s[k]
    BY <1>1
<1>5. Identity!Strip(t, p) = Identity!RemoveAt(t, Len(t))
    BY <1>2, StripCuts
<1>6. PICK r : r = Identity!RemoveAt(t, Len(t))
    OBVIOUS
<1>7. Cut(P, t, Len(t), r)
    BY <1>2, <1>6, RemoveAtIs
<1>9. r = s
    BY <1>2, <1>7, SameBody DEF Cut
<1> QED BY <1>1, <1>5, <1>6, <1>9

LEMMA StripTyped ==
    ASSUME NEW P, NEW s \in Seq(P), NEW w \in P, NEW p, p # w
    PROVE  Identity!Strip(<<w>> \o s, p) = <<w>> \o Identity!Strip(s, p)
<1>1. PICK t : t = <<w>> \o s
    OBVIOUS
<1>2. t \in Seq(P) /\ Len(t) = Len(s) + 1 /\ t[1] = w /\ \A k \in 1..Len(s) : t[k + 1] = s[k]
    BY <1>1
<1>3. CASE p = Identity!Unsigned \/ p \notin Identity!Range(s)
  <2>1. p \in Identity!Range(t) => p \in Identity!Range(s)
    <3>1. ASSUME NEW k \in DOMAIN t, t[k] = p PROVE p \in Identity!Range(s)
      <4>1. k # 1 /\ k - 1 \in 1..Len(s) /\ t[(k - 1) + 1] = s[k - 1]
          BY <1>2, <3>1
      <4> QED BY <3>1, <4>1 DEF Identity!Range
    <3> QED BY <3>1 DEF Identity!Range
  <2> QED BY <1>1, <1>3, <2>1, StripStays
<1>4. CASE p # Identity!Unsigned /\ p \in Identity!Range(s)
  <2>1. PICK n \in 1..Len(s) : s[n] = p /\ \A k \in 1..Len(s) : s[k] = p => k <= n
      BY <1>4, LastIs
  <2>2. Identity!Strip(s, p) = Identity!RemoveAt(s, n)
      BY <1>4, <2>1, StripCuts
  <2>3. n + 1 \in 1..Len(t) /\ t[n + 1] = p
      BY <1>2, <2>1
  <2>4. ASSUME NEW k \in 1..Len(t), t[k] = p PROVE k <= n + 1
    <3>1. k # 1 /\ k - 1 \in 1..Len(s) /\ t[(k - 1) + 1] = s[k - 1]
        BY <1>2, <2>4
    <3> QED BY <2>1, <2>4, <3>1
  <2>5. Identity!Strip(t, p) = Identity!RemoveAt(t, n + 1)
      BY <1>2, <1>4, <2>3, <2>4, StripCuts
  <2>6. PICK q, r : q = Identity!RemoveAt(s, n) /\ r = Identity!RemoveAt(t, n + 1)
      OBVIOUS
  <2>7. Cut(P, s, n, q)
      BY <2>1, <2>6, RemoveAtIs
  <2>8. Cut(P, t, n + 1, r)
      BY <1>2, <2>3, <2>6, RemoveAtIs
  <2>9. PICK u : u = <<w>> \o q
      OBVIOUS
  <2>10. u \in Seq(P) /\ Len(u) = Len(q) + 1 /\ u[1] = w /\ \A k \in 1..Len(q) : u[k + 1] = q[k]
      BY <2>7, <2>9 DEF Cut
  <2>11. ASSUME NEW k \in 1..Len(r) PROVE r[k] = u[k]
    <3>1. CASE k = 1
        BY <1>2, <2>1, <2>8, <2>10, <3>1 DEF Cut
    <3>2. CASE k # 1
      <4>1. PICK j : j = k - 1
          OBVIOUS
      <4>2. j \in 1..(Len(s) - 1) /\ k = j + 1 /\ u[j + 1] = q[j]
        <5>1. Len(r) = Len(s) /\ Len(q) = Len(s) - 1 /\ Len(s) \in Nat
            BY <1>2, <2>7, <2>8 DEF Cut
        <5>2. j \in 1..(Len(s) - 1) /\ k = j + 1
            BY <3>2, <4>1, <5>1
        <5> QED BY <2>10, <5>1, <5>2
      <4>3. r[j + 1] = IF j < n THEN t[j + 1] ELSE t[j + 2]
          BY <1>2, <2>8, <4>2 DEF Cut
      <4>4. t[j + 1] = s[j] /\ t[(j + 1) + 1] = s[j + 1]
          BY <1>2, <4>2
      <4>5. q[j] = IF j < n THEN s[j] ELSE s[j + 1]
          BY <2>7, <4>2 DEF Cut
      <4> QED BY <4>2, <4>3, <4>4, <4>5
    <3> QED BY <3>1, <3>2
  <2>12. r = u
      BY <1>2, <2>7, <2>8, <2>10, <2>11, SameBody DEF Cut
  <2> QED BY <1>1, <2>2, <2>5, <2>6, <2>9, <2>12
<1> QED BY <1>3, <1>4

(* Two blocks are cut in either order.                                     *)
LEMMA StripTwice ==
    ASSUME NEW P, NEW s \in Seq(P), NEW p, NEW q, p # q, p # Identity!Unsigned, q # Identity!Unsigned,
           NEW m \in 1..Len(s), s[m] = p, \A k \in 1..Len(s) : s[k] = p => k <= m,
           NEW n \in 1..Len(s), s[n] = q, \A k \in 1..Len(s) : s[k] = q => k <= n,
           m < n
    PROVE  Identity!Strip(Identity!Strip(s, p), q) = Identity!Strip(Identity!Strip(s, q), p)
<1>1. PICK t, u : t = Identity!RemoveAt(s, m) /\ u = Identity!RemoveAt(s, n)
    OBVIOUS
<1>2. Identity!Strip(s, p) = t /\ Identity!Strip(s, q) = u
    BY <1>1, StripCuts
<1>3. Cut(P, s, m, t)
    BY <1>1, RemoveAtIs
<1>4. Cut(P, s, n, u)
    BY <1>1, RemoveAtIs
<1>5. t \in Seq(P) /\ Len(t) = Len(s) - 1 /\ u \in Seq(P) /\ Len(u) = Len(s) - 1
    BY <1>3, <1>4 DEF Cut
<1>6. n - 1 \in 1..Len(t) /\ t[n - 1] = q /\ \A k \in 1..Len(t) : t[k] = q => k <= n - 1
    BY <1>3 DEF Cut
<1>7. m \in 1..Len(u) /\ u[m] = p /\ \A k \in 1..Len(u) : u[k] = p => k <= m
    BY <1>4 DEF Cut
<1>8. PICK v, w : v = Identity!RemoveAt(t, n - 1) /\ w = Identity!RemoveAt(u, m)
    OBVIOUS
<1>9. Identity!Strip(t, q) = v /\ Identity!Strip(u, p) = w
    BY <1>5, <1>6, <1>7, <1>8, StripCuts
<1>10. Cut(P, t, n - 1, v)
    BY <1>5, <1>6, <1>8, RemoveAtIs
<1>11. Cut(P, u, m, w)
    BY <1>5, <1>7, <1>8, RemoveAtIs
<1>12. v \in Seq(P) /\ w \in Seq(P) /\ Len(v) = Len(s) - 2 /\ Len(w) = Len(s) - 2
    BY <1>5, <1>10, <1>11 DEF Cut
<1>13. ASSUME NEW k \in 1..Len(v) PROVE v[k] = w[k]
  <2>1. k \in 1..(Len(t) - 1) /\ k \in 1..(Len(u) - 1) /\ k \in 1..(Len(s) - 1) /\ k + 1 \in 1..(Len(s) - 1)
        /\ n - 1 \in Nat /\ m \in Nat /\ n \in Nat
      BY <1>5, <1>12
  <2>2. (k < n - 1 => v[k] = t[k]) /\ (k >= n - 1 => v[k] = t[k + 1])
      BY <1>5, <1>10, <2>1, CutAt
  <2>3. (k < m => w[k] = u[k]) /\ (k >= m => w[k] = u[k + 1])
      BY <1>5, <1>11, <2>1, CutAt
  <2>4. /\ k < m => t[k] = s[k]
        /\ k >= m => t[k] = s[k + 1]
        /\ k + 1 >= m => t[k + 1] = s[(k + 1) + 1]
      BY <1>3, <2>1, CutAt
  <2>5. /\ k < n => u[k] = s[k]
        /\ k + 1 < n => u[k + 1] = s[k + 1]
        /\ k + 1 >= n => u[k + 1] = s[(k + 1) + 1]
      BY <1>4, <2>1, CutAt
  <2>6. k \in Nat
      BY <2>1
  <2>7. CASE k < m
      BY <2>1, <2>2, <2>3, <2>4, <2>5, <2>6, <2>7
  <2>8. CASE k >= m /\ k + 1 < n
    <3>1. v[k] = t[k] /\ w[k] = u[k + 1]
        BY <2>1, <2>2, <2>3, <2>6, <2>8
    <3> QED BY <2>4, <2>5, <2>8, <3>1
  <2>9. CASE k + 1 >= n
    <3>1. v[k] = t[k + 1] /\ w[k] = u[k + 1] /\ k + 1 >= m
        BY <2>1, <2>2, <2>3, <2>6, <2>9
    <3> QED BY <2>4, <2>5, <2>9, <3>1
  <2> QED BY <2>1, <2>6, <2>7, <2>8, <2>9
<1>14. v = w
    BY <1>12, <1>13, SameBody
<1> QED BY <1>2, <1>9, <1>14

(* Stripping brings no paragraph.                                          *)
LEMMA StripBrings ==
    ASSUME NEW P, NEW s \in Seq(P), NEW p
    PROVE  Identity!Range(Identity!Strip(s, p)) \subseteq Identity!Range(s)
<1>1. CASE p = Identity!Unsigned \/ p \notin Identity!Range(s)
    BY <1>1, StripStays
<1>2. CASE p # Identity!Unsigned /\ p \in Identity!Range(s)
  <2>1. PICK n \in 1..Len(s) : s[n] = p /\ \A k \in 1..Len(s) : s[k] = p => k <= n
      BY <1>2, LastIs
  <2>2. PICK r : r = Identity!RemoveAt(s, n)
      OBVIOUS
  <2>3. Cut(P, s, n, r)
      BY <2>2, RemoveAtIs
  <2>4. ASSUME NEW k \in DOMAIN r PROVE \E j \in DOMAIN s : r[k] = s[j]
    <3>1. k \in 1..(Len(s) - 1) /\ k \in DOMAIN s /\ k + 1 \in DOMAIN s /\ n \in Nat
        BY <2>3 DEF Cut
    <3> QED BY <2>3, <3>1, CutAt
  <2>5. Identity!Range(r) \subseteq Identity!Range(s)
      BY <2>4 DEF Identity!Range
  <2>6. Identity!Strip(s, p) = r
      BY <1>2, <2>1, <2>2, StripCuts
  <2> QED BY <2>5, <2>6
<1> QED BY <1>1, <1>2

LEMMA StripCommutes ==
    ASSUME NEW P, NEW s \in Seq(P), NEW p, NEW q, p # q
    PROVE  Identity!Strip(Identity!Strip(s, p), q) = Identity!Strip(Identity!Strip(s, q), p)
<1>1. CASE p = Identity!Unsigned \/ p \notin Identity!Range(s)
  <2>1. p = Identity!Unsigned \/ p \notin Identity!Range(Identity!Strip(s, q))
      BY <1>1, StripBrings
  <2> QED BY <1>1, <2>1, StripStays
<1>2. CASE q = Identity!Unsigned \/ q \notin Identity!Range(s)
  <2>1. q = Identity!Unsigned \/ q \notin Identity!Range(Identity!Strip(s, p))
      BY <1>2, StripBrings
  <2> QED BY <1>2, <2>1, StripStays
<1>3. CASE p # Identity!Unsigned /\ p \in Identity!Range(s) /\ q # Identity!Unsigned /\ q \in Identity!Range(s)
  <2>1. PICK m \in 1..Len(s) : s[m] = p /\ \A k \in 1..Len(s) : s[k] = p => k <= m
      BY <1>3, LastIs
  <2>2. PICK n \in 1..Len(s) : s[n] = q /\ \A k \in 1..Len(s) : s[k] = q => k <= n
      BY <1>3, LastIs
  <2>3. m < n \/ n < m
      BY <2>1, <2>2
  <2>4. CASE m < n
      BY <1>3, <2>1, <2>2, <2>4, StripTwice
  <2>5. CASE n < m
      BY <1>3, <2>1, <2>2, <2>5, StripTwice
  <2> QED BY <2>3, <2>4, <2>5
<1> QED BY <1>1, <1>2, <1>3

Paragraphs == Signatures \cup {"typed", "marker", "quote"}
Blocks == Signatures \cup {Identity!Unsigned}

(* A signature goes to the end or in front of the quote.                   *)
LEMMA SignedIs ==
    ASSUME NEW body \in Seq(Paragraphs), NEW previous, NEW kept, kept = Identity!Strip(body, previous),
           NEW identity, identity.signature \in Blocks, NEW marker,
           NEW signed, signed = Identity!ApplySignature(body, identity, marker, previous)
    PROVE  /\ kept \in Seq(Paragraphs)
           /\ \/ identity.signature = Identity!Unsigned /\ signed = kept
              \/ /\ identity.signature \in Paragraphs /\ identity.signature # Identity!Unsigned
                 /\ \/ signed = Append(kept, identity.signature)
                    \/ \E n \in 1..Len(kept) : signed = Identity!InsertAt(kept, n, identity.signature)
<1>1. kept \in Seq(Paragraphs)
    BY StripBody
<1>2. PICK p : p = identity.signature
    OBVIOUS
<1>3. CASE p = Identity!Unsigned
  <2>1. signed = kept
      BY <1>2, <1>3 DEF Identity!ApplySignature
  <2> QED BY <1>1, <1>2, <1>3, <2>1
<1>4. CASE p # Identity!Unsigned
  <2>1. p \in Paragraphs
      BY <1>2, <1>4 DEF Blocks, Paragraphs
  <2>2. \/ signed = Append(kept, p)
        \/ /\ marker \in Identity!Range(kept)
           /\ signed = Identity!InsertAt(kept, Identity!FirstOf(kept, marker), p)
      BY <1>2, <1>4, Zenon DEF Identity!ApplySignature
  <2>3. ASSUME marker \in Identity!Range(kept) PROVE Identity!FirstOf(kept, marker) \in 1..Len(kept)
    <3>1. PICK T : T = {k \in DOMAIN kept : kept[k] = marker}
        OBVIOUS
    <3>2. T \subseteq Nat /\ T # {}
        BY <1>1, <2>3, <3>1 DEF Identity!Range
    <3>3. Identity!Min(T) \in T
        BY <3>2, Smallest
    <3> QED BY <1>1, <3>1, <3>3 DEF Identity!FirstOf
  <2> QED BY <1>1, <1>2, <1>4, <2>1, <2>2, <2>3
<1> QED BY <1>3, <1>4

LEMMA SignedBody ==
    ASSUME NEW body \in Seq(Paragraphs), NEW previous,
           NEW identity, identity.signature \in Blocks, NEW marker,
           NEW signed, signed = Identity!ApplySignature(body, identity, marker, previous)
    PROVE  signed \in Seq(Paragraphs)
<1>1. PICK kept, p : kept = Identity!Strip(body, previous) /\ p = identity.signature
    OBVIOUS
<1>2. /\ kept \in Seq(Paragraphs)
      /\ \/ signed = kept
         \/ /\ p \in Paragraphs
            /\ signed = Append(kept, p) \/ \E n \in 1..Len(kept) : signed = Identity!InsertAt(kept, n, p)
    BY <1>1, SignedIs
<1>3. ASSUME p \in Paragraphs, signed = Append(kept, p) PROVE signed \in Seq(Paragraphs)
    BY <1>2, <1>3
<1>4. ASSUME p \in Paragraphs, NEW n \in 1..Len(kept), signed = Identity!InsertAt(kept, n, p)
      PROVE  signed \in Seq(Paragraphs)
    BY <1>2, <1>4, InsertAtIs
<1> QED BY <1>2, <1>3, <1>4

(* Whatever signature a body gets, stripping it leaves what was there.     *)
LEMMA SignatureApplied ==
    ASSUME NEW body \in Seq(Paragraphs), NEW previous, NEW kept, kept = Identity!Strip(body, previous),
           Identity!Range(kept) \cap Signatures = {},
           NEW identity, identity.signature \in Blocks, NEW marker,
           NEW signed, signed = Identity!ApplySignature(body, identity, marker, previous)
    PROVE  Identity!Strip(signed, identity.signature) = kept
<1>1. PICK p : p = identity.signature
    OBVIOUS
<1>2. /\ kept \in Seq(Paragraphs)
      /\ \/ p = Identity!Unsigned /\ signed = kept
         \/ /\ p \in Paragraphs /\ p # Identity!Unsigned
            /\ signed = Append(kept, p) \/ \E n \in 1..Len(kept) : signed = Identity!InsertAt(kept, n, p)
    BY <1>1, SignedIs
<1>3. ASSUME p = Identity!Unsigned, signed = kept PROVE Identity!Strip(signed, p) = kept
    BY <1>3, StripStays
<1>4. ASSUME p \in Paragraphs, p # Identity!Unsigned, signed = Append(kept, p)
      PROVE  Identity!Strip(signed, p) = kept
    BY <1>2, <1>4, StripAppended
<1>5. ASSUME p \in Paragraphs, p # Identity!Unsigned,
             NEW n \in 1..Len(kept), signed = Identity!InsertAt(kept, n, p)
      PROVE  Identity!Strip(signed, p) = kept
  <2>1. p \notin Identity!Range(kept)
      BY <1>1, <1>5 DEF Blocks
  <2> QED BY <1>2, <1>5, <2>1, StripInserted
<1> QED BY <1>1, <1>2, <1>3, <1>4, <1>5

LEMMA StripKeeps ==
    ASSUME NEW P, NEW s \in Seq(P), NEW p, NEW x \in Identity!Range(s), x # p
    PROVE  x \in Identity!Range(Identity!Strip(s, p))
<1>1. CASE p = Identity!Unsigned \/ p \notin Identity!Range(s)
    BY <1>1, StripStays
<1>2. CASE p # Identity!Unsigned /\ p \in Identity!Range(s)
  <2>1. PICK n \in 1..Len(s) : s[n] = p /\ \A k \in 1..Len(s) : s[k] = p => k <= n
      BY <1>2, LastIs
  <2>2. PICK r : r = Identity!RemoveAt(s, n)
      OBVIOUS
  <2>3. Cut(P, s, n, r) /\ Identity!Strip(s, p) = r
      BY <1>2, <2>1, <2>2, RemoveAtIs, StripCuts
  <2>4. PICK k \in 1..Len(s) : s[k] = x
      BY DEF Identity!Range
  <2>5. DOMAIN r = 1..(Len(s) - 1) /\ k # n /\ n \in Nat
      BY <2>1, <2>3, <2>4 DEF Cut
  <2>6. CASE k < n
    <3>1. k \in DOMAIN r /\ r[k] = x
        BY <2>3, <2>4, <2>5, <2>6, CutAt
    <3> QED BY <2>3, <3>1 DEF Identity!Range
  <2>7. CASE k > n
    <3>1. k - 1 \in 1..(Len(s) - 1) /\ k - 1 >= n /\ (k - 1) + 1 = k
        BY <2>1, <2>7
    <3>2. r[k - 1] = x
        BY <2>3, <2>4, <2>5, <3>1, CutAt
    <3> QED BY <2>3, <2>5, <3>1, <3>2 DEF Identity!Range
  <2> QED BY <2>5, <2>6, <2>7
<1> QED BY <1>1, <1>2

-----------------------------------------------------------------------------
(* The list of identities: numbered apart, no two of an account at one     *)
(* place, and of the identities of an account one is the default.          *)
IdentityRecords ==
    [account : IdAccounts, signature : Blocks, placement : Identity!Placements,
     isDefault : BOOLEAN, ordinal : Nat]
ListOK(list, n) ==
    /\ DOMAIN list \subseteq 1..(n - 1) /\ list \in [DOMAIN list -> IdentityRecords]
    /\ \A i \in DOMAIN list : list[i].ordinal < n
    /\ \A i, j \in DOMAIN list :
          i # j /\ list[i].account = list[j].account => list[i].ordinal # list[j].ordinal
Chosen(list) ==
    \A a : Identity!OfAccount(list, a) # {} =>
        \E i \in Identity!OfAccount(list, a) :
            /\ list[i].isDefault
            /\ \A j \in Identity!OfAccount(list, a) : list[j].isDefault => j = i
ListInv ==
    /\ iNext \in Nat \ {0} /\ ListOK(iList, iNext) /\ Chosen(iList)
    /\ \A a : a \in iAccounts <=> Identity!OfAccount(iList, a) # {}

ComposeFields == {"at", "account", "identity", "body", "quoteMarker", "appliedSignature"}
(* Stripping the signature applied last leaves what the user wrote and     *)
(* quoted.                                                                 *)
BodyInv ==
    /\ DOMAIN iCompose = ComposeFields
    /\ iCompose.body \in Seq(Paragraphs) /\ iKept \in Seq(Paragraphs)
    /\ iCompose.appliedSignature \in Blocks
    /\ iCompose.at = "composer" /\ ~Identity!Copied =>
          Identity!Strip(iCompose.body, iCompose.appliedSignature) = iKept
IdentityInv == ListInv /\ BodyInv

LEMMA ListTypes ==
    ASSUME NEW list, NEW n, ListOK(list, n), NEW i \in DOMAIN list
    PROVE  /\ list[i] \in IdentityRecords /\ list[i].account \in IdAccounts /\ list[i].signature \in Blocks
           /\ list[i].isDefault \in BOOLEAN /\ list[i].ordinal \in Nat
BY DEF ListOK, IdentityRecords

LEMMA LeastOrdinal ==
    ASSUME NEW list, NEW n, ListOK(list, n), NEW ids, ids \subseteq DOMAIN list, ids # {}
    PROVE  \E i \in ids : \A j \in ids : list[i].ordinal <= list[j].ordinal
<1> DEFINE T == {list[i].ordinal : i \in ids}
<1>1. T \subseteq Nat /\ T # {}
    BY ListTypes
<1>2. PICK x \in T : \A y \in T : x <= y
    BY <1>1, LeastNumber
<1> QED BY <1>2

(* There is a first of the identities of an account.                       *)
LEMMA FirstIs ==
    ASSUME NEW list, NEW n, ListOK(list, n), NEW a, NEW ids, ids \subseteq Identity!OfAccount(list, a), ids # {}
    PROVE  Identity!First(list, ids) \in ids
<1>1. ids \subseteq DOMAIN list /\ \A i \in ids : list[i].account = a
    BY DEF Identity!OfAccount
<1>2. \E i \in ids : \A j \in ids \ {i} : Identity!Before(list, i, j)
  <2>1. PICK D : D = {i \in ids : list[i].isDefault}
      OBVIOUS
  <2>2. \A i, j \in ids : i # j => list[i].ordinal # list[j].ordinal
      BY <1>1 DEF ListOK
  <2>3. \A i \in ids : list[i].ordinal \in Nat /\ list[i].isDefault \in BOOLEAN
      BY <1>1, ListTypes
  <2>4. CASE D # {}
    <3>1. PICK i \in D : \A j \in D : list[i].ordinal <= list[j].ordinal
        BY <1>1, <2>1, <2>4, LeastOrdinal
    <3>2. ASSUME NEW j \in ids \ {i} PROVE Identity!Before(list, i, j)
      <4>1. CASE j \in D
          BY <2>1, <2>2, <2>3, <3>1, <3>2, <4>1 DEF Identity!Before
      <4>2. CASE j \notin D
          BY <2>1, <2>3, <3>1, <4>2 DEF Identity!Before
      <4> QED BY <4>1, <4>2
    <3> QED BY <2>1, <3>1, <3>2
  <2>5. CASE D = {}
    <3>1. PICK i \in ids : \A j \in ids : list[i].ordinal <= list[j].ordinal
        BY <1>1, LeastOrdinal
    <3>2. ASSUME NEW j \in ids \ {i} PROVE Identity!Before(list, i, j)
        BY <2>1, <2>2, <2>3, <2>5, <3>1, <3>2 DEF Identity!Before
    <3> QED BY <3>1, <3>2
  <2> QED BY <2>4, <2>5
<1> QED BY <1>2 DEF Identity!First

(* An identity that is put into the list, and what it does to the default. *)
PutInto(built, list, n, a, signature, placement, made, i) ==
    /\ DOMAIN built = DOMAIN list \cup {i} /\ built = [j \in DOMAIN built |-> built[j]]
    /\ \E ordinal \in Nat :
          /\ ordinal <= n
          /\ i \in DOMAIN list => ordinal = list[i].ordinal
          /\ i \notin DOMAIN list =>
                \A j \in DOMAIN list : list[j].account = a => list[j].ordinal < ordinal
          /\ built[i] = [account |-> a, signature |-> signature, placement |-> placement,
                         isDefault |-> made, ordinal |-> ordinal]
    /\ \A j \in DOMAIN list \ {i} :
          built[j] = IF made /\ list[j].account = a
                     THEN [list[j] EXCEPT !.isDefault = FALSE] ELSE list[j]

LEMMA BuildIs ==
    ASSUME NEW n \in Nat \ {0}, NEW list, ListOK(list, n), Chosen(list),
           NEW a \in IdAccounts, NEW signature \in Blocks, NEW placement \in Identity!Placements,
           NEW wanted \in BOOLEAN, NEW i,
           \/ i = n
           \/ i \in DOMAIN list /\ a = list[i].account /\ (wanted <=> list[i].isDefault),
           NEW built, built = Identity!Build(list, i, a, wanted, signature, placement)
    PROVE  PutInto(built, list, n, a, signature, placement, wanted \/ Identity!OfAccount(list, a) = {}, i)
<1>1. PICK siblings : siblings = Identity!OfAccount(list, a)
    OBVIOUS
<1>2. PICK identity : identity =
            [account |-> a, signature |-> signature, placement |-> placement,
             isDefault |-> wanted \/ siblings = {},
             ordinal |-> IF i \in DOMAIN list THEN list[i].ordinal
                         ELSE IF siblings = {} THEN 0
                         ELSE Identity!Max({list[j].ordinal : j \in siblings}) + 1]
    OBVIOUS
<1>3. PICK demoted : demoted = [j \in DOMAIN list |->
                      IF identity.isDefault /\ list[j].account = a
                      THEN [list[j] EXCEPT !.isDefault = FALSE] ELSE list[j]]
    OBVIOUS
<1>4. PICK next : next = Identity!Put(demoted, i, identity)
    OBVIOUS
<1>5. built = IF \E j \in Identity!OfAccount(next, a) : next[j].isDefault THEN next
              ELSE Identity!WithDefault(next, Identity!First(next, Identity!OfAccount(next, a)))
    BY <1>1, <1>2, <1>3, <1>4 DEF Identity!Build
<1>6. /\ DOMAIN next = DOMAIN list \cup {i} /\ next[i] = identity
      /\ \A j \in DOMAIN list \ {i} : next[j] = demoted[j]
    BY <1>3, <1>4 DEF Identity!Put
<1>7. \E j \in Identity!OfAccount(next, a) : next[j].isDefault
  <2>1. CASE identity.isDefault
      BY <1>2, <1>6, <2>1 DEF Identity!OfAccount
  <2>2. CASE ~identity.isDefault
    <3>1. ~wanted /\ siblings # {}
        BY <1>2, <2>2
    <3>2. PICK j \in siblings : list[j].isDefault
        BY <1>1, <3>1 DEF Chosen
    <3>3. j \in DOMAIN list /\ list[j].account = a /\ j # i
        BY <1>1, <3>1, <3>2 DEF Identity!OfAccount, ListOK
    <3>4. next[j] = list[j]
        BY <1>3, <1>6, <2>2, <3>3
    <3> QED BY <1>6, <3>2, <3>3, <3>4 DEF Identity!OfAccount
  <2> QED BY <2>1, <2>2
<1>8. built = next
    BY <1>5, <1>7
<1>9. /\ identity.ordinal \in Nat /\ identity.ordinal <= n
      /\ i \in DOMAIN list => identity.ordinal = list[i].ordinal
      /\ i \notin DOMAIN list => \A j \in DOMAIN list : list[j].account = a => list[j].ordinal < identity.ordinal
  <2>1. CASE i \in DOMAIN list
      BY <1>2, <2>1, ListTypes DEF ListOK
  <2>2. CASE i \notin DOMAIN list /\ siblings = {}
      BY <1>1, <1>2, <2>2 DEF Identity!OfAccount
  <2>3. CASE i \notin DOMAIN list /\ siblings # {}
    <3>1. PICK T : T = {list[j].ordinal : j \in siblings}
        OBVIOUS
    <3>2. \A j \in siblings : list[j].ordinal \in Nat /\ list[j].ordinal <= n - 1
        BY <1>1, ListTypes DEF Identity!OfAccount, ListOK
    <3>3. T \subseteq Nat /\ T # {} /\ n - 1 \in Nat /\ \A x \in T : x <= n - 1
        BY <2>3, <3>1, <3>2
    <3>4. PICK m : m = Identity!Max(T)
        OBVIOUS
    <3>5. m \in T /\ \A x \in T : x <= m
        BY <3>3, <3>4, Greatest
    <3>6. identity.ordinal = m + 1
        BY <1>2, <2>3, <3>1, <3>4
    <3>7. identity.ordinal \in Nat /\ identity.ordinal <= n
        BY <3>3, <3>5, <3>6
    <3>8. ASSUME NEW j \in DOMAIN list, list[j].account = a PROVE list[j].ordinal < identity.ordinal
      <4>1. list[j].ordinal \in T
          BY <1>1, <3>1, <3>8 DEF Identity!OfAccount
      <4>2. list[j].ordinal <= m /\ list[j].ordinal \in Nat /\ m \in Nat
          BY <3>3, <3>5, <4>1
      <4> QED BY <3>6, <4>2
    <3> QED BY <2>3, <3>7, <3>8
  <2> QED BY <2>1, <2>2, <2>3
<1>10. identity = [account |-> a, signature |-> signature, placement |-> placement,
                   isDefault |-> wanted \/ Identity!OfAccount(list, a) = {}, ordinal |-> identity.ordinal]
    BY <1>1, <1>2
<1>11. \A j \in DOMAIN list \ {i} :
            built[j] = IF (wanted \/ Identity!OfAccount(list, a) = {}) /\ list[j].account = a
                       THEN [list[j] EXCEPT !.isDefault = FALSE] ELSE list[j]
  <2>1. identity.isDefault = (wanted \/ Identity!OfAccount(list, a) = {})
      BY <1>1, <1>2
  <2>2. \A j \in DOMAIN list : demoted[j] = IF identity.isDefault /\ list[j].account = a
                                          THEN [list[j] EXCEPT !.isDefault = FALSE] ELSE list[j]
      BY <1>3
  <2> QED BY <1>6, <1>8, <2>1, <2>2
<1>12. built = [j \in DOMAIN built |-> built[j]]
    BY <1>4, <1>8 DEF Identity!Put
<1>13. \E ordinal \in Nat :
          /\ ordinal <= n
          /\ i \in DOMAIN list => ordinal = list[i].ordinal
          /\ i \notin DOMAIN list => \A j \in DOMAIN list : list[j].account = a => list[j].ordinal < ordinal
          /\ built[i] = [account |-> a, signature |-> signature, placement |-> placement,
                         isDefault |-> wanted \/ Identity!OfAccount(list, a) = {}, ordinal |-> ordinal]
    BY <1>6, <1>8, <1>9, <1>10
<1> QED BY <1>6, <1>8, <1>11, <1>12, <1>13, Zenon DEF PutInto

(* The list after it.                                                      *)
LEMMA BuildOK ==
    ASSUME NEW n \in Nat \ {0}, NEW list, ListOK(list, n), Chosen(list),
           NEW a \in IdAccounts, NEW signature \in Blocks, NEW placement \in Identity!Placements,
           NEW wanted \in BOOLEAN, NEW i, NEW m,
           \/ i = n /\ m = n + 1
           \/ i \in DOMAIN list /\ a = list[i].account /\ (wanted <=> list[i].isDefault) /\ m = n,
           NEW built, built = Identity!Build(list, i, a, wanted, signature, placement)
    PROVE  /\ ListOK(built, m) /\ Chosen(built)
           /\ \A b : Identity!OfAccount(built, b) # {} <=> b = a \/ Identity!OfAccount(list, b) # {}
<1> DEFINE made == wanted \/ Identity!OfAccount(list, a) = {}
<1>1. i = n \/ (i \in DOMAIN list /\ a = list[i].account /\ (wanted <=> list[i].isDefault))
    OBVIOUS
<1>0. PutInto(built, list, n, a, signature, placement, made, i)
    BY <1>1, BuildIs, Zenon
<1>2. DOMAIN built = DOMAIN list \cup {i}
    BY <1>0 DEF PutInto
<1>3. PICK ordinal \in Nat :
          /\ ordinal <= n
          /\ i \in DOMAIN list => ordinal = list[i].ordinal
          /\ i \notin DOMAIN list => \A j \in DOMAIN list : list[j].account = a => list[j].ordinal < ordinal
          /\ built[i] = [account |-> a, signature |-> signature, placement |-> placement,
                         isDefault |-> made, ordinal |-> ordinal]
    BY <1>0 DEF PutInto
<1>4. \A j \in DOMAIN list \ {i} :
          built[j] = IF made /\ list[j].account = a THEN [list[j] EXCEPT !.isDefault = FALSE] ELSE list[j]
    BY <1>0 DEF PutInto
<1>5. n \notin DOMAIN list
    BY DEF ListOK
<1>6. made \in BOOLEAN /\ built[i] \in IdentityRecords /\ built[i].account = a /\ built[i].ordinal = ordinal
      /\ built[i].isDefault = made
    BY <1>3 DEF IdentityRecords
<1> HIDE DEF made
<1>7. ASSUME NEW j \in DOMAIN list \ {i}
      PROVE  /\ built[j] \in IdentityRecords /\ built[j].account = list[j].account
             /\ built[j].ordinal = list[j].ordinal
             /\ built[j].isDefault <=> (list[j].isDefault /\ ~(made /\ list[j].account = a))
  <2>1. list[j] \in IdentityRecords
      BY ListTypes
  <2>2. CASE made /\ list[j].account = a
    <3>1. built[j] = [list[j] EXCEPT !.isDefault = FALSE]
        BY <1>4, <2>2
    <3> QED BY <2>1, <2>2, <3>1 DEF IdentityRecords
  <2>3. CASE ~(made /\ list[j].account = a)
    <3>1. built[j] = list[j]
        BY <1>4, <2>3
    <3> QED BY <2>1, <2>3, <3>1 DEF IdentityRecords
  <2> QED BY <2>2, <2>3
<1>8. DOMAIN list \subseteq 1..(n - 1) /\ \A j \in DOMAIN list : list[j].ordinal \in Nat /\ list[j].ordinal < n
    BY ListTypes DEF ListOK
<1>9. DOMAIN built \subseteq 1..(m - 1) /\ m \in Nat /\ n <= m
    BY <1>2, <1>8
<1>10. built \in [DOMAIN built -> IdentityRecords]
  <2>1. built = [j \in DOMAIN built |-> built[j]]
      BY <1>0 DEF PutInto
  <2> QED BY <1>2, <1>6, <1>7, <2>1
<1>11. \A j \in DOMAIN built : built[j].ordinal < m
  <2>1. ordinal < m
    <3>1. CASE i = n /\ m = n + 1
        BY <1>3, <3>1
    <3>2. CASE i \in DOMAIN list /\ m = n
        BY <1>3, <1>8, <3>2
    <3> QED BY <1>5, <3>1, <3>2
  <2>2. \A j \in DOMAIN list \ {i} : built[j].ordinal < m
      BY <1>7, <1>8, <1>9
  <2> QED BY <1>2, <1>6, <2>1, <2>2
<1>12. ASSUME NEW j \in DOMAIN list \ {i}, list[j].account = a PROVE list[j].ordinal # ordinal
  <2>1. CASE i \in DOMAIN list
      BY <1>1, <1>3, <1>5, <1>12, <2>1 DEF ListOK
  <2>2. CASE i \notin DOMAIN list
      BY <1>3, <1>8, <1>12, <2>2
  <2> QED BY <2>1, <2>2
<1>13. ASSUME NEW j \in DOMAIN built, NEW k \in DOMAIN built, j # k, built[j].account = built[k].account
       PROVE  built[j].ordinal # built[k].ordinal
  <2>1. CASE j = i
      BY <1>2, <1>6, <1>7, <1>12, <1>13, <2>1
  <2>2. CASE k = i
      BY <1>2, <1>6, <1>7, <1>12, <1>13, <2>2
  <2>3. CASE j # i /\ k # i
      BY <1>2, <1>7, <1>13, <2>3 DEF ListOK
  <2> QED BY <2>1, <2>2, <2>3
<1>14. ListOK(built, m)
    BY <1>9, <1>10, <1>11, <1>13 DEF ListOK
<1>15. \A b : Identity!OfAccount(built, b) \ {i} = Identity!OfAccount(list, b) \ {i}
    BY <1>2, <1>7 DEF Identity!OfAccount
<1>16. i \in DOMAIN list => list[i].account = a
    BY <1>1, <1>5
<1>17. \A b : i \in Identity!OfAccount(built, b) <=> b = a
    BY <1>2, <1>6 DEF Identity!OfAccount
<1>18. \A b : b # a => i \notin Identity!OfAccount(list, b)
    BY <1>16 DEF Identity!OfAccount
<1>19. \A b : Identity!OfAccount(built, b) # {} <=> b = a \/ Identity!OfAccount(list, b) # {}
    BY <1>15, <1>17, <1>18
<1>20. ASSUME NEW b, Identity!OfAccount(built, b) # {}
       PROVE  \E k \in Identity!OfAccount(built, b) :
                  /\ built[k].isDefault
                  /\ \A j \in Identity!OfAccount(built, b) : built[j].isDefault => j = k
  <2>1. CASE b = a /\ made
    <3>1. \A j \in Identity!OfAccount(built, b) : built[j].isDefault => j = i
        BY <1>2, <1>7, <2>1 DEF Identity!OfAccount
    <3> QED BY <1>6, <1>17, <2>1, <3>1
  <2>2. CASE b # a
    <3>1. Identity!OfAccount(built, b) = Identity!OfAccount(list, b)
      <4>1. i \notin Identity!OfAccount(built, b) /\ i \notin Identity!OfAccount(list, b)
          BY <1>17, <1>18, <2>2
      <4>2. Identity!OfAccount(built, b) \ {i} = Identity!OfAccount(list, b) \ {i}
          BY <1>15
      <4>3. /\ Identity!OfAccount(built, b) \ {i} = Identity!OfAccount(built, b)
            /\ Identity!OfAccount(list, b) \ {i} = Identity!OfAccount(list, b)
          BY <4>1
      <4> QED BY <4>2, <4>3
    <3>2. \A j \in Identity!OfAccount(list, b) : built[j].isDefault <=> list[j].isDefault
        BY <1>7, <1>18, <2>2 DEF Identity!OfAccount
    <3> QED BY <1>20, <3>1, <3>2 DEF Chosen
  <2>3. CASE b = a /\ ~made
    <3>1. ~wanted /\ Identity!OfAccount(list, a) # {}
        BY <2>3 DEF made
    <3>2. PICK k \in Identity!OfAccount(list, a) :
              list[k].isDefault /\ \A j \in Identity!OfAccount(list, a) : list[j].isDefault => j = k
        BY <3>1 DEF Chosen
    <3>3. k # i
        BY <1>1, <1>5, <3>1, <3>2 DEF Identity!OfAccount
    <3>4. k \in Identity!OfAccount(built, a) /\ built[k].isDefault
        BY <1>7, <1>15, <2>3, <3>2, <3>3 DEF Identity!OfAccount
    <3>5. ASSUME NEW j \in Identity!OfAccount(built, a), built[j].isDefault PROVE j = k
      <4>1. j # i
          BY <1>6, <2>3, <3>5
      <4>2. j \in Identity!OfAccount(list, a) /\ list[j].isDefault
          BY <1>7, <1>15, <3>5, <4>1 DEF Identity!OfAccount
      <4> QED BY <3>2, <4>2
    <3> QED BY <2>3, <3>4, <3>5
  <2> QED BY <2>1, <2>2, <2>3
<1> QED BY <1>14, <1>19, <1>20 DEF Chosen

(* A list that loses some identities, or whose defaults change.            *)
Alike(e, f) == e \in IdentityRecords /\ e.account = f.account /\ e.ordinal = f.ordinal
LEMMA Without ==
    ASSUME NEW n, NEW list, ListOK(list, n), NEW kept, kept \subseteq DOMAIN list,
           NEW rest, rest = [i \in kept |-> rest[i]], \A i \in kept : Alike(rest[i], list[i])
    PROVE  /\ ListOK(rest, n) /\ DOMAIN rest = kept
           /\ \A a : Identity!OfAccount(rest, a) = Identity!OfAccount(list, a) \cap kept
<1>1. DOMAIN rest = kept /\ rest \in [kept -> IdentityRecords]
    BY DEF Alike
<1>2. ListOK(rest, n)
    BY <1>1 DEF ListOK, Alike
<1> QED BY <1>1, <1>2 DEF Identity!OfAccount, Alike

LEMMA AlikeSelf ==
    ASSUME NEW n, NEW list, ListOK(list, n), NEW i \in DOMAIN list
    PROVE  Alike(list[i], list[i])
BY ListTypes DEF Alike

LEMMA AlikeFlag ==
    ASSUME NEW n, NEW list, ListOK(list, n), NEW i \in DOMAIN list, NEW b \in BOOLEAN,
           NEW r, r = [list[i] EXCEPT !.isDefault = b]
    PROVE  Alike(r, list[i]) /\ (r.isDefault <=> b)
<1>1. list[i] \in IdentityRecords
    BY ListTypes
<1> QED BY <1>1 DEF IdentityRecords, Alike

LEMMA RemoveIs ==
    ASSUME NEW n, NEW list, ListOK(list, n), Chosen(list), NEW i \in DOMAIN list,
           ~(list[i].isDefault /\ Identity!OfAccount(list, list[i].account) = {i}),
           NEW left, left = Identity!RemoveFrom(list, i)
    PROVE  /\ ListOK(left, n) /\ Chosen(left)
           /\ \A a : Identity!OfAccount(left, a) # {} <=> Identity!OfAccount(list, a) # {}
<1>1. PICK rest, a : rest = Identity!Without(list, i) /\ a = list[i].account
    OBVIOUS
<1>2. DOMAIN rest = DOMAIN list \ {i} /\ \A j \in DOMAIN list \ {i} : rest[j] = list[j]
    BY <1>1 DEF Identity!Without
<1>3. PICK siblings : siblings = Identity!OfAccount(rest, a)
    OBVIOUS
<1>4. siblings = Identity!OfAccount(list, a) \ {i}
    BY <1>2, <1>3 DEF Identity!OfAccount
<1>5. i \in Identity!OfAccount(list, a)
    BY <1>1 DEF Identity!OfAccount
<1>6. PICK d \in Identity!OfAccount(list, a) :
          list[d].isDefault /\ \A j \in Identity!OfAccount(list, a) : list[j].isDefault => j = d
    BY <1>5 DEF Chosen
<1>7. siblings # {}
  <2>1. CASE list[i].isDefault
      BY <1>1, <1>4, <1>5, <2>1
  <2>2. CASE ~list[i].isDefault
      BY <1>4, <1>6, <2>2
  <2> QED BY <2>1, <2>2
<1>8. ListOK(rest, n) /\ \A b : Identity!OfAccount(rest, b) = Identity!OfAccount(list, b) \cap (DOMAIN list \ {i})
  <2>1. \A j \in DOMAIN list \ {i} : Alike(rest[j], list[j])
      BY <1>2, AlikeSelf
  <2>2. rest = [j \in DOMAIN list \ {i} |-> rest[j]]
      BY <1>1 DEF Identity!Without
  <2> QED BY <1>2, <2>1, <2>2, Without
<1>9. \A b : b # a => Identity!OfAccount(rest, b) = Identity!OfAccount(list, b)
    BY <1>1, <1>8 DEF Identity!OfAccount
<1>10. CASE list[i].isDefault
  <2>1. PICK k : k = Identity!First(rest, siblings)
      OBVIOUS
  <2>2. k \in siblings
      BY <1>3, <1>7, <1>8, <2>1, FirstIs
  <2>3. left = [rest EXCEPT ![k].isDefault = TRUE]
      BY <1>1, <1>3, <1>7, <1>10, <2>1 DEF Identity!RemoveFrom, Identity!WithDefault
  <2>4. k \in DOMAIN rest /\ rest[k].account = a
      BY <1>3, <2>2 DEF Identity!OfAccount
  <2>5. /\ DOMAIN left = DOMAIN rest /\ left[k] = [rest[k] EXCEPT !.isDefault = TRUE]
        /\ left = [j \in DOMAIN rest |-> left[j]]
        /\ \A j \in DOMAIN rest \ {k} : left[j] = rest[j]
      BY <1>8, <2>3, <2>4 DEF ListOK
  <2>6. ListOK(left, n) /\ \A b : Identity!OfAccount(left, b) = Identity!OfAccount(rest, b) \cap DOMAIN rest
    <3>1. \A j \in DOMAIN rest : Alike(left[j], rest[j])
        BY <1>8, <2>4, <2>5, AlikeSelf, AlikeFlag
    <3> QED BY <1>8, <2>5, <3>1, Without
  <2>7. \A b : Identity!OfAccount(left, b) = Identity!OfAccount(rest, b)
      BY <2>6 DEF Identity!OfAccount
  <2>8. left[k].isDefault
      BY <1>8, <2>4, <2>5, AlikeFlag
  <2>9. i = d
      BY <1>5, <1>6, <1>10
  <2>10. ASSUME NEW b, Identity!OfAccount(left, b) # {}
         PROVE  \E m \in Identity!OfAccount(left, b) :
                    left[m].isDefault /\ \A j \in Identity!OfAccount(left, b) : left[j].isDefault => j = m
    <3>1. CASE b = a
      <4>1. ASSUME NEW j \in siblings, left[j].isDefault PROVE j = k
        <5>1. j # i /\ j \in Identity!OfAccount(list, a) /\ ~list[j].isDefault
            BY <1>4, <1>6, <2>9, <4>1
        <5>2. j \in DOMAIN rest /\ rest[j] = list[j]
            BY <1>2, <5>1 DEF Identity!OfAccount
        <5> QED BY <2>5, <4>1, <5>1, <5>2
      <4> QED BY <1>3, <2>2, <2>7, <2>8, <3>1, <4>1
    <3>2. CASE b # a
      <4>1. Identity!OfAccount(left, b) = Identity!OfAccount(list, b)
          BY <1>9, <2>7, <3>2
      <4>2. \A j \in Identity!OfAccount(list, b) : j \in DOMAIN rest \ {k} /\ rest[j] = list[j]
          BY <1>1, <1>2, <2>4, <3>2 DEF Identity!OfAccount
      <4>3. \A j \in Identity!OfAccount(list, b) : left[j] = list[j]
          BY <2>5, <4>2
      <4> QED BY <2>10, <4>1, <4>3 DEF Chosen
    <3> QED BY <3>1, <3>2
  <2>11. Chosen(left)
      BY <2>10 DEF Chosen
  <2>12. \A b : Identity!OfAccount(left, b) # {} <=> Identity!OfAccount(list, b) # {}
      BY <1>3, <1>5, <1>7, <1>9, <2>7
  <2> QED BY <2>6, <2>11, <2>12
<1>11. CASE ~list[i].isDefault
  <2>1. left = rest
      BY <1>1, <1>11 DEF Identity!RemoveFrom
  <2>2. ASSUME NEW b, Identity!OfAccount(rest, b) # {}
         PROVE  \E m \in Identity!OfAccount(rest, b) :
                    rest[m].isDefault /\ \A j \in Identity!OfAccount(rest, b) : rest[j].isDefault => j = m
    <3>1. Identity!OfAccount(rest, b) = Identity!OfAccount(list, b) \ {i}
        BY <1>8 DEF Identity!OfAccount
    <3>2. \A j \in Identity!OfAccount(rest, b) : rest[j] = list[j]
        BY <1>2, <3>1 DEF Identity!OfAccount
    <3>3. PICK m \in Identity!OfAccount(list, b) :
              list[m].isDefault /\ \A j \in Identity!OfAccount(list, b) : list[j].isDefault => j = m
        BY <2>2, <3>1 DEF Chosen
    <3>4. m # i
        BY <1>11, <3>3
    <3> QED BY <3>1, <3>2, <3>3, <3>4
  <2>3. \A b : Identity!OfAccount(rest, b) # {} <=> Identity!OfAccount(list, b) # {}
      BY <1>3, <1>5, <1>7, <1>9
  <2> QED BY <1>8, <2>1, <2>2, <2>3 DEF Chosen
<1> QED BY <1>10, <1>11

LEMMA PromotedIs ==
    ASSUME NEW n, NEW list, ListOK(list, n), Chosen(list), NEW i \in DOMAIN list,
           NEW next, next = Identity!Promoted(list, i)
    PROVE  /\ ListOK(next, n) /\ Chosen(next)
           /\ \A a : Identity!OfAccount(next, a) = Identity!OfAccount(list, a)
<1>1. DOMAIN next = DOMAIN list /\ next = [j \in DOMAIN list |-> next[j]]
    BY DEF Identity!Promoted
<1>2. ASSUME NEW j \in DOMAIN list
      PROVE  next[j] = IF list[j].account = list[i].account THEN [list[j] EXCEPT !.isDefault = (j = i)] ELSE list[j]
    BY DEF Identity!Promoted
<1>3. ASSUME NEW j \in DOMAIN list
      PROVE  /\ Alike(next[j], list[j])
             /\ list[j].account = list[i].account => (next[j].isDefault <=> j = i)
             /\ list[j].account # list[i].account => next[j] = list[j]
  <2>1. CASE list[j].account = list[i].account
    <3>1. PICK b \in BOOLEAN : b <=> j = i
        OBVIOUS
    <3>2. next[j] = [list[j] EXCEPT !.isDefault = b]
        BY <1>2, <2>1, <3>1
    <3> QED BY <2>1, <3>1, <3>2, AlikeFlag
  <2>2. CASE list[j].account # list[i].account
      BY <1>2, <2>2, AlikeSelf
  <2> QED BY <2>1, <2>2
<1>4. ListOK(next, n) /\ \A a : Identity!OfAccount(next, a) = Identity!OfAccount(list, a) \cap DOMAIN list
    BY <1>1, <1>3, Without
<1>5. \A a : Identity!OfAccount(next, a) = Identity!OfAccount(list, a)
    BY <1>4 DEF Identity!OfAccount
<1>6. ASSUME NEW a, Identity!OfAccount(next, a) # {}
      PROVE  \E k \in Identity!OfAccount(next, a) :
                 next[k].isDefault /\ \A j \in Identity!OfAccount(next, a) : next[j].isDefault => j = k
  <2>1. CASE a = list[i].account
    <3>1. i \in Identity!OfAccount(list, a) /\ \A j \in Identity!OfAccount(list, a) : j \in DOMAIN list /\ list[j].account = a
        BY <2>1 DEF Identity!OfAccount
    <3> QED BY <1>3, <1>5, <2>1, <3>1
  <2>2. CASE a # list[i].account
    <3>1. \A j \in Identity!OfAccount(list, a) : next[j] = list[j]
        BY <1>3, <2>2 DEF Identity!OfAccount
    <3> QED BY <1>5, <1>6, <3>1 DEF Chosen
  <2> QED BY <2>1, <2>2
<1> QED BY <1>4, <1>5, <1>6 DEF Chosen

(* What the schema makes of any defaults.                                  *)
LEMMA SettledIs ==
    ASSUME NEW n, NEW list, ListOK(list, n), NEW next, next = Identity!Settled(list)
    PROVE  /\ ListOK(next, n) /\ Chosen(next)
           /\ \A a : Identity!OfAccount(next, a) = Identity!OfAccount(list, a)
<1> DEFINE Own(a) == Identity!OfAccount(list, a)
           Marked(a) == {j \in Own(a) : list[j].isDefault}
           Elect(a, i) == IF Marked(a) = {} THEN {j \in Own(a) : j < i} = {} ELSE i = Identity!Min(Marked(a))
<1>1. DOMAIN next = DOMAIN list /\ next = [j \in DOMAIN list |-> next[j]]
    BY DEF Identity!Settled
<1>2. ASSUME NEW j \in DOMAIN list
      PROVE  next[j] = [list[j] EXCEPT !.isDefault = Elect(list[j].account, j)]
    BY DEF Identity!Settled
<1>3. ASSUME NEW j \in DOMAIN list
      PROVE  Alike(next[j], list[j]) /\ (next[j].isDefault <=> Elect(list[j].account, j))
  <2>1. PICK b \in BOOLEAN : b <=> Elect(list[j].account, j)
      OBVIOUS
  <2>2. next[j] = [list[j] EXCEPT !.isDefault = b]
      BY <1>2, <2>1
  <2> QED BY <2>1, <2>2, AlikeFlag
<1>4. ListOK(next, n) /\ \A a : Identity!OfAccount(next, a) = Own(a) \cap DOMAIN list
  <2>1. \A j \in DOMAIN list : Alike(next[j], list[j])
      BY <1>3
  <2> HIDE DEF Elect
  <2> QED BY <1>1, <2>1, Without
<1>5. \A a : Identity!OfAccount(next, a) = Own(a)
    BY <1>4 DEF Identity!OfAccount
<1>6. ASSUME NEW a, Own(a) # {}
      PROVE  \E k \in Own(a) : Elect(a, k) /\ \A j \in Own(a) : Elect(a, j) => j = k
  <2>1. Own(a) \subseteq Nat
      BY DEF Identity!OfAccount, ListOK
  <2>2. CASE Marked(a) # {}
    <3>1. Identity!Min(Marked(a)) \in Marked(a)
        BY <2>1, <2>2, Smallest
    <3> QED BY <2>2, <3>1
  <2>3. CASE Marked(a) = {}
    <3>1. PICK k \in Own(a) : \A j \in Own(a) : k <= j
        BY <1>6, <2>1, LeastNumber
    <3>2. Elect(a, k)
        BY <2>1, <2>3, <3>1
    <3>3. ASSUME NEW j \in Own(a), Elect(a, j) PROVE j = k
      <4>1. ~(k < j)
          BY <2>3, <3>3
      <4> QED BY <2>1, <3>1, <4>1
    <3> QED BY <3>2, <3>3
  <2> QED BY <2>2, <2>3
<1>7. \A a : \A j \in Own(a) : j \in DOMAIN list /\ list[j].account = a
    BY DEF Identity!OfAccount
<1> HIDE DEF Own, Elect
<1>8. \A a : \A j \in Own(a) : next[j].isDefault <=> Elect(a, j)
    BY <1>3, <1>7
<1>9. Chosen(next)
    BY <1>5, <1>6, <1>8 DEF Chosen
<1> QED BY <1>4, <1>5, <1>9 DEF Own

-----------------------------------------------------------------------------
LEMMA ListStart == Identity!IdentityInit => ListInv
<1> SUFFICES ASSUME Identity!IdentityInit PROVE ListInv
    OBVIOUS
<1>1. iAccounts = {} /\ iList = <<>> /\ iNext = 1
    BY DEF Identity!IdentityInit
<1>2. DOMAIN iList = {} /\ iList \in [{} -> IdentityRecords]
    BY <1>1
<1>3. ListOK(iList, iNext)
    BY <1>1, <1>2 DEF ListOK
<1>4. \A a : Identity!OfAccount(iList, a) = {}
    BY <1>2 DEF Identity!OfAccount
<1> QED BY <1>1, <1>3, <1>4 DEF ListInv, Chosen

(* A step that keeps the accounts, and the list its accounts.              *)
LEMMA ListFollows ==
    ASSUME ListInv, iAccounts' = iAccounts, iNext' \in Nat \ {0}, ListOK(iList', iNext'), Chosen(iList'),
           \A a : Identity!OfAccount(iList', a) # {} <=> Identity!OfAccount(iList, a) # {}
    PROVE  ListInv'
BY DEF ListInv

LEMMA ListBuilds ==
    ASSUME ListInv, NEW a \in IdAccounts, NEW signature \in Blocks, NEW placement \in Identity!Placements,
           NEW wanted \in BOOLEAN, NEW i,
           \/ i = iNext /\ iNext' = iNext + 1
           \/ i \in DOMAIN iList /\ a = iList[i].account /\ (wanted <=> iList[i].isDefault) /\ iNext' = iNext,
           iList' = Identity!Build(iList, i, a, wanted, signature, placement),
           iAccounts' = iAccounts \cup {a}
    PROVE  ListInv'
<1>1. ListOK(iList', iNext') /\ Chosen(iList')
      /\ \A b : Identity!OfAccount(iList', b) # {} <=> b = a \/ Identity!OfAccount(iList, b) # {}
  <2>1. iNext \in Nat \ {0} /\ ListOK(iList, iNext) /\ Chosen(iList)
      BY DEF ListInv
  <2>2. PICK n, m, list, built : n = iNext /\ m = iNext' /\ list = iList /\ built = iList'
      OBVIOUS
  <2>3. n \in Nat \ {0} /\ ListOK(list, n) /\ Chosen(list)
      BY <2>1, <2>2
  <2>4. \/ i = n /\ m = n + 1
        \/ i \in DOMAIN list /\ a = list[i].account /\ (wanted <=> list[i].isDefault) /\ m = n
      BY <2>2
  <2>5. built = Identity!Build(list, i, a, wanted, signature, placement)
      BY <2>2
  <2>6. ListOK(built, m) /\ Chosen(built)
        /\ \A b : Identity!OfAccount(built, b) # {} <=> b = a \/ Identity!OfAccount(list, b) # {}
      BY <2>3, <2>4, <2>5, BuildOK, SMTT(30)
  <2> QED BY <2>2, <2>6
<1>2. iNext' \in Nat \ {0}
    BY DEF ListInv
<1>3. \A b : b \in iAccounts' <=> Identity!OfAccount(iList', b) # {}
    BY <1>1 DEF ListInv
<1> QED BY <1>1, <1>2, <1>3 DEF ListInv

LEMMA ListRests == ASSUME ListInv, UNCHANGED <<iAccounts, iList, iNext>> PROVE ListInv'
BY DEF ListInv

LEMMA SeededIs ==
    ASSUME NEW list, NEW i, NEW a, Identity!OfAccount(list, a) = {}
    PROVE  Identity!Seeded(list, i, a) = Identity!Build(list, i, a, TRUE, Identity!Unsigned, "below-body")
BY DEF Identity!Seeded

LEMMA AccountAdded == ASSUME ListInv, NEW a \in IdAccounts, Identity!AddAccount(a) PROVE ListInv'
<1>1. Identity!OfAccount(iList, a) = {}
    BY DEF Identity!AddAccount, ListInv
<1>2. /\ iAccounts' = iAccounts \cup {a} /\ iNext' = iNext + 1
      /\ iList' = Identity!Build(iList, iNext, a, TRUE, Identity!Unsigned, "below-body")
    BY <1>1, SeededIs DEF Identity!AddAccount, Identity!TakeOver
<1>3. Identity!Unsigned \in Blocks /\ "below-body" \in Identity!Placements /\ TRUE \in BOOLEAN
    BY DEF Blocks, Identity!Placements
<1>4. PICK i : i = iNext
    OBVIOUS
<1> QED BY <1>2, <1>3, <1>4, ListBuilds

LEMMA AccountRemoved == ASSUME ListInv, NEW a, Identity!RemoveAccount(a) PROVE ListInv'
<1>1. PICK kept : kept = DOMAIN iList \ Identity!OfAccount(iList, a)
    OBVIOUS
<1>2. iAccounts' = iAccounts \ {a} /\ iNext' = iNext /\ iList' = [i \in kept |-> iList[i]]
    BY <1>1 DEF Identity!RemoveAccount
<1>3. ListOK(iList, iNext) /\ Chosen(iList)
    BY DEF ListInv
<1>4. ListOK(iList', iNext) /\ \A b : Identity!OfAccount(iList', b) = Identity!OfAccount(iList, b) \cap kept
  <2>1. \A i \in kept : Alike(iList'[i], iList[i])
      BY <1>1, <1>2, <1>3, AlikeSelf
  <2> QED BY <1>1, <1>2, <1>3, <2>1, Without
<1>5. Identity!OfAccount(iList', a) = {} /\ \A b : b # a => Identity!OfAccount(iList', b) = Identity!OfAccount(iList, b)
    BY <1>1, <1>4 DEF Identity!OfAccount
<1>6. Chosen(iList')
  <2>1. \A i \in kept : iList'[i] = iList[i]
      BY <1>2
  <2>2. \A b : Identity!OfAccount(iList', b) \subseteq kept
      BY <1>4
  <2> QED BY <1>3, <1>5, <2>1, <2>2 DEF Chosen
<1> QED BY <1>2, <1>4, <1>5, <1>6 DEF ListInv

LEMMA IdentityCreated ==
    ASSUME ListInv, NEW a \in IdAccounts, NEW signature \in Blocks, NEW placement \in Identity!Placements,
           Identity!CreateIdentity(a, signature, placement)
    PROVE  ListInv'
<1>1. /\ iAccounts' = iAccounts \cup {a} /\ iNext' = iNext + 1
      /\ iList' = Identity!Build(iList, iNext, a, FALSE, signature, placement)
    BY DEF Identity!CreateIdentity, Identity!TakeOver
<1>2. PICK i : i = iNext
    OBVIOUS
<1> QED BY <1>1, <1>2, ListBuilds

LEMMA IdentityEdited ==
    ASSUME ListInv, NEW i, NEW signature \in Blocks, NEW placement \in Identity!Placements,
           Identity!EditIdentity(i, signature, placement)
    PROVE  ListInv'
<1>1. /\ i \in DOMAIN iList /\ iAccounts' = iAccounts /\ iNext' = iNext
      /\ iList' = Identity!Build(iList, i, iList[i].account, iList[i].isDefault, signature, placement)
    BY DEF Identity!EditIdentity, Identity!TakeOver
<1>2. ListOK(iList, iNext)
    BY DEF ListInv
<1>3. iList[i].account \in IdAccounts /\ iList[i].isDefault \in BOOLEAN
    BY <1>1, <1>2, ListTypes
<1>4. iAccounts' = iAccounts \cup {iList[i].account}
  <2>1. Identity!OfAccount(iList, iList[i].account) # {}
      BY <1>1 DEF Identity!OfAccount
  <2> QED BY <1>1, <2>1 DEF ListInv
<1>5. PICK a, wanted : a = iList[i].account /\ wanted = iList[i].isDefault
    OBVIOUS
<1>6. wanted \in BOOLEAN /\ a \in IdAccounts
    BY <1>3, <1>5
<1>7. i \in DOMAIN iList /\ a = iList[i].account /\ (wanted <=> iList[i].isDefault) /\ iNext' = iNext
    BY <1>1, <1>5, Zenon
<1>8. iList' = Identity!Build(iList, i, a, wanted, signature, placement) /\ iAccounts' = iAccounts \cup {a}
    BY <1>1, <1>4, <1>5
<1> QED BY <1>6, <1>7, <1>8, ListBuilds

LEMMA IdentityDeleted == ASSUME ListInv, NEW i, Identity!DeleteIdentity(i) PROVE ListInv'
<1>1. /\ i \in DOMAIN iList /\ iAccounts' = iAccounts /\ iNext' = iNext
      /\ iList' = Identity!RemoveFrom(iList, i)
      /\ ~(iList[i].isDefault /\ Identity!OfAccount(iList, iList[i].account) = {i})
    BY DEF Identity!DeleteIdentity, Identity!TakeOver
<1>2. iNext \in Nat \ {0} /\ ListOK(iList, iNext) /\ Chosen(iList)
    BY DEF ListInv
<1>3. ListOK(iList', iNext) /\ Chosen(iList')
      /\ \A a : Identity!OfAccount(iList', a) # {} <=> Identity!OfAccount(iList, a) # {}
    BY <1>1, <1>2, RemoveIs
<1> QED BY <1>1, <1>2, <1>3, ListFollows

LEMMA DefaultSet == ASSUME ListInv, NEW i, Identity!SetDefaultIdentity(i) PROVE ListInv'
<1>1. /\ i \in DOMAIN iList /\ iAccounts' = iAccounts /\ iNext' = iNext
      /\ iList' = Identity!Promoted(iList, i)
    BY DEF Identity!SetDefaultIdentity, Identity!TakeOver
<1>2. iNext \in Nat \ {0} /\ ListOK(iList, iNext) /\ Chosen(iList)
    BY DEF ListInv
<1>3. ListOK(iList', iNext) /\ Chosen(iList')
      /\ \A a : Identity!OfAccount(iList', a) = Identity!OfAccount(iList, a)
    BY <1>1, <1>2, PromotedIs
<1> QED BY <1>1, <1>2, <1>3, ListFollows

LEMMA Restarted ==
    ASSUME ListInv, NEW kept, NEW defaults, Identity!Restart(kept, defaults)
    PROVE  ListInv'
<1>1. PICK edited : edited = Identity!Edited(kept, defaults)
    OBVIOUS
<1>2. PICK bare : bare = Identity!Bare(edited)
    OBVIOUS
<1>3. Identity!Bootstrap(edited)
    BY <1>1 DEF Identity!Restart
<1>4. edited = [i \in kept |-> [iList[i] EXCEPT !.isDefault = i \in defaults]]
    BY <1>1 DEF Identity!Edited
<1>5. bare = {a \in iAccounts : Identity!OfAccount(edited, a) = {}}
    BY <1>2 DEF Identity!Bare
<1>6. kept \subseteq DOMAIN iList /\ iAccounts' = iAccounts
    BY DEF Identity!Restart
<1>7. iNext \in Nat \ {0} /\ ListOK(iList, iNext)
    BY DEF ListInv
<1>8. ListOK(edited, iNext) /\ \A a : Identity!OfAccount(edited, a) = Identity!OfAccount(iList, a) \cap kept
  <2>1. ASSUME NEW i \in kept PROVE Alike(edited[i], iList[i])
    <3>1. PICK b \in BOOLEAN : b <=> i \in defaults
        OBVIOUS
    <3>2. edited[i] = [iList[i] EXCEPT !.isDefault = b]
        BY <1>4, <3>1
    <3> QED BY <1>6, <1>7, <3>2, AlikeFlag
  <2>2. edited = [i \in kept |-> edited[i]]
      BY <1>4
  <2> QED BY <1>6, <1>7, <2>1, <2>2, Without
<1>9. PICK settled : settled = Identity!Settled(edited)
    OBVIOUS
<1>10. ListOK(settled, iNext) /\ Chosen(settled) /\ \A a : Identity!OfAccount(settled, a) = Identity!OfAccount(edited, a)
    BY <1>8, <1>9, SettledIs
<1>11. \A a : Identity!OfAccount(edited, a) # {} <=> a \in iAccounts \ bare
    BY <1>5, <1>8 DEF ListInv
<1>12. CASE bare = {}
  <2>1. iList' = settled /\ iNext' = iNext
      BY <1>2, <1>3, <1>9, <1>12 DEF Identity!Bootstrap
  <2> QED BY <1>6, <1>7, <1>10, <1>11, <1>12, <2>1 DEF ListInv
<1>13. CASE bare # {}
  <2>1. PICK a \in iAccounts :
            bare = {a} /\ iNext' = iNext + 1 /\ iList' = Identity!Seeded(settled, iNext, a)
      BY <1>2, <1>3, <1>9, <1>13 DEF Identity!Bootstrap
  <2>2. Identity!OfAccount(settled, a) = {} /\ a \in IdAccounts
    <3>1. PICK i \in DOMAIN iList : iList[i].account = a
        BY <1>5, <2>1 DEF ListInv, Identity!OfAccount
    <3> QED BY <1>5, <1>7, <1>10, <2>1, <3>1, ListTypes
  <2>3. iList' = Identity!Build(settled, iNext, a, TRUE, Identity!Unsigned, "below-body")
      BY <2>1, <2>2, SeededIs
  <2>4. PICK n, m, wanted, built : n = iNext /\ m = iNext' /\ wanted = TRUE /\ built = iList'
      OBVIOUS
  <2>5. n \in Nat \ {0} /\ m = n + 1 /\ ListOK(settled, n)
        /\ built = Identity!Build(settled, n, a, wanted, Identity!Unsigned, "below-body")
      BY <1>7, <1>10, <2>1, <2>3, <2>4
  <2>6. Identity!Unsigned \in Blocks /\ "below-body" \in Identity!Placements /\ wanted \in BOOLEAN
      BY <2>4 DEF Blocks, Identity!Placements
  <2>7. ListOK(built, m) /\ Chosen(built)
         /\ \A b : Identity!OfAccount(built, b) # {} <=> b = a \/ Identity!OfAccount(settled, b) # {}
      BY <1>10, <2>2, <2>5, <2>6, BuildOK, SMTT(30)
  <2>8. \A b : Identity!OfAccount(built, b) # {} <=> b \in iAccounts
      BY <1>5, <1>10, <1>11, <2>1, <2>7
  <2>9. iNext' \in Nat \ {0} /\ ListOK(iList', iNext') /\ Chosen(iList')
    <3>1. iNext' \in Nat \ {0}
        BY <2>4, <2>5
    <3>2. ListOK(iList', iNext') /\ Chosen(iList')
        BY <2>4, <2>7
    <3> QED BY <3>1, <3>2
  <2>10. \A b : b \in iAccounts' <=> Identity!OfAccount(iList', b) # {}
      BY <1>6, <2>4, <2>8
  <2> QED BY <2>9, <2>10 DEF ListInv
<1> QED BY <1>12, <1>13

-----------------------------------------------------------------------------
LEMMA BodyRests ==
    ASSUME BodyInv, iKept' = iKept,
           DOMAIN iCompose' = DOMAIN iCompose, iCompose'.at = iCompose.at, iCompose'.body = iCompose.body,
           iCompose'.appliedSignature = iCompose.appliedSignature
    PROVE  BodyInv'
BY DEF BodyInv, Identity!Copied

LEMMA ListTaken ==
    ASSUME BodyInv, NEW list, Identity!TakeOver(list), iKept' = iKept
    PROVE  BodyInv'
<1>1. /\ DOMAIN iCompose' = DOMAIN iCompose /\ iCompose'.at = iCompose.at /\ iCompose'.body = iCompose.body
      /\ iCompose'.appliedSignature = iCompose.appliedSignature
    BY DEF BodyInv, ComposeFields, Identity!TakeOver
<1> QED BY <1>1, BodyRests

LEMMA Nothing == DOMAIN Identity!Closed = ComposeFields /\ Identity!Closed.at = "nowhere"
                 /\ Identity!Closed.body = <<>> /\ Identity!Closed.appliedSignature = Identity!Unsigned
BY DEF Identity!Closed, ComposeFields

LEMMA BodyCloses == ASSUME iCompose' = Identity!Closed, iKept' = <<>> PROVE BodyInv'
<1>1. <<>> \in Seq(Paragraphs) /\ Identity!Unsigned \in Blocks
    BY DEF Blocks
<1>2. iCompose'.at # "composer"
    BY Nothing
<1> QED BY <1>1, <1>2, Nothing DEF BodyInv

LEMMA BodyStart == Identity!IdentityInit => BodyInv
<1> SUFFICES ASSUME Identity!IdentityInit PROVE BodyInv
    OBVIOUS
<1>1. <<>> \in Seq(Paragraphs) /\ Identity!Unsigned \in Blocks
    BY DEF Blocks
<1>2. iCompose = Identity!Closed /\ iKept = <<>>
    BY DEF Identity!IdentityInit
<1> QED BY <1>1, <1>2, Nothing DEF BodyInv

(* A composer opens with a body and the signature of one identity.         *)
LEMMA BodyBegins ==
    ASSUME ListInv, NEW a, NEW i, i = Identity!Nobody \/ i \in DOMAIN iList,
           NEW body \in Seq(Paragraphs), NEW quoted, Identity!Begin(a, i, body, quoted)
    PROVE  BodyInv'
<1>1. PICK signed : signed = IF i = Identity!Nobody THEN body
                             ELSE Identity!ApplySignature(body, iList[i], quoted, Identity!Unsigned)
    OBVIOUS
<1>2. PICK applied : applied = Identity!Signature(iList, i)
    OBVIOUS
<1>3. /\ iCompose' = [at |-> "composer", account |-> a, identity |-> i, body |-> signed,
                      quoteMarker |-> quoted, appliedSignature |-> applied]
      /\ iKept' = body
    BY <1>1, <1>2 DEF Identity!Begin
<1>4. applied \in Blocks
    BY <1>2, ListTypes DEF ListInv, Identity!Signature, Blocks
<1>5. signed \in Seq(Paragraphs) /\ (Identity!Range(body) \cap Signatures = {} => Identity!Strip(signed, applied) = body)
  <2>1. CASE i = Identity!Nobody
      BY <1>1, <1>2, <2>1, StripStays DEF Identity!Signature
  <2>2. CASE i # Identity!Nobody
    <3>1. iList[i].signature \in Blocks /\ applied = iList[i].signature
        BY <1>2, <2>2, ListTypes DEF ListInv, Identity!Signature
    <3>2. Identity!Strip(body, Identity!Unsigned) = body
        BY StripStays
    <3>3. signed \in Seq(Paragraphs)
        BY <1>1, <2>2, <3>1, SignedBody
    <3> QED BY <1>1, <2>2, <3>1, <3>2, <3>3, SignatureApplied
  <2> QED BY <2>1, <2>2
<1>6. /\ DOMAIN iCompose' = ComposeFields /\ iCompose'.body = signed /\ iCompose'.appliedSignature = applied
    BY <1>3 DEF ComposeFields
<1> QED BY <1>3, <1>4, <1>5, <1>6 DEF BodyInv, Identity!Copied

LEMMA DefaultIs ==
    ASSUME ListInv, NEW a
    PROVE  Identity!DefaultFor(iList, a) \in DOMAIN iList \cup {Identity!Nobody}
<1>1. CASE Identity!OfAccount(iList, a) = {}
    BY <1>1 DEF Identity!DefaultFor
<1>2. CASE Identity!OfAccount(iList, a) # {}
  <2>1. Identity!First(iList, Identity!OfAccount(iList, a)) \in Identity!OfAccount(iList, a)
      BY <1>2, FirstIs DEF ListInv
  <2> QED BY <1>2, <2>1 DEF Identity!DefaultFor, Identity!OfAccount
<1> QED BY <1>1, <1>2

LEMMA ResolveIs ==
    ASSUME ListInv, NEW a, NEW i
    PROVE  Identity!Resolve(iList, a, i) \in DOMAIN iList \cup {Identity!Nobody}
BY DefaultIs DEF Identity!Resolve, Identity!OfAccount

LEMMA ForReplyIs ==
    ASSUME ListInv, NEW a, NEW to, NEW cc
    PROVE  Identity!ForReply(iList, a, to, cc) \in DOMAIN iList \cup {Identity!Nobody}
<1>1. PICK addressed : addressed = IF Identity!OfAccount(iList, a) \cap to # {} THEN to ELSE cc
    OBVIOUS
<1>2. Identity!ForReply(iList, a, to, cc) =
        IF Identity!OfAccount(iList, a) \cap addressed # {}
        THEN Identity!First(iList, Identity!OfAccount(iList, a) \cap addressed) ELSE Identity!DefaultFor(iList, a)
    BY <1>1 DEF Identity!ForReply
<1>3. CASE Identity!OfAccount(iList, a) \cap addressed = {}
    BY <1>2, <1>3, DefaultIs
<1>4. ASSUME Identity!OfAccount(iList, a) \cap addressed # {}
      PROVE  Identity!ForReply(iList, a, to, cc) \in DOMAIN iList
  <2>1. PICK ids : ids = Identity!OfAccount(iList, a) \cap addressed
      OBVIOUS
  <2>2. Identity!First(iList, ids) \in ids
      BY <1>4, <2>1, FirstIs DEF ListInv
  <2> QED BY <1>2, <1>4, <2>1, <2>2 DEF Identity!OfAccount
<1> QED BY <1>3, <1>4

LEMMA Quoted == <<>> \in Seq(Paragraphs) /\ <<"marker", "quote">> \in Seq(Paragraphs)
BY DEF Paragraphs

LEMMA NewBegins == ASSUME ListInv, NEW a, Identity!New(a) PROVE BodyInv'
<1>1. PICK i : i = Identity!Resolve(iList, a, Identity!Nobody)
    OBVIOUS
<1>2. i = Identity!Nobody \/ i \in DOMAIN iList
    BY <1>1, ResolveIs
<1>3. Identity!Begin(a, i, <<>>, Identity!NoQuote)
    BY <1>1 DEF Identity!New
<1> QED BY <1>2, <1>3, BodyBegins, Quoted

LEMMA ReplyBegins == ASSUME ListInv, NEW a, Identity!Reply(a) PROVE BodyInv'
<1>1. PICK to, cc : Identity!Begin(a, Identity!ForReply(iList, a, to, cc), <<"marker", "quote">>, "marker")
    BY DEF Identity!Reply
<1>2. PICK i : i = Identity!ForReply(iList, a, to, cc)
    OBVIOUS
<1>3. i = Identity!Nobody \/ i \in DOMAIN iList
    BY <1>2, ForReplyIs
<1> QED BY <1>1, <1>2, <1>3, BodyBegins, Quoted

LEMMA ForwardBegins ==
    ASSUME ListInv, NEW a, NEW signed \in Seq(Signatures), Identity!Forward(a, signed)
    PROVE  BodyInv'
<1>1. PICK i : i = Identity!Resolve(iList, a, Identity!Nobody)
    OBVIOUS
<1>2. i = Identity!Nobody \/ i \in DOMAIN iList
    BY <1>1, ResolveIs
<1>3. PICK body : body = <<"marker", "quote">> \o signed
    OBVIOUS
<1>4. body \in Seq(Paragraphs)
  <2>1. signed \in Seq(Paragraphs)
      BY DEF Paragraphs
  <2> QED BY <1>3, <2>1, Quoted
<1>5. Identity!Begin(a, i, body, "marker")
    BY <1>1, <1>3 DEF Identity!Forward
<1> QED BY <1>2, <1>4, <1>5, BodyBegins

LEMMA TypedOn == ASSUME BodyInv, Identity!Type PROVE BodyInv'
<1>1. PICK w : w = "typed"
    OBVIOUS
<1>2. w \in Paragraphs
    BY <1>1 DEF Paragraphs
<1>3. /\ iCompose.at = "composer" /\ iCompose' = [iCompose EXCEPT !.body = <<w>> \o iCompose.body]
      /\ iKept' = <<w>> \o iKept
    BY <1>1 DEF Identity!Type
<1>4. /\ DOMAIN iCompose' = ComposeFields /\ iCompose'.at = iCompose.at
      /\ iCompose'.body = <<w>> \o iCompose.body /\ iCompose'.appliedSignature = iCompose.appliedSignature
    BY <1>3 DEF BodyInv, ComposeFields
<1>5. PICK body, kept, p : body = iCompose.body /\ kept = iKept /\ p = iCompose.appliedSignature
    OBVIOUS
<1>6. /\ body \in Seq(Paragraphs) /\ kept \in Seq(Paragraphs) /\ p \in Blocks
      /\ Identity!Range(kept) \cap Signatures = {} => Identity!Strip(body, p) = kept
    BY <1>3, <1>5 DEF BodyInv, Identity!Copied
<1>7. <<w>> \o body \in Seq(Paragraphs) /\ <<w>> \o kept \in Seq(Paragraphs)
    BY <1>2, <1>6
<1>8. PICK longer : longer = <<w>> \o kept
    OBVIOUS
<1>9. w \in Identity!Range(longer) /\ Identity!Range(kept) \subseteq Identity!Range(longer)
  <2>1. Len(longer) = Len(kept) + 1 /\ longer[1] = w /\ \A k \in 1..Len(kept) : longer[k + 1] = kept[k]
      BY <1>2, <1>6, <1>8
  <2>2. DOMAIN longer = 1..(Len(kept) + 1) /\ 1 \in DOMAIN longer /\ \A k \in 1..Len(kept) : k + 1 \in DOMAIN longer
      BY <1>6, <1>7, <1>8, <2>1
  <2>3. DOMAIN kept = 1..Len(kept)
      BY <1>6
  <2> QED BY <2>1, <2>2, <2>3 DEF Identity!Range
<1>10. ASSUME Identity!Range(longer) \cap Signatures = {} PROVE Identity!Strip(<<w>> \o body, p) = longer
  <2>1. Identity!Range(kept) \cap Signatures = {} /\ w \notin Signatures
      BY <1>9, <1>10
  <2>2. p # w
      BY <1>1, <1>6, <2>1 DEF Blocks, Identity!Unsigned
  <2>3. body \in Seq(Paragraphs) /\ Identity!Strip(body, p) = kept
      BY <1>6, <2>1
  <2>4. Identity!Strip(<<w>> \o body, p) = <<w>> \o Identity!Strip(body, p)
      BY <1>2, <2>2, <2>3, StripTyped
  <2> QED BY <1>8, <2>3, <2>4
<1> QED BY <1>3, <1>4, <1>5, <1>6, <1>7, <1>8, <1>10 DEF BodyInv, Identity!Copied

LEMMA QuoteCut == ASSUME BodyInv, NEW p \in {"marker", "quote"}, Identity!DeleteQuoted(p) PROVE BodyInv'
<1>1. p \notin Signatures /\ p # Identity!Unsigned
    BY IdentitiesAssumption DEF Identity!Unsigned
<1>2. PICK body, kept, s : body = iCompose.body /\ kept = iKept /\ s = iCompose.appliedSignature
    OBVIOUS
<1>3. /\ iCompose.at = "composer" /\ iCompose' = [iCompose EXCEPT !.body = Identity!Strip(body, p)]
      /\ iKept' = Identity!Strip(kept, p)
    BY <1>2 DEF Identity!DeleteQuoted
<1>4. /\ DOMAIN iCompose' = ComposeFields /\ iCompose'.at = iCompose.at
      /\ iCompose'.body = Identity!Strip(body, p) /\ iCompose'.appliedSignature = iCompose.appliedSignature
    BY <1>3 DEF BodyInv, ComposeFields
<1>5. /\ body \in Seq(Paragraphs) /\ kept \in Seq(Paragraphs) /\ s \in Blocks
      /\ Identity!Range(kept) \cap Signatures = {} => Identity!Strip(body, s) = kept
    BY <1>2, <1>3 DEF BodyInv, Identity!Copied
<1>6. Identity!Strip(body, p) \in Seq(Paragraphs) /\ Identity!Strip(kept, p) \in Seq(Paragraphs)
    BY <1>5, StripBody
<1>7. ASSUME Identity!Range(Identity!Strip(kept, p)) \cap Signatures = {}
      PROVE  Identity!Strip(Identity!Strip(body, p), s) = Identity!Strip(kept, p)
  <2>1. Identity!Range(kept) \cap Signatures = {}
    <3>1. ASSUME NEW x \in Identity!Range(kept), x \in Signatures PROVE FALSE
      <4>1. x # p
          BY <1>1, <3>1
      <4>2. x \in Identity!Range(Identity!Strip(kept, p))
          BY <1>5, <4>1, StripKeeps
      <4> QED BY <1>7, <3>1, <4>2
    <3> QED BY <3>1
  <2>2. p # s
      BY <1>1, <1>5 DEF Blocks
  <2>3. Identity!Strip(Identity!Strip(body, p), s) = Identity!Strip(Identity!Strip(body, s), p)
      BY <1>5, <2>2, StripCommutes
  <2> QED BY <1>5, <2>1, <2>3
<1> QED BY <1>2, <1>3, <1>4, <1>5, <1>6, <1>7 DEF BodyInv, Identity!Copied

LEMMA IdentitySelected == ASSUME ListInv, BodyInv, NEW i, Identity!SelectIdentity(i) PROVE BodyInv'
<1>1. PICK body, marker, previous : body = iCompose.body /\ marker = iCompose.quoteMarker
            /\ previous = iCompose.appliedSignature
    OBVIOUS
<1>2. PICK signed, applied : /\ signed = Identity!ApplySignature(body, iList[i], marker, previous)
                             /\ applied = Identity!Signature(iList, i)
    OBVIOUS
<1>3. /\ iCompose.at = "composer" /\ i \in DOMAIN iList /\ iKept' = iKept
      /\ iCompose' = [iCompose EXCEPT !.identity = i, !.appliedSignature = applied, !.body = signed]
    BY <1>1, <1>2 DEF Identity!SelectIdentity, Identity!OfAccount
<1>4. /\ DOMAIN iCompose' = ComposeFields /\ iCompose'.at = iCompose.at
      /\ iCompose'.body = signed /\ iCompose'.appliedSignature = applied
    BY <1>3 DEF BodyInv, ComposeFields
<1>5. /\ body \in Seq(Paragraphs) /\ iKept \in Seq(Paragraphs)
      /\ ~Identity!Copied => Identity!Strip(body, previous) = iKept
    BY <1>1, <1>3 DEF BodyInv
<1>6. iList[i].signature \in Blocks /\ applied = iList[i].signature
  <2>1. i # Identity!Nobody
      BY <1>3 DEF ListInv, ListOK, Identity!Nobody
  <2> QED BY <1>2, <1>3, <2>1, ListTypes DEF ListInv, Identity!Signature
<1>7. signed \in Seq(Paragraphs)
    BY <1>2, <1>5, <1>6, SignedBody
<1>8. ~Identity!Copied => Identity!Strip(signed, applied) = iKept
  <2>1. ASSUME ~Identity!Copied PROVE Identity!Strip(signed, applied) = iKept
    <3>1. Identity!Range(iKept) \cap Signatures = {} /\ iKept = Identity!Strip(body, previous)
        BY <1>5, <2>1 DEF Identity!Copied
    <3> QED BY <1>2, <1>5, <1>6, <3>1, SignatureApplied
  <2> QED BY <2>1
<1> QED BY <1>3, <1>4, <1>5, <1>6, <1>7, <1>8 DEF BodyInv, Identity!Copied

LEMMA DraftSaved == ASSUME BodyInv, Identity!SaveAndClose PROVE BodyInv'
<1>1. /\ iKept' = <<>>
      /\ iCompose' = [iCompose EXCEPT !.at = "drafts", !.quoteMarker = Identity!NoQuote,
                                      !.appliedSignature = Identity!Unsigned]
    BY DEF Identity!SaveAndClose
<1>2. /\ DOMAIN iCompose' = ComposeFields /\ iCompose'.at = "drafts"
      /\ iCompose'.body = iCompose.body /\ iCompose'.appliedSignature = Identity!Unsigned
    BY <1>1 DEF BodyInv, ComposeFields
<1> QED BY <1>1, <1>2, Quoted DEF BodyInv, Blocks

LEMMA DraftOpened == ASSUME ListInv, BodyInv, Identity!OpenDraft PROVE BodyInv'
<1>1. PICK s \in Identity!Recovered(iList, iCompose.account, iCompose.body) :
          /\ iCompose' = [iCompose EXCEPT !.at = "composer", !.appliedSignature = s,
                             !.quoteMarker = Identity!Following(iCompose.body, s)]
          /\ iKept' = Identity!Strip(iCompose.body, s)
    BY DEF Identity!OpenDraft
<1>2. s \in Blocks
  <2>1. PICK own : own = {iList[i].signature : i \in Identity!OfAccount(iList, iCompose.account)} \ {Identity!Unsigned}
      OBVIOUS
  <2>2. own \subseteq Blocks
      BY <2>1, ListTypes DEF ListInv, Identity!OfAccount
  <2>3. s \in own \cup {Identity!Unsigned}
      BY <2>1 DEF Identity!Recovered
  <2> QED BY <2>2, <2>3 DEF Blocks
<1>3. /\ DOMAIN iCompose' = ComposeFields
      /\ iCompose'.body = iCompose.body /\ iCompose'.appliedSignature = s
    BY <1>1 DEF BodyInv, ComposeFields
<1>4. iCompose.body \in Seq(Paragraphs)
    BY DEF BodyInv
<1>5. Identity!Strip(iCompose.body, s) \in Seq(Paragraphs)
    BY <1>4, StripBody
<1> QED BY <1>1, <1>2, <1>3, <1>4, <1>5 DEF BodyInv

-----------------------------------------------------------------------------
(* A step of the identities, action by action.                             *)
LEMMA IdentityStep == ASSUME IdentityInv, Identity!IdentityNext PROVE IdentityInv'
<1>1. ListInv /\ BodyInv
    BY DEF IdentityInv
<1>2. /\ Signatures \cup {Identity!Unsigned} = Blocks
      /\ \A signed \in {<<>>} \cup {<<s>> : s \in Signatures} : signed \in Seq(Signatures)
  <2>1. <<>> \in Seq(Signatures) /\ \A s \in Signatures : <<s>> \in Seq(Signatures)
      OBVIOUS
  <2> QED BY <2>1 DEF Blocks
<1>3. ASSUME NEW a \in IdAccounts, Identity!AddAccount(a) PROVE IdentityInv'
  <2>1. BodyInv'
    <3>1. PICK list : Identity!TakeOver(list) /\ iKept' = iKept
        BY <1>3 DEF Identity!AddAccount
    <3> QED BY <1>1, <3>1, ListTaken
  <2> QED BY <1>1, <1>3, <2>1, AccountAdded DEF IdentityInv
<1>4. ASSUME NEW a \in IdAccounts, Identity!RemoveAccount(a) PROVE IdentityInv'
  <2>1. BodyInv'
    <3>1. CASE iCompose.account = a
      <4>1. iCompose' = Identity!Closed /\ iKept' = <<>>
          BY <1>4, <3>1 DEF Identity!RemoveAccount
      <4> QED BY <4>1, BodyCloses
    <3>2. CASE iCompose.account # a
      <4>1. iCompose' = iCompose /\ iKept' = iKept
          BY <1>4, <3>2 DEF Identity!RemoveAccount
      <4> QED BY <1>1, <4>1, BodyRests
    <3> QED BY <3>1, <3>2
  <2> QED BY <1>1, <1>4, <2>1, AccountRemoved DEF IdentityInv
<1>5. ASSUME NEW a \in IdAccounts, Identity!New(a) \/ Identity!Reply(a) PROVE IdentityInv'
  <2>1. UNCHANGED <<iAccounts, iList, iNext>>
      BY <1>5 DEF Identity!New, Identity!Reply, Identity!Begin
  <2> QED BY <1>1, <1>5, <2>1, ListRests, NewBegins, ReplyBegins DEF IdentityInv
<1>6. ASSUME NEW a \in IdAccounts, NEW signed \in Seq(Signatures), Identity!Forward(a, signed)
      PROVE  IdentityInv'
  <2>1. UNCHANGED <<iAccounts, iList, iNext>>
      BY <1>6 DEF Identity!Forward, Identity!Begin
  <2> QED BY <1>1, <1>6, <2>1, ListRests, ForwardBegins DEF IdentityInv
<1>7. ASSUME NEW a \in IdAccounts, NEW s \in Blocks, NEW p \in Identity!Placements,
             Identity!CreateIdentity(a, s, p)
      PROVE  IdentityInv'
  <2>1. BodyInv'
    <3>1. PICK list : Identity!TakeOver(list) /\ iKept' = iKept
        BY <1>7 DEF Identity!CreateIdentity
    <3> QED BY <1>1, <3>1, ListTaken
  <2> QED BY <1>1, <1>7, <2>1, IdentityCreated DEF IdentityInv
<1>8. ASSUME NEW i, NEW s \in Blocks, NEW p \in Identity!Placements, Identity!EditIdentity(i, s, p)
      PROVE  IdentityInv'
  <2>1. BodyInv'
    <3>1. PICK list : Identity!TakeOver(list) /\ iKept' = iKept
        BY <1>8 DEF Identity!EditIdentity
    <3> QED BY <1>1, <3>1, ListTaken
  <2> QED BY <1>1, <1>8, <2>1, IdentityEdited DEF IdentityInv
<1>9. ASSUME NEW i, Identity!DeleteIdentity(i) \/ Identity!SetDefaultIdentity(i) PROVE IdentityInv'
  <2>1. BodyInv'
    <3>1. PICK list : Identity!TakeOver(list) /\ iKept' = iKept
        BY <1>9 DEF Identity!DeleteIdentity, Identity!SetDefaultIdentity
    <3> QED BY <1>1, <3>1, ListTaken
  <2> QED BY <1>1, <1>9, <2>1, IdentityDeleted, DefaultSet DEF IdentityInv
<1>10. ASSUME NEW i, Identity!SelectIdentity(i) PROVE IdentityInv'
  <2>1. UNCHANGED <<iAccounts, iList, iNext>>
      BY <1>10 DEF Identity!SelectIdentity
  <2> QED BY <1>1, <1>10, <2>1, ListRests, IdentitySelected DEF IdentityInv
<1>11. ASSUME NEW kept, NEW defaults, Identity!Restart(kept, defaults) PROVE IdentityInv'
  <2>1. BodyInv'
    <3>1. iCompose' = iCompose /\ iKept' = iKept
        BY <1>11 DEF Identity!Restart
    <3> QED BY <1>1, <3>1, BodyRests
  <2> QED BY <1>1, <1>11, <2>1, Restarted DEF IdentityInv
<1>12. ASSUME NEW p \in {"marker", "quote"}, Identity!DeleteQuoted(p) PROVE IdentityInv'
  <2>1. UNCHANGED <<iAccounts, iList, iNext>>
      BY <1>12 DEF Identity!DeleteQuoted
  <2> QED BY <1>1, <1>12, <2>1, ListRests, QuoteCut DEF IdentityInv
<1>13. ASSUME Identity!Type PROVE IdentityInv'
  <2>1. UNCHANGED <<iAccounts, iList, iNext>>
      BY <1>13 DEF Identity!Type
  <2> QED BY <1>1, <1>13, <2>1, ListRests, TypedOn DEF IdentityInv
<1>14. ASSUME Identity!SaveAndClose PROVE IdentityInv'
  <2>1. UNCHANGED <<iAccounts, iList, iNext>>
      BY <1>14 DEF Identity!SaveAndClose
  <2> QED BY <1>1, <1>14, <2>1, ListRests, DraftSaved DEF IdentityInv
<1>15. ASSUME Identity!OpenDraft PROVE IdentityInv'
  <2>1. UNCHANGED <<iAccounts, iList, iNext>>
      BY <1>15 DEF Identity!OpenDraft
  <2> QED BY <1>1, <1>15, <2>1, ListRests, DraftOpened DEF IdentityInv
<1>16. ASSUME Identity!Discard PROVE IdentityInv'
  <2>1. UNCHANGED <<iAccounts, iList, iNext>> /\ iCompose' = Identity!Closed /\ iKept' = <<>>
      BY <1>16 DEF Identity!Discard
  <2> QED BY <1>1, <2>1, ListRests, BodyCloses DEF IdentityInv
<1>17. \/ \E a \in IdAccounts :
            \/ Identity!AddAccount(a) \/ Identity!RemoveAccount(a) \/ Identity!New(a) \/ Identity!Reply(a)
            \/ \E s \in Blocks, p \in Identity!Placements : Identity!CreateIdentity(a, s, p)
            \/ \E signed \in Seq(Signatures) : Identity!Forward(a, signed)
       \/ \E i :
            \/ Identity!DeleteIdentity(i) \/ Identity!SetDefaultIdentity(i) \/ Identity!SelectIdentity(i)
            \/ \E s \in Blocks, p \in Identity!Placements : Identity!EditIdentity(i, s, p)
       \/ \E kept, defaults : Identity!Restart(kept, defaults)
       \/ \E p \in {"marker", "quote"} : Identity!DeleteQuoted(p)
       \/ Identity!Type \/ Identity!SaveAndClose \/ Identity!OpenDraft \/ Identity!Discard
    BY <1>2, Zenon DEF Identity!IdentityNext
<1> QED BY <1>3, <1>4, <1>5, <1>6, <1>7, <1>8, <1>9, <1>10, <1>11, <1>12, <1>13, <1>14, <1>15, <1>16, <1>17, Zenon

LEMMA IdentityRests == ASSUME IdentityInv, UNCHANGED identityVars PROVE IdentityInv'
<1>1. UNCHANGED <<iAccounts, iList, iNext>> /\ iCompose' = iCompose /\ iKept' = iKept
    BY DEF identityVars
<1> QED BY <1>1, ListRests, BodyRests DEF IdentityInv

(* What is wanted of the identities follows.                               *)
LEMMA IdentityInvSound == IdentityInv => IdentitiesSound
<1> SUFFICES ASSUME IdentityInv PROVE IdentitiesSound
    OBVIOUS
<1>1. ListInv /\ BodyInv
    BY DEF IdentityInv
<1>2. ASSUME NEW a \in iAccounts
      PROVE  Identity!Cardinality({i \in Identity!OfAccount(iList, a) : iList[i].isDefault}) = 1
  <2>1. PICK i \in Identity!OfAccount(iList, a) :
            iList[i].isDefault /\ \A j \in Identity!OfAccount(iList, a) : iList[j].isDefault => j = i
      BY <1>1 DEF ListInv, Chosen
  <2>2. {j \in Identity!OfAccount(iList, a) : iList[j].isDefault} = {i}
      BY <2>1
  <2>3. Identity!Cardinality({i}) = Cardinality({i})
      BY Zenon DEF Identity!Cardinality, Cardinality
  <2> QED BY <2>2, <2>3, FS_Singleton
<1>3. Identity!OneDefault
    BY <1>2 DEF Identity!OneDefault
<1>4. ASSUME ~Identity!Copied, iCompose.at = "composer", iCompose.body # iKept
      PROVE  \E k \in DOMAIN iCompose.body :
                iCompose.body[k] = iCompose.appliedSignature /\ Identity!RemoveAt(iCompose.body, k) = iKept
  <2>1. PICK body, p : body = iCompose.body /\ p = iCompose.appliedSignature
      OBVIOUS
  <2>2. body \in Seq(Paragraphs) /\ Identity!Strip(body, p) = iKept
      BY <1>1, <1>4, <2>1 DEF BodyInv
  <2>3. p # Identity!Unsigned /\ p \in Identity!Range(body)
      BY <1>4, <2>1, <2>2, StripStays
  <2>4. PICK k : k = Identity!LastOf(body, p)
      OBVIOUS
  <2>5. k \in 1..Len(body) /\ body[k] = p
      BY <2>2, <2>3, <2>4, LastIs
  <2>6. Identity!RemoveAt(body, k) = iKept
      BY <2>2, <2>3, <2>4 DEF Identity!Strip
  <2> QED BY <2>1, <2>2, <2>5, <2>6
<1>5. Identity!TextKeptButCopies
    BY <1>4 DEF Identity!TextKeptButCopies, Identity!TextKept
<1> QED BY <1>3, <1>5 DEF IdentitiesSound

(* However identities are made, edited, deleted, promoted and edited into  *)
(* the file, an account has one default; and however often a composer      *)
(* switches between identities, is typed into, closed and opened again,    *)
(* its body is the user's text and the quote with at most one block of a   *)
(* signature, unless the quote holds such a block itself (identities.ts,   *)
(* applySignature and stripSignature; identity-store.ts).                  *)
THEOREM IdentitiesStaySound == EditorsSpec => []IdentitiesSound
<1>1. EditorsInit => IdentityInv
  <2>1. ASSUME EditorsInit PROVE ListInv /\ BodyInv
    <3>1. Identity!IdentityInit
        BY <2>1 DEF EditorsInit
    <3> QED BY <3>1, ListStart, BodyStart
  <2> QED BY <2>1 DEF IdentityInv
<1>2. IdentityInv /\ [EditorsNext]_editorVars => IdentityInv'
  <2> SUFFICES ASSUME IdentityInv, [EditorsNext]_editorVars PROVE IdentityInv'
      OBVIOUS
  <2>1. Identity!IdentityNext \/ UNCHANGED identityVars
    <3>1. CASE EditorsNext
        BY <3>1 DEF EditorsNext
    <3>2. CASE UNCHANGED editorVars
        BY <3>2 DEF editorVars
    <3> QED BY <3>1, <3>2
  <2> QED BY <2>1, IdentityStep, IdentityRests
<1>3. IdentityInv => IdentitiesSound
    BY IdentityInvSound
<1> QED BY <1>1, <1>2, <1>3, PTL DEF EditorsSpec
=============================================================================
