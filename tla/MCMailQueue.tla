----------------------------- MODULE MCMailQueue -----------------------------
(***************************************************************************)
(* Four instances of MailQueue for TLC, one to a behaviour: two sends of   *)
(* two texts with saves of the draft meanwhile, two flag or move requests  *)
(* over two mailbox generations, and sends behind a flag or move request   *)
(* with lost answers, or with a death of the process.                      *)
(***************************************************************************)
EXTENDS MailQueue

VARIABLE instance

Texts == INSTANCE MailQueue WITH MaxOps <- 0, MaxGens <- 1, MaxDoubts <- 0
Pending == INSTANCE MailQueue WITH MaxTexts <- 0, MaxIds <- 0, MaxDoubts <- 0, MaxCrashes <- 0
Mixed == INSTANCE MailQueue WITH MaxTexts <- 1, MaxIds <- 0, MaxOps <- 1, MaxGens <- 1, MaxCrashes <- 0, MaxRetries <- 2
Restart == INSTANCE MailQueue WITH MaxTexts <- 1, MaxIds <- 0, MaxOps <- 1, MaxGens <- 1, MaxDoubts <- 0, MaxRetries <- 0

QueueInit == Init /\ instance \in {"texts", "pending", "mixed", "restart"}
QueueNext ==
    /\ \/ instance = "texts" /\ Texts!Next
       \/ instance = "pending" /\ Pending!Next
       \/ instance = "mixed" /\ Mixed!Next
       \/ instance = "restart" /\ Restart!Next
    /\ UNCHANGED instance
(* Network calls time out, so a running flight keeps moving.               *)
Flies(a) ==
    /\ \/ instance = "texts" /\ Texts!FlightStep(a)
       \/ instance = "pending" /\ Pending!FlightStep(a)
       \/ instance = "mixed" /\ Mixed!FlightStep(a)
       \/ instance = "restart" /\ Restart!FlightStep(a)
    /\ UNCHANGED instance
QueueSpec ==
    /\ QueueInit /\ [][QueueNext]_<<vars, instance>>
    /\ \A a \in Accounts : WF_<<vars, instance>>(Flies(a))

=============================================================================
