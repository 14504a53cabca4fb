----------------------------- MODULE MCAccounts -----------------------------
(* Instances of Accounts for TLC.                                          *)
EXTENDS Accounts, TLC

CONSTANTS a1, a2, e1, u1, u2

(* Calls are interchangeable.                                              *)
CallSymmetry == Permutations(Adders) \cup Permutations(Users)
=============================================================================
