----------------------------- MODULE MCPayments ------------------------------
(* Instances of Payments: a few rounds, wallets in place.                  *)
EXTENDS Payments, TLC

CONSTANTS m1, m2, m3, w1, w2, w3, w4, A

\* The rounds of one circle pay m3.
ToM3 == [r \in Rounds |-> m3]
OneCircle == [r \in Rounds |-> A]

OwnWallets == [m \in Members |-> CASE m = m1 -> w1 [] m = m2 -> w2 [] OTHER -> w3]
AllOptedIn == [m \in Members |-> [reminders |-> TRUE, optIn |-> TRUE]]
NoneOptedIn == [m \in Members |-> [reminders |-> TRUE, optIn |-> FALSE]]
M1OptedIn == [m \in Members |-> [reminders |-> TRUE, optIn |-> m = m1]]
RunSymmetry == Permutations(Observers)
=============================================================================
