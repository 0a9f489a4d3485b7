------------------------------ MODULE MCWallet ------------------------------
(* Model values for the runs of Wallet.                                    *)
EXTENDS Wallet, TLC

CONSTANTS p1, p2, k1, k2, w1, w2

TwoProcesses == {p1, p2}
TwoPairs == {k1, k2}
TwoPasswords == {w1, w2}

\* Processes, pairs and passwords are given: nothing names one of them.
Symmetry == Permutations(TwoProcesses) \cup Permutations(TwoPairs)
              \cup Permutations(TwoPasswords)
=============================================================================
