----------------------------- MODULE MCRegistry -----------------------------
(* Small instances of Registry.                                            *)
EXTENDS Registry, TLC

CONSTANTS r1, r2, r3, r4, n1, n2, f1, f2

FourRequests == {r1, r2, r3, r4}
TwoNetworks == {n1, n2}
TwoProfiles == {f1, f2}
\* Nothing refuses a negative count.
SomeCounts == {-1, 0}
TwoIds == {1, 2}
RequestSymmetry == Permutations(FourRequests) \cup Permutations(TwoNetworks)
                     \cup Permutations(TwoProfiles)
=============================================================================
