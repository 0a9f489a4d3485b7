---------------------------- MODULE MCSignatures ----------------------------
(* Model values for the runs of Signatures.                                *)
EXTENDS Signatures, TLC

CONSTANTS h1, h2, s1, s2, m1, m2

TwoHosts == {h1, h2}
TwoSeeds == {s1, s2}
OneMessage == {m1}
TwoMessages == {m1, m2}

\* Nothing names a host, a key or a message.
Symmetry ==
    Permutations(TwoHosts) \cup Permutations(TwoSeeds)
      \cup Permutations(TwoMessages)
=============================================================================
