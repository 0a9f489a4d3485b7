\* Nothing fails: is every genuine signature accepted?
SPECIFICATION Spec
CONSTANTS
    h1 = h1  h2 = h2  s1 = s1  s2 = s2  m1 = m1  m2 = m2
    Hosts <- TwoHosts
    Seeds <- TwoSeeds
    Messages <- TwoMessages
    MaxSent = 1
    OpenSSLFails = FALSE
INVARIANTS
    SignedVerifies
SYMMETRY Symmetry
