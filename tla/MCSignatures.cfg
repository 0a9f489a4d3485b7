\* Two hosts, each of either byte order, with failures and restarts.
SPECIFICATION Spec
CONSTANTS
    h1 = h1  h2 = h2  s1 = s1  s2 = s2  m1 = m1  m2 = m2
    Hosts <- TwoHosts
    Seeds <- TwoSeeds
    Messages <- OneMessage
    MaxSent = 2
    OpenSSLFails = TRUE
INVARIANTS
    TypeOK VerifiedWasSigned BigEndianVerifies SameIdentityAfterRestart
    SeedsAgree
SYMMETRY Symmetry
