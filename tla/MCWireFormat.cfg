\* Every structure, on hosts of either byte order.
SPECIFICATION Spec
CONSTANTS
    Formats <- Structures
    Slack <- OneMoreOrLess
INVARIANTS
    TypeOK StaysInBuffer OnlyCertificateEndIsLost CertificateEndIsLost
    ValuesSurvive
CHECK_DEADLOCK FALSE
