\* The structures that contain a certificate.
SPECIFICATION Spec
CONSTANTS
    Formats <- WithCertificate
    Slack <- Exactly
INVARIANTS
    EveryFieldIsOnTheWire
CHECK_DEADLOCK FALSE
