---------------------------- MODULE MCWireFormat ----------------------------
(* The structures and buffers of each run of WireFormat.                   *)
EXTENDS WireFormat

Exactly == {0}
\* Fifteen more: the certificate does fit.
OneMoreOrLess == {-1, 0, 1, 15}
WithCertificate == {"block", "seed"}
=============================================================================
