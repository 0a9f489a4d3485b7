----------------------------- MODULE Signatures -----------------------------
(***************************************************************************)
(* Ed25519 keys and signatures on their way through uint256 and uint512,   *)
(* from the host that generates a pair and signs, over its wallet and the  *)
(* wire, to the hosts that verify and that derive a mini proof-of-work     *)
(* seed.  SignUtils.h lets OpenSSL write raw bytes over the words, and     *)
(* everything else reads the words as integers.                            *)
(*                                                                         *)
(* Ed25519, SHA-256 and HMAC are symbols: their output names their input.  *)
(* The code does one thing to the bytes of such an output, to reverse      *)
(* those of every word, so a string of bytes is what it came from and      *)
(* whether its words are reversed.                                         *)
(***************************************************************************)
EXTENDS Integers, FiniteSets

CONSTANTS
    Hosts,
    Seeds,         \* private keys, one per generation: bounds the generations
    Messages,
    MaxSent,       \* bound on the blocks ever sent
    OpenSSLFails   \* may a call to OpenSSL fail?

ASSUME SignaturesAssumption == MaxSent \in Nat /\ OpenSSLFails \in BOOLEAN

VARIABLES
    order,    \* the byte order of each host
    keys,     \* the pair in its memory
    wallet,   \* the pair in its files
    msg,      \* the buffer of its last sign_buffer_ed25519
    sig,      \* out of that call
    held,     \* the block it last received
    verdict,  \* of its last verification of that block
    used,     \* private keys generated so far
    sent,     \* blocks on the wire, for ever
    signed,   \* history: private key and message of each signature made
    failed    \* history: OpenSSL failed in the last verification

vars == <<order, keys, wallet, msg, sig, held, verdict, used, sent,
          signed, failed>>
atHost == <<msg, sig, held, verdict, failed>>

Orders == {"little", "big"}

-----------------------------------------------------------------------------
(* Bytes.                                                                  *)

Raw(x) == [of |-> x, reversed |-> FALSE]
Zero == Raw(<<"zero">>)

Reversed(b) == IF b = Zero THEN b ELSE [b EXCEPT !.reversed = ~@]

\* Mutant: htole64 for htobe64.
SerializedLittle(o, b) == IF o = "big" THEN Reversed(b) ELSE b

\* uint256_serialize_be, uint512_serialize_be and back: the same on a host.
Serialized(o, b) == IF o = "little" THEN Reversed(b) ELSE b
Deserialized(o, b) == Serialized(o, b)

Secret(s) == Raw(<<"private", s>>)
PublicOf(k) == Raw(<<"public", k>>)
Signature(k, m) == Raw(<<"signature", k, m>>)
Sha256(in) == Raw(<<"sha256", in>>)

NoKeys == [priv |-> Zero, pub |-> Zero]
Nothing == [msg |-> Zero, pub |-> Zero, hash |-> Zero, sig |-> Zero]

\* The private key that these bytes, of a public key or of a signature, come
\* from.
Owner(b) == b.of[2].of[2]

-----------------------------------------------------------------------------
Init ==
    /\ order \in [Hosts -> Orders]
    /\ keys = [h \in Hosts |-> NoKeys]
    /\ wallet = [h \in Hosts |-> NoKeys]
    /\ msg = [h \in Hosts |-> Zero]
    /\ sig = [h \in Hosts |-> Zero]
    /\ held = [h \in Hosts |-> Nothing]
    /\ verdict = [h \in Hosts |-> "none"]
    /\ used = {}
    /\ sent = {}
    /\ signed = {}
    /\ failed = [h \in Hosts |-> FALSE]

\* GenerateSignKeys zeroes the pair, and leaves it zero when it fails.
Generate(h, s) ==
    /\ s \notin used
    /\ used' = used \cup {s}
    /\ keys' = [keys EXCEPT ![h] =
                  [priv |-> Secret(s), pub |-> PublicOf(Secret(s))]]
    /\ UNCHANGED <<order, wallet, atHost, sent, signed>>

GenerateFails(h) ==
    /\ OpenSSLFails
    /\ keys' = [keys EXCEPT ![h] = NoKeys]
    /\ UNCHANGED <<order, wallet, atHost, used, sent, signed>>

-----------------------------------------------------------------------------
(* The wallet, and a restart.                                              *)

Save(h) ==
    /\ keys[h] # NoKeys
    /\ wallet' = [wallet EXCEPT ![h] =
                    [f \in {"priv", "pub"} |-> Serialized(order[h], keys[h][f])]]
    /\ UNCHANGED <<order, keys, atHost, used, sent, signed>>

\* Mutant: the private key is copied, not deserialized.
LoadRaw(h) ==
    /\ wallet[h] # NoKeys
    /\ keys' = [keys EXCEPT ![h] =
                  [priv |-> wallet[h].priv,
                   pub |-> Deserialized(order[h], wallet[h].pub)]]
    /\ UNCHANGED <<order, wallet, atHost, used, sent, signed>>

Load(h) ==
    /\ wallet[h] # NoKeys
    /\ keys' = [keys EXCEPT ![h] =
                  [f \in {"priv", "pub"} |->
                      Deserialized(order[h], wallet[h][f])]]
    /\ UNCHANGED <<order, wallet, atHost, used, sent, signed>>

Restart(h) ==
    /\ keys' = [keys EXCEPT ![h] = NoKeys]
    /\ msg' = [msg EXCEPT ![h] = Zero]
    /\ sig' = [sig EXCEPT ![h] = Zero]
    /\ held' = [held EXCEPT ![h] = Nothing]
    /\ verdict' = [verdict EXCEPT ![h] = "none"]
    /\ failed' = [failed EXCEPT ![h] = FALSE]
    /\ UNCHANGED <<order, wallet, used, sent, signed>>

-----------------------------------------------------------------------------
(* Signing, and a block that carries the signature with the certificate.   *)

\* The key is serialized; what OpenSSL returns is copied over the words.
Sign(h, m) ==
    /\ keys[h] # NoKeys
    /\ msg' = [msg EXCEPT ![h] = m]
    /\ sig' = [sig EXCEPT ![h] =
                 Signature(Serialized(order[h], keys[h].priv), m)]
    /\ signed' = signed \cup {<<Owner(keys[h].pub), m>>}
    /\ UNCHANGED <<order, keys, wallet, held, verdict, used, sent, failed>>

\* out was zeroed, whatever it held.
SignFails(h, m) ==
    /\ OpenSSLFails
    /\ keys[h] # NoKeys
    /\ msg' = [msg EXCEPT ![h] = m]
    /\ sig' = [sig EXCEPT ![h] = Zero]
    /\ UNCHANGED <<order, keys, wallet, held, verdict, used, sent,
                   signed, failed>>

\* block_serialize, for a caller that may not look at what Sign returned.
\* CurrentCertHash is the hash of the certificate as it is serialized.
Send(h) ==
    /\ keys[h] # NoKeys
    /\ msg[h] # Zero
    /\ Cardinality(sent) < MaxSent
    /\ LET cert == Serialized(order[h], keys[h].pub) IN
       sent' = sent \cup
                 {[msg |-> msg[h], pub |-> cert,
                   hash |-> Serialized(order[h], Sha256(cert)),
                   sig |-> Serialized(order[h], sig[h])]}
    /\ UNCHANGED <<order, keys, wallet, atHost, used, signed>>

\* block_deserialize: a block may come late, again, or never.
Receive(h, b) ==
    /\ held' = [held EXCEPT ![h] =
                  [f \in DOMAIN b |->
                      IF f = "msg" THEN b[f] ELSE Deserialized(order[h], b[f])]]
    /\ verdict' = [verdict EXCEPT ![h] = "none"]
    /\ failed' = [failed EXCEPT ![h] = FALSE]
    /\ UNCHANGED <<order, keys, wallet, msg, sig, used, sent, signed>>

-----------------------------------------------------------------------------
(* Verification.                                                           *)

\* EVP_DigestVerify: 1 if some private key has this public key and made this
\* signature of this message.
Matches(key, m, s) ==
    \E k \in {Secret(x) : x \in Seeds} \cup {Reversed(Secret(x)) : x \in Seeds} :
        key = PublicOf(k) /\ s = Signature(k, m)

\* Mutant: a negative result, an error, is taken for a yes.
NotRefused(ok) == ok # 0
Accepted(ok) == ok = 1

Verify(h) ==
    /\ held[h] # Nothing
    /\ LET ok == IF Matches(Serialized(order[h], held[h].pub), held[h].msg,
                            held[h].sig) THEN 1 ELSE 0
       IN  verdict' = [verdict EXCEPT ![h] =
                         IF Accepted(ok) THEN "valid" ELSE "invalid"]
    /\ failed' = [failed EXCEPT ![h] = FALSE]
    /\ UNCHANGED <<order, keys, wallet, msg, sig, held, used, sent, signed>>

\* EVP_DigestVerify may return -1, and ok is still 0 when
\* EVP_DigestVerifyInit has failed.
VerifyFails(h) ==
    /\ OpenSSLFails
    /\ held[h] # Nothing
    /\ \E ok \in {-1, 0} :
         verdict' = [verdict EXCEPT ![h] =
                       IF Accepted(ok) THEN "valid" ELSE "invalid"]
    /\ failed' = [failed EXCEPT ![h] = TRUE]
    /\ UNCHANGED <<order, keys, wallet, msg, sig, held, used, sent, signed>>

\* No key or no context: OP_INVALID_INPUT from the status form (false from
\* the other one).
NoContext(h) ==
    /\ OpenSSLFails
    /\ held[h] # Nothing
    /\ verdict' = [verdict EXCEPT ![h] = "error"]
    /\ failed' = [failed EXCEPT ![h] = TRUE]
    /\ UNCHANGED <<order, keys, wallet, msg, sig, held, used, sent, signed>>

-----------------------------------------------------------------------------
(* mini_pow_seed_gen on the certificate and hash of the block.             *)

\* Mutant: the structures are hashed as they lie in memory.
AsInMemory(o, b) == <<b.pub, b.hash>>
SeedInput(o, b) == <<Serialized(o, b.pub), Serialized(o, b.hash)>>

mini_pow_seed_gen(o, b) == Sha256(SeedInput(o, b))

-----------------------------------------------------------------------------
Step(h) ==
    \/ \E s \in Seeds : Generate(h, s)
    \/ GenerateFails(h)
    \/ Save(h) \/ Load(h) \/ Restart(h)
    \/ \E m \in Messages : Sign(h, m) \/ SignFails(h, m)
    \/ Send(h)
    \/ \E b \in sent : Receive(h, b)
    \/ Verify(h) \/ VerifyFails(h) \/ NoContext(h)

Next == \E h \in Hosts : Step(h)

Spec == Init /\ [][Next]_vars

-----------------------------------------------------------------------------
(* Properties.                                                             *)

Pairs == {NoKeys} \cup
         {[priv |-> Secret(s), pub |-> PublicOf(Secret(s))] : s \in Seeds}

\* The type of the state.  A pair in memory is OpenSSL's bytes as they were
\* generated, whatever it has been through.
TypeOK ==
    /\ order \in [Hosts -> Orders]
    /\ keys \in [Hosts -> Pairs]
    /\ \A h \in Hosts :
         wallet[h] = NoKeys
           \/ \E k \in Pairs : \A f \in {"priv", "pub"} :
                 wallet[h][f] = Serialized(order[h], k[f])
    /\ msg \in [Hosts -> Messages \cup {Zero}]
    /\ \A h \in Hosts : sig[h] = Zero \/ Owner(sig[h]) \in used
    /\ \A h \in Hosts : held[h] = Nothing \/ held[h].msg \in Messages
    /\ verdict \in [Hosts -> {"none", "valid", "invalid", "error"}]
    /\ \A h \in Hosts : held[h] = Nothing => verdict[h] = "none"
    /\ used \subseteq Seeds
    /\ Cardinality(sent) <= MaxSent
    /\ signed \subseteq Seeds \X Messages
    /\ failed \in [Hosts -> BOOLEAN]

\* No block passes verification, whatever fails and on whatever hosts, unless
\* the owner of the certificate's key has signed that message.
VerifiedWasSigned ==
    \A h \in Hosts :
        verdict[h] = "valid" => <<Owner(held[h].pub), held[h].msg>> \in signed

\* The signature is one that the owner of the certificate made.
Genuine(b) == b.sig # Zero /\ Owner(b.sig) = Owner(b.pub)

RightVerdict(h) ==
    held[h] # Nothing /\ Genuine(held[h]) /\ verdict[h] = "invalid" => failed[h]

\* "true if signature is valid, false otherwise": a genuine signature is
\* refused only when OpenSSL fails.
SignedVerifies == \A h \in Hosts : RightVerdict(h)

\* So it is among big-endian hosts, over restarts and reloads, late and
\* repeated blocks.
BigEndianVerifies ==
    (\A h \in Hosts : order[h] = "big") => SignedVerifies

\* A host that signs, restarts, loads its keys from the wallet and signs
\* again is the same peer: same certificate, same signature of a message.
SameIdentityAfterRestart ==
    \A a, b \in sent :
        Genuine(a) /\ Genuine(b) /\ Owner(a.pub) = Owner(b.pub) /\ a.msg = b.msg
            => a = b

\* The certificates a host has: the one of the block it holds, and its own.
Own(h) == [pub |-> keys[h].pub, hash |-> Sha256(Serialized(order[h], keys[h].pub))]

Certificates(h) ==
    {b \in {held[h]} : b # Nothing} \cup {b \in {Own(h)} : keys[h] # NoKeys}

\* Whoever derives a seed from a host's certificate and its hash, the host
\* itself or one that has received them, derives the same, whatever the byte
\* orders, over reloads and restarts.
SeedsAgree ==
    \A g, h \in Hosts : \A a \in Certificates(g), b \in Certificates(h) :
        Owner(a.pub) = Owner(b.pub) =>
            mini_pow_seed_gen(order[g], a) = mini_pow_seed_gen(order[h], b)
=============================================================================
