----------------------------- MODULE WireFormat -----------------------------
(***************************************************************************)
(* NetworkSerialization.h: a host writes a structure into a caller's       *)
(* buffer, field by field at the offsets of the code, and another host, of *)
(* the same or the other byte order, reads the buffer back.                *)
(*                                                                         *)
(* Values are abstracted to where their bytes come from: a byte of the     *)
(* buffer, or of the structure read, is <<field, j>>, the byte at index j  *)
(* of that field in the sender's memory.                                   *)
(***************************************************************************)
EXTENDS Integers, Sequences, Functions

CONSTANTS
    Formats,   \* the structures exchanged in this instance
    Slack      \* how much larger than needed the callers' buffers are

VARIABLES
    fmt,      \* the structure
    from, to, \* the byte orders of the two hosts
    room,     \* size of the buffer, out_size and in_size
    phase,
    step,     \* the field the code is at
    buf,      \* the bytes written, by offset
    obj       \* the fields read

vars == <<fmt, from, to, room, phase, step, buf, obj>>

Hosts == {"little", "big"}

-----------------------------------------------------------------------------
(* Layouts: a sequence of fields with the offset the code computes for     *)
(* each, its width, and the width of the words whose bytes htobe reorders  *)
(* (1: copied with memcpy).                                                *)

Field(f, a, w, u) == [field |-> <<f>>, at |-> a, width |-> w, unit |-> u]

\* The fields of a nested structure written at an offset.
Within(a, s, fs) ==
    [i \in 1..Len(fs) |->
        [field |-> <<s, fs[i].field>>, at |-> fs[i].at + a,
         width |-> fs[i].width, unit |-> fs[i].unit]]

UINT32_SIZE == 4
UINT64_SIZE == 8
UINT256_SIZE == 32
UINT512_SIZE == 64
IPV6_SIZE == 16

\* CERT_SIZE and BLOCK_SIZE as they are defined, not as they add up.
CERT_SIZE == 1 + 2 * UINT256_SIZE + 3
BLOCK_SIZE == CERT_SIZE + 2 * UINT256_SIZE + UINT512_SIZE + 2 * UINT64_SIZE + 4
MINI_POW_RESULT_SERIALIZED_SIZE == 12
TIER_POW_RESULT_SERIALIZED_SIZE == 76
TIER_POW_CHALLENGE_SIZE == UINT256_SIZE + 1 + UINT64_SIZE + 3
TIER_POW_SOLVE_SIZE == UINT64_SIZE + 1 + UINT64_SIZE + 3

Uint256 == <<Field("w", 0, UINT256_SIZE, 8)>>
Uint512 == <<Field("w", 0, UINT512_SIZE, 8)>>

Uint256Pair == <<Field("a", 0, UINT256_SIZE, 8),
                 Field("b", UINT256_SIZE, UINT256_SIZE, 8)>>

Ipv6 == <<Field("address", 0, IPV6_SIZE, 1)>>

Certificate ==
    <<Field("pubSignKey", 0, UINT256_SIZE, 8),
      Field("pubEncKey", UINT256_SIZE, UINT256_SIZE, 8),
      Field("id", 2 * UINT256_SIZE, IPV6_SIZE, 1),
      Field("reserved", 2 * UINT256_SIZE + IPV6_SIZE, 3, 1)>>

\* Mutant: challenge_id is written over complexity.
TierPowSolvePacked ==
    <<Field("nonce", 0, UINT64_SIZE, 8),
      Field("complexity", UINT64_SIZE, 1, 1),
      Field("challenge_id", UINT64_SIZE, UINT64_SIZE, 8),
      Field("reserved", UINT64_SIZE + UINT64_SIZE, 3, 1)>>

TierPowSolve ==
    <<Field("nonce", 0, UINT64_SIZE, 8),
      Field("complexity", UINT64_SIZE, 1, 1),
      Field("challenge_id", UINT64_SIZE + 1, UINT64_SIZE, 8),
      Field("reserved", UINT64_SIZE + 1 + UINT64_SIZE, 3, 1)>>

TierPowChallenge ==
    <<Field("challenge", 0, UINT256_SIZE, 8),
      Field("complexity", UINT256_SIZE, 1, 1),
      Field("challenge_id", UINT256_SIZE + 1, UINT64_SIZE, 8),
      Field("reserved", UINT256_SIZE + 1 + UINT64_SIZE, 3, 1)>>

TierPowResult ==
    <<Field("tier", 0, 1, 1), Field("reserved", 1, 3, 1)>>
      \o Within(4, "challenge", TierPowChallenge)
      \o Within(48, "solve", TierPowSolve)
      \o <<Field("time_taken", 68, 8, 8)>>

TierPowInputs ==
    Within(0, "challenge", TierPowChallenge)
      \o Within(TIER_POW_CHALLENGE_SIZE, "solve", TierPowSolve)

MiniPowResult ==
    <<Field("challengeid", 0, 4, 4), Field("sessionid", 4, 4, 4),
      Field("tier", 8, 1, 1), Field("isValid", 9, 1, 1),
      Field("reserved", 10, 2, 1)>>

BlockOwn ==
    LET sig == CERT_SIZE + 2 * UINT256_SIZE
        rest == sig + UINT512_SIZE IN
    <<Field("CurrentCertHash", CERT_SIZE, UINT256_SIZE, 8),
      Field("prevHash", CERT_SIZE + UINT256_SIZE, UINT256_SIZE, 8),
      Field("SignedByVerifier", sig, UINT512_SIZE, 8),
      Field("height", rest, UINT64_SIZE, 8),
      Field("timestamp", rest + UINT64_SIZE, UINT64_SIZE, 8),
      Field("tier", rest + 2 * UINT64_SIZE, 1, 1),
      Field("reserved", rest + 2 * UINT64_SIZE + 1, 3, 1)>>

Block ==
    Within(0, "cert", Certificate)
      \o BlockOwn
      \o Within(BLOCK_SIZE, "miniPowResult", MiniPowResult)
      \o Within(BLOCK_SIZE + MINI_POW_RESULT_SERIALIZED_SIZE,
                "tierPoWResult", TierPowResult)

\* What mini_pow_seed_gen hashes.
SeedOwn ==
    <<Field("lastBlockHash", CERT_SIZE, UINT256_SIZE, 8),
      Field("sessionId", CERT_SIZE + UINT256_SIZE, UINT32_SIZE, 4),
      Field("challengeID", CERT_SIZE + UINT256_SIZE + UINT32_SIZE,
            UINT32_SIZE, 4)>>

\* Mutant: the certificate is written last, over the hash.
SeedCertificateLast == SeedOwn \o Within(0, "cert", Certificate)
Seed == Within(0, "cert", Certificate) \o SeedOwn

Layout(f) ==
    CASE f = "uint256" -> Uint256
      [] f = "uint512" -> Uint512
      [] f = "pair" -> Uint256Pair
      [] f = "ipv6" -> Ipv6
      [] f = "cert" -> Certificate
      [] f = "solve" -> TierPowSolve
      [] f = "challenge" -> TierPowChallenge
      [] f = "tierResult" -> TierPowResult
      [] f = "inputs" -> TierPowInputs
      [] f = "miniResult" -> MiniPowResult
      [] f = "block" -> Block
      [] f = "seed" -> Seed

Structures ==
    {"uint256", "uint512", "pair", "ipv6", "cert", "solve", "challenge",
     "tierResult", "inputs", "miniResult", "block", "seed"}

ASSUME WireAssumption ==
    /\ Formats \subseteq Structures
    /\ Slack \subseteq Int

\* The sizes the functions compare out_size and in_size with.  That of
\* cert_serialize and cert_deserialize is not what a certificate takes.
Required(f) ==
    CASE f = "uint256" -> UINT256_SIZE
      [] f = "uint512" -> UINT512_SIZE
      [] f = "pair" -> 2 * UINT256_SIZE
      [] f = "ipv6" -> IPV6_SIZE
      [] f = "cert" -> CERT_SIZE
      [] f = "solve" -> TIER_POW_SOLVE_SIZE
      [] f = "challenge" -> TIER_POW_CHALLENGE_SIZE
      [] f = "tierResult" -> TIER_POW_RESULT_SERIALIZED_SIZE
      [] f = "inputs" -> TIER_POW_CHALLENGE_SIZE + TIER_POW_SOLVE_SIZE
      [] f = "miniResult" -> MINI_POW_RESULT_SERIALIZED_SIZE
      [] f = "block" -> BLOCK_SIZE + MINI_POW_RESULT_SERIALIZED_SIZE
                          + TIER_POW_RESULT_SERIALIZED_SIZE
      [] f = "seed" -> CERT_SIZE + UINT256_SIZE + 2 * UINT32_SIZE

\* Buffers that callers bring; mini_pow_seed_gen allocates its own, and no
\* room means that malloc failed.
Rooms(f) ==
    IF f = "seed" THEN {0, Required(f)}
    ELSE {n \in {Required(f) + d : d \in Slack} : n >= 0}

\* These are only hashed: nobody reads them back.
OneWay == {"pair", "seed"}

-----------------------------------------------------------------------------
(* Byte order.  htobe and betoh reverse the bytes of a word on a           *)
(* little-endian host and leave them on a big-endian one.                  *)

\* Mutant: the reversal is off by one.
ReversedPast(host, u, k) == IF host = "little" THEN u - k ELSE k
Reversed(host, u, k) == IF host = "little" THEN u - 1 - k ELSE k

\* Mutant: the le16toh family of deserialize_u16_def instead of be16toh.
AsLittleEndian(host, u, k) == IF host = "little" THEN k ELSE u - 1 - k
WireToHost(host, u, k) == Reversed(host, u, k)

\* How much the byte at index j of a field in memory weighs.  Words are in
\* "little-endian word order"; a byte array is not a number.
Weight(host, p, j) ==
    (j \div p.unit) * p.unit
      + (IF host = "little" THEN j % p.unit ELSE p.unit - 1 - (j % p.unit))

-----------------------------------------------------------------------------
Init ==
    /\ fmt \in Formats
    /\ from \in Hosts /\ to \in Hosts
    /\ room \in Rooms(fmt)
    /\ phase = "call"
    /\ step = 1
    /\ buf = <<>>
    /\ obj = <<>>

Piece == Layout(fmt)[step]
AtEnd == step > Len(Layout(fmt))

\* Mutant: the size check lets a buffer through that is one byte short.
OneShortFits == room >= Required(fmt) - 1
Fits == room >= Required(fmt)

\* Whether a field lies in the buffer; nothing checks it after Fits.
InRoom(p) == p.at + p.width <= room

\* OP_BUF_TOO_SMALL (or a failed malloc): nothing is written.
Refuse ==
    /\ phase = "call"
    /\ ~Fits
    /\ phase' = "refused"
    /\ UNCHANGED <<fmt, from, to, room, step, buf, obj>>

Serialize ==
    /\ phase = "call"
    /\ Fits
    /\ phase' = "writing"
    /\ UNCHANGED <<fmt, from, to, room, step, buf, obj>>

\* The bytes of the buffer that hold a field, and which byte of the sender's
\* field is put there.
Cells(p) == p.at..(p.at + p.width - 1)
ByteAt(p, a) ==
    LET k == a - p.at IN
    <<p.field, (k \div p.unit) * p.unit + Reversed(from, p.unit, k % p.unit)>>

Put ==
    /\ phase = "writing" /\ ~AtEnd
    /\ InRoom(Piece)
    /\ buf' = [a \in DOMAIN buf \cup Cells(Piece) |->
                 IF a \in Cells(Piece) THEN ByteAt(Piece, a) ELSE buf[a]]
    /\ step' = step + 1
    /\ UNCHANGED <<fmt, from, to, room, phase, obj>>

Send ==
    /\ phase = "writing" /\ AtEnd
    /\ phase' = "sent"
    /\ step' = 1
    /\ UNCHANGED <<fmt, from, to, room, buf, obj>>

\* The receiver's buffer need not be the size of the sender's: bytes that it
\* has no room for are lost.
Arrive ==
    /\ phase = "sent" /\ fmt \notin OneWay
    /\ room' \in Rooms(fmt)
    /\ buf' = Restrict(buf, {a \in DOMAIN buf : a < room'})
    /\ phase' = "arrived"
    /\ UNCHANGED <<fmt, from, to, step, obj>>

\* OP_BUF_TOO_SMALL again: nothing is read.
RefuseRead ==
    /\ phase = "arrived"
    /\ ~Fits
    /\ phase' = "unread"
    /\ UNCHANGED <<fmt, from, to, room, step, buf, obj>>

Deserialize ==
    /\ phase = "arrived"
    /\ Fits
    /\ phase' = "reading"
    /\ UNCHANGED <<fmt, from, to, room, step, buf, obj>>

\* Where the receiver finds the byte at index j of a field.
Bytes(p) == 0..(p.width - 1)
Source(p, j) ==
    p.at + (j \div p.unit) * p.unit + WireToHost(to, p.unit, j % p.unit)

Take ==
    /\ phase = "reading" /\ ~AtEnd
    /\ InRoom(Piece)
    /\ obj' = [f \in DOMAIN obj \cup {Piece.field} |->
                 IF f = Piece.field
                 THEN [j \in Bytes(Piece) |-> buf[Source(Piece, j)]]
                 ELSE obj[f]]
    /\ step' = step + 1
    /\ UNCHANGED <<fmt, from, to, room, phase, buf>>

Received ==
    /\ phase = "reading" /\ AtEnd
    /\ phase' = "received"
    /\ UNCHANGED <<fmt, from, to, room, step, buf, obj>>

\* The field at step reaches beyond the buffer; what the host does from there
\* is undefined.
Overrun ==
    /\ phase \in {"writing", "reading"} /\ ~AtEnd
    /\ ~InRoom(Piece)
    /\ phase' = "overrun"
    /\ UNCHANGED <<fmt, from, to, room, step, buf, obj>>

Next ==
    \/ Refuse \/ Serialize \/ Put \/ Send
    \/ Arrive
    \/ RefuseRead \/ Deserialize \/ Take \/ Received
    \/ Overrun

Spec == Init /\ [][Next]_vars

-----------------------------------------------------------------------------
(* Properties.                                                             *)

Pieces == Range(Layout(fmt))

\* The type of the state.
TypeOK ==
    /\ fmt \in Formats
    /\ {from, to} \subseteq Hosts
    /\ room \in Nat
    /\ phase \in {"call", "refused", "writing", "sent", "arrived", "unread",
                  "reading", "received", "overrun"}
    /\ step \in 1..(Len(Layout(fmt)) + 1)
    /\ \A a \in DOMAIN buf :
         \E p \in Pieces : buf[a] \in {p.field} \X Bytes(p)
    /\ \A f \in DOMAIN obj :
         \E p \in Pieces : f = p.field /\ DOMAIN obj[f] = Bytes(p)

\* What cert_serialize writes, "1 + 32 + 32 + 1+1+1 = 68" notwithstanding.
CertificateBytes == 2 * UINT256_SIZE + IPV6_SIZE + 3

\* A function that has checked out_size or in_size writes and reads inside the
\* buffer - but for cert_serialize and cert_deserialize, whose check lets
\* buffers pass that a certificate does not fit: those, and no others, they
\* overrun.  A serializer leaves no byte of the size it checked as it found it
\* (what is hashed, signed or sent has no uninitialized byte), and a refused
\* call has written or read nothing.
StaysInBuffer ==
    /\ phase = "overrun" => fmt = "cert" /\ room < CertificateBytes
    /\ phase \in {"sent", "received"} /\ fmt = "cert" => room >= CertificateBytes
    /\ phase = "sent" => 0..(Required(fmt) - 1) \subseteq DOMAIN buf
    /\ phase = "refused" => buf = <<>>
    /\ phase \in {"refused", "unread"} => obj = <<>>

OnTheWire(p, j) == <<p.field, j>> \in Range(buf)

\* "Full canonical serialization": when a serializer returns, each byte of
\* each field of the structure is somewhere in the buffer, so that what is
\* hashed, signed or sent depends on all of it.
EveryFieldIsOnTheWire ==
    phase = "sent" => \A p \in Pieces : \A j \in Bytes(p) : OnTheWire(p, j)

\* The bytes that the next field is put over, because cert_serialize writes
\* more than CERT_SIZE.
CertificateEnd(p, j) == p.field[1] = "cert" /\ p.at + j >= CERT_SIZE

\* Nothing else is ever lost: hand-written offsets and sizes make no other
\* two fields of any structure, nested ones included, overlap.
OnlyCertificateEndIsLost ==
    phase = "sent" =>
        \A p \in Pieces : \A j \in Bytes(p) :
            OnTheWire(p, j) \/ CertificateEnd(p, j)

\* And that end is always lost: no byte of it is left in a block that is hashed
\* or sent, nor in what a mini-PoW seed is drawn from, so that neither depends
\* on the last twelve bytes of the certificate's id.
CertificateEndIsLost ==
    phase = "sent" =>
        \A p \in Pieces : \A j \in Bytes(p) :
            CertificateEnd(p, j) => ~OnTheWire(p, j)

\* What one host reads is what the other one wrote: every field but the end
\* of a certificate, every word, with the same numeric value whatever the
\* byte orders of the two.
ValuesSurvive ==
    phase = "received" =>
        \A p \in Pieces : \A j \in Bytes(p) :
            CertificateEnd(p, j) \/ \E s \in Bytes(p) :
                /\ obj[p.field][j] = <<p.field, s>>
                /\ Weight(from, p, s) = Weight(to, p, j)
=============================================================================
