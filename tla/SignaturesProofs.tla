-------------------------- MODULE SignaturesProofs --------------------------
(***************************************************************************)
(* Theorems about Signatures, for any hosts of either byte order, key      *)
(* pairs, messages and number of blocks.                                   *)
(***************************************************************************)
EXTENDS Signatures, FiniteSetTheorems, TLAPS

\* The pair of a private key, and what its owner returns for a message: the
\* key is signed with as it is serialized.
Pair(s) == [priv |-> Secret(s), pub |-> PublicOf(Secret(s))]

Made(o, s, m) == Signature(Serialized(o, Secret(s)), m)

\* The block of a host that holds the pair of s, with g in memory.
Block(o, s, m, g) ==
    [msg |-> m, pub |-> Serialized(o, PublicOf(Secret(s))),
     hash |-> Serialized(o, Sha256(Serialized(o, PublicOf(Secret(s))))),
     sig |-> Serialized(o, g)]

\* A block as a host reads it from the wire.
Received(o, b) ==
    [f \in DOMAIN b |-> IF f = "msg" THEN b[f] ELSE Deserialized(o, b[f])]

-----------------------------------------------------------------------------
(* The inductive invariant.                                                *)

\* Every pair is where one host made it, and what is signed and sent under it
\* went through that host's byte order: at is the host of each private key.
KeysInv(at, h) ==
    keys[h] = NoKeys \/ \E s \in used : at[s] = h /\ keys[h] = Pair(s)

StoredInv(at, h) ==
    wallet[h] = NoKeys
      \/ \E s \in used :
           /\ at[s] = h
           /\ wallet[h] = [f \in {"priv", "pub"} |->
                             Serialized(order[h], Pair(s)[f])]

SigInv(at, h) ==
    sig[h] = Zero
      \/ \E s \in used :
           /\ at[s] = h
           /\ <<s, msg[h]>> \in signed
           /\ sig[h] = Made(order[h], s, msg[h])

HostInv(at) ==
    \A h \in Hosts : KeysInv(at, h) /\ StoredInv(at, h) /\ SigInv(at, h)

\* A block on the wire carries no signature, or one that a pair of the
\* sender has made of its message.
BlockInv(at, b) ==
    \E s \in used, m \in Messages :
        \/ b = Block(order[at[s]], s, m, Zero)
        \/ \E t \in used :
             /\ at[t] = at[s]
             /\ <<t, m>> \in signed
             /\ b = Block(order[at[s]], s, m, Made(order[at[s]], t, m))

MadeInv ==
    \E at \in [used -> Hosts] :
        HostInv(at) /\ \A b \in sent : BlockInv(at, b)

\* What OpenSSL compares, for the block that h holds.
Checks(h) ==
    Matches(Serialized(order[h], held[h].pub), held[h].msg, held[h].sig)

\* A verdict is about the block that is held, which came off the wire.
JudgedInv(h) ==
    /\ held[h] = Nothing => verdict[h] = "none"
    /\ held[h] = Nothing \/ \E b \in sent : held[h] = Received(order[h], b)
    /\ verdict[h] = "valid" => Checks(h)
    /\ verdict[h] = "invalid" /\ Checks(h) => failed[h]

VerdictInv ==
    \A h \in Hosts : JudgedInv(h)

\* The types, those of TypeOK that do not follow from where things come from.
SentInv ==
    /\ order \in [Hosts -> Orders]
    /\ keys \in [Hosts -> {NoKeys} \cup {Pair(s) : s \in Seeds}]
    /\ DOMAIN wallet = Hosts /\ DOMAIN sig = Hosts /\ DOMAIN held = Hosts
    /\ msg \in [Hosts -> Messages \cup {Zero}]
    /\ verdict \in [Hosts -> {"none", "valid", "invalid", "error"}]
    /\ failed \in [Hosts -> BOOLEAN]
    /\ used \subseteq Seeds
    /\ signed \subseteq Seeds \X Messages
    /\ IsFiniteSet(sent) /\ Cardinality(sent) <= MaxSent

SignaturesInv == SentInv /\ MadeInv /\ VerdictInv

-----------------------------------------------------------------------------
(* Bytes.                                                                  *)

\* Reversing the words of some bytes: what they came from stays.
LEMMA ReversedRaw ==
    ASSUME NEW x, x # <<"zero">>
    PROVE  /\ Raw(x) # Zero
           /\ Reversed(Raw(x)) = [of |-> x, reversed |-> TRUE]
           /\ Reversed(Reversed(Raw(x))) = Raw(x)
  <1>1. Raw(x) # Zero
    BY DEF Raw, Zero
  <1>2. Reversed(Raw(x)) = [of |-> x, reversed |-> TRUE]
    BY <1>1 DEF Raw, Reversed
  <1>3. [of |-> x, reversed |-> TRUE] # Zero
    BY DEF Zero, Raw
  <1>4. Reversed([of |-> x, reversed |-> TRUE]) = Raw(x)
    BY <1>3 DEF Reversed, Raw
  <1> QED BY <1>1, <1>2, <1>4

\* Zeroed words are the same in either byte order.
LEMMA ReversedZero == Reversed(Zero) = Zero
  BY DEF Reversed

\* What one host writes, and what another makes of it, comes from the same.
LEMMA SerializedIs ==
    ASSUME NEW o, NEW x
    PROVE  \/ Serialized(o, Raw(x)) = Raw(x)
           \/ Serialized(o, Raw(x)) = Reversed(Raw(x))
  BY DEF Serialized

\* Serializing does not change what bytes came from, and makes no zeros.
LEMMA SerializedOf ==
    ASSUME NEW o, NEW x, x # <<"zero">>
    PROVE  Serialized(o, Raw(x)).of = x /\ Serialized(o, Raw(x)) # Zero
  <1>1. Raw(x).of = x /\ Raw(x) # Zero
    BY ReversedRaw DEF Raw
  <1>2. Reversed(Raw(x)).of = x /\ Reversed(Raw(x)) # Zero
    <2>1. Reversed(Raw(x)) = [of |-> x, reversed |-> TRUE]
      BY ReversedRaw
    <2>2. [of |-> x, reversed |-> TRUE] # Zero
      BY DEF Zero, Raw
    <2> QED BY <2>1, <2>2
  <1> QED BY <1>1, <1>2, SerializedIs

\* Serializing undoes deserializing, and the other way round: a host gets
\* back the bytes that it wrote, whatever its order.
LEMMA SerializedTwice ==
    ASSUME NEW o, NEW x, NEW b, b = Raw(x) \/ b = Reversed(Raw(x))
    PROVE  Serialized(o, Serialized(o, b)) = b
  <1>1. Reversed(Reversed(b)) = b
    <2>1. CASE x = <<"zero">>
      <3>1. Raw(x) = Zero
        BY <2>1 DEF Zero
      <3> QED BY <3>1, ReversedZero
    <2>2. CASE x # <<"zero">>
      BY <2>2, ReversedRaw
    <2> QED BY <2>1, <2>2
  <1> QED BY <1>1 DEF Serialized

\* Keys, signatures and hashes are not zero, and name what they came from.
LEMMA Symbols ==
    ASSUME NEW k, NEW m
    PROVE  /\ <<"private", k>> # <<"zero">> /\ <<"public", k>> # <<"zero">>
           /\ <<"signature", k, m>> # <<"zero">> /\ <<"sha256", k>> # <<"zero">>
  OBVIOUS

\* A private key names the seed that made it.
LEMMA SameSecret ==
    ASSUME NEW k, NEW l, Secret(k) = Secret(l)
    PROVE  k = l
  BY DEF Secret, Raw

\* A public key names its private key.
LEMMA SamePublic ==
    ASSUME NEW k, NEW l, PublicOf(k) = PublicOf(l)
    PROVE  k = l
  BY DEF PublicOf, Raw

\* A signature names its key and its message.
LEMMA SameSignature ==
    ASSUME NEW k, NEW l, NEW m, NEW n, Signature(k, m) = Signature(l, n)
    PROVE  k = l /\ m = n
  BY DEF Signature, Raw

\* Whoever looks finds the private key that a public key or a signature came
\* from, in whatever order the bytes are.
LEMMA OwnerOf ==
    ASSUME NEW o, NEW p, NEW s, NEW m, NEW k, k = Serialized(p, Secret(s))
    PROVE  /\ Owner(Serialized(o, PublicOf(k))) = s
           /\ Owner(Serialized(o, Signature(k, m))) = s
           /\ Serialized(o, PublicOf(k)) # Zero
           /\ Serialized(o, Signature(k, m)) # Zero
  <1>1. k.of = <<"private", s>>
    BY SerializedOf, Symbols DEF Secret
  <1>2. /\ Serialized(o, PublicOf(k)).of = <<"public", k>>
        /\ Serialized(o, PublicOf(k)) # Zero
    BY SerializedOf, Symbols DEF PublicOf
  <1>3. /\ Serialized(o, Signature(k, m)).of = <<"signature", k, m>>
        /\ Serialized(o, Signature(k, m)) # Zero
    BY SerializedOf, Symbols DEF Signature
  <1> QED BY <1>1, <1>2, <1>3 DEF Owner

\* On a big-endian host the words hold the bytes as they are.
LEMMA BigIsRaw ==
    ASSUME NEW b
    PROVE  Serialized("big", b) = b
  BY DEF Serialized

\* A generated pair names its seed, and is not the empty pair.
LEMMA OwnerOfPair ==
    ASSUME NEW s
    PROVE  Owner(Pair(s).pub) = s /\ Pair(s) # NoKeys
  <1>1. Serialized("big", Secret(s)) = Secret(s)
        /\ Serialized("big", PublicOf(Secret(s))) = PublicOf(Secret(s))
    BY BigIsRaw
  <1>2. Owner(PublicOf(Secret(s))) = s /\ PublicOf(Secret(s)) # Zero
    BY <1>1, OwnerOf
  <1> QED BY <1>2 DEF Pair, NoKeys

\* A pair survives its files.
LEMMA LoadsWhatWasSaved ==
    ASSUME NEW o, NEW s, NEW w,
           w = [f \in {"priv", "pub"} |-> Serialized(o, Pair(s)[f])]
    PROVE  [f \in {"priv", "pub"} |-> Deserialized(o, w[f])] = Pair(s)
  <1>1. Serialized(o, Serialized(o, Secret(s))) = Secret(s)
    BY SerializedTwice DEF Secret
  <1>2. Serialized(o, Serialized(o, PublicOf(Secret(s)))) = PublicOf(Secret(s))
    BY SerializedTwice DEF PublicOf
  <1> QED BY <1>1, <1>2 DEF Pair, Deserialized

-----------------------------------------------------------------------------
(* The types.                                                              *)

\* The types hold at the start.
LEMMA InitSent ==
    ASSUME Init
    PROVE  SentInv
  BY FS_EmptySet, SignaturesAssumption DEF Init, SentInv

\* Every step keeps the types, and no host changes its byte order.
LEMMA StepKeepsSent ==
    ASSUME SentInv, MadeInv, NEW h \in Hosts, Step(h)
    PROVE  SentInv' /\ UNCHANGED order
  <1> USE DEF SentInv, atHost
  <1>1. ASSUME NEW s \in Seeds, Generate(h, s) PROVE SentInv' /\ UNCHANGED order
    BY <1>1 DEF Generate, Pair
  <1>2. CASE GenerateFails(h)
    BY <1>2 DEF GenerateFails
  <1>3. CASE Save(h)
    BY <1>3 DEF Save
  <1>4. CASE Load(h)
    <2>1. PICK at : HostInv(at)
      BY DEF MadeInv
    <2>2. PICK s \in used : wallet[h] = [f \in {"priv", "pub"} |->
                                          Serialized(order[h], Pair(s)[f])]
      BY <1>4, <2>1 DEF Load, HostInv, StoredInv
    <2>3. keys' = [keys EXCEPT ![h] = Pair(s)]
      <3>1. keys' = [keys EXCEPT ![h] = [f \in {"priv", "pub"} |->
                                           Deserialized(order[h], wallet[h][f])]]
        BY <1>4 DEF Load
      <3>2. [f \in {"priv", "pub"} |-> Deserialized(order[h], wallet[h][f])]
              = Pair(s)
        BY <2>2, LoadsWhatWasSaved
      <3> QED BY <3>1, <3>2
    <2>4. s \in Seeds
      OBVIOUS
    <2> QED BY <1>4, <2>3, <2>4 DEF Load
  <1>5. CASE Restart(h)
    BY <1>5 DEF Restart
  <1>6. ASSUME NEW m \in Messages, Sign(h, m) PROVE SentInv' /\ UNCHANGED order
    <2>1. PICK s \in Seeds : keys[h] = Pair(s)
      BY <1>6 DEF Sign
    <2>2. Owner(keys[h].pub) \in Seeds
      BY <2>1, OwnerOfPair
    <2>3. signed' \subseteq Seeds \X Messages
      BY <1>6, <2>2 DEF Sign
    <2>4. /\ msg' \in [Hosts -> Messages \cup {Zero}]
          /\ DOMAIN sig' = Hosts
      BY <1>6 DEF Sign
    <2> QED BY <1>6, <2>3, <2>4 DEF Sign
  <1>7. ASSUME NEW m \in Messages, SignFails(h, m)
        PROVE  SentInv' /\ UNCHANGED order
    BY <1>7 DEF SignFails
  <1>8. CASE Send(h)
    <2>1. PICK b : sent' = sent \cup {b}
      BY <1>8 DEF Send
    <2>2. /\ IsFiniteSet(sent') /\ Cardinality(sent') <= Cardinality(sent) + 1
          /\ Cardinality(sent) \in Nat /\ Cardinality(sent') \in Nat
      <3>1. /\ IsFiniteSet(sent \cup {b})
            /\ \/ Cardinality(sent \cup {b}) = Cardinality(sent)
               \/ Cardinality(sent \cup {b}) = Cardinality(sent) + 1
        BY FS_AddElement
      <3> QED BY <2>1, <3>1, FS_CardinalityType
    <2>3. Cardinality(sent') <= MaxSent
      BY <1>8, <2>2, SignaturesAssumption DEF Send
    <2> QED BY <1>8, <2>2, <2>3 DEF Send
  <1>9. ASSUME NEW b \in sent, Receive(h, b) PROVE SentInv' /\ UNCHANGED order
    BY <1>9 DEF Receive
  <1>10. CASE Verify(h)
    BY <1>10 DEF Verify
  <1>11. CASE VerifyFails(h)
    BY <1>11 DEF VerifyFails
  <1>12. CASE NoContext(h)
    BY <1>12 DEF NoContext
  <1> QED
    BY <1>1, <1>2, <1>3, <1>4, <1>5, <1>6, <1>7, <1>8, <1>9, <1>10, <1>11,
       <1>12 DEF Step

-----------------------------------------------------------------------------
(* Where pairs, signatures and blocks come from.                           *)

\* Private keys, signatures and blocks only grow in number, and a private key
\* keeps its host.
Grows(at, to) ==
    /\ used \subseteq used' /\ signed \subseteq signed'
    /\ \A s \in used : to[s] = at[s]
    /\ UNCHANGED order

\* So what is in memory, in the wallet and on the wire stays accounted for.
LEMMA BlocksStayMade ==
    ASSUME NEW at, NEW to, Grows(at, to), NEW b, BlockInv(at, b)
    PROVE  BlockInv(to, b)'
  <1>1. PICK s \in used, m \in Messages :
          \/ b = Block(order[at[s]], s, m, Zero)
          \/ \E t \in used :
               /\ at[t] = at[s]
               /\ <<t, m>> \in signed
               /\ b = Block(order[at[s]], s, m, Made(order[at[s]], t, m))
    BY DEF BlockInv
  <1>2. order'[to[s]] = order[at[s]] /\ s \in used'
    BY DEF Grows
  <1>3. CASE b = Block(order[at[s]], s, m, Zero)
    BY <1>2, <1>3 DEF BlockInv
  <1>4. CASE \E t \in used :
               /\ at[t] = at[s]
               /\ <<t, m>> \in signed
               /\ b = Block(order[at[s]], s, m, Made(order[at[s]], t, m))
    <2>1. PICK t \in used :
            /\ at[t] = at[s]
            /\ <<t, m>> \in signed
            /\ b = Block(order[at[s]], s, m, Made(order[at[s]], t, m))
      BY <1>4
    <2>2. t \in used' /\ to[t] = to[s] /\ <<t, m>> \in signed'
      BY <2>1 DEF Grows
    <2> QED BY <1>2, <2>1, <2>2 DEF BlockInv
  <1> QED BY <1>1, <1>3, <1>4

\* What a host holds stays accounted for when keys are added, as long as it
\* keeps the same things or none.
LEMMA HostsStayMade ==
    ASSUME NEW at, NEW to, Grows(at, to), NEW h
    PROVE  /\ KeysInv(at, h) /\ keys'[h] \in {keys[h], NoKeys} => KeysInv(to, h)'
           /\ StoredInv(at, h) /\ wallet'[h] = wallet[h] => StoredInv(to, h)'
           /\ SigInv(at, h) /\ sig'[h] = sig[h] /\ msg'[h] = msg[h]
                => SigInv(to, h)'
           /\ sig'[h] = Zero => SigInv(to, h)'
  BY DEF Grows, KeysInv, StoredInv, SigInv

\* Generation gives the new private key its host.
LEMMA GenerateKeepsMade ==
    ASSUME SentInv, MadeInv, NEW h \in Hosts, NEW s \in Seeds, Generate(h, s)
    PROVE  MadeInv'
  <1>1. PICK at \in [used -> Hosts] :
          HostInv(at) /\ \A b \in sent : BlockInv(at, b)
    BY DEF MadeInv
  <1>2. /\ s \notin used /\ used' = used \cup {s}
        /\ keys' = [keys EXCEPT ![h] = Pair(s)]
        /\ UNCHANGED <<order, wallet, msg, sig, sent, signed>>
    BY DEF Generate, atHost, Pair
  <1>3. PICK to \in [used' -> Hosts] :
          to[s] = h /\ \A t \in used : to[t] = at[t]
    <2> DEFINE f == [t \in used \cup {s} |-> IF t = s THEN h ELSE at[t]]
    <2>1. f \in [used' -> Hosts] /\ f[s] = h /\ \A t \in used : f[t] = at[t]
      BY <1>2
    <2> QED BY <2>1
  <1>4. Grows(at, to)
    BY <1>2, <1>3 DEF Grows
  <1>5. ASSUME NEW g \in Hosts
        PROVE  KeysInv(to, g)' /\ StoredInv(to, g)' /\ SigInv(to, g)'
    <2>1. KeysInv(at, g) /\ StoredInv(at, g) /\ SigInv(at, g)
      BY <1>1 DEF HostInv
    <2>2. StoredInv(to, g)' /\ SigInv(to, g)'
      BY <1>2, <1>4, <2>1, HostsStayMade
    <2>3. KeysInv(to, g)'
      <3>1. CASE g = h
        BY <1>2, <1>3, <3>1 DEF KeysInv, SentInv
      <3>2. CASE g # h
        BY <1>2, <1>4, <2>1, <3>2, HostsStayMade DEF SentInv
      <3> QED BY <3>1, <3>2
    <2> QED BY <2>2, <2>3
  <1>6. \A b \in sent' : BlockInv(to, b)'
    BY <1>1, <1>2, <1>4, BlocksStayMade
  <1> QED BY <1>3, <1>5, <1>6 DEF MadeInv, HostInv

\* A step of h, other than a generation, leaves pairs with their hosts.
LEMMA StepKeepsMade ==
    ASSUME SentInv, MadeInv, NEW h \in Hosts, Step(h)
    PROVE  MadeInv'
  <1> USE DEF SentInv, atHost
  <1>1. PICK at \in [used -> Hosts] :
          HostInv(at) /\ \A b \in sent : BlockInv(at, b)
    BY DEF MadeInv
  <1>2. ASSUME UNCHANGED <<order, used>>, signed \subseteq signed',
               \A b \in sent' : b \in sent \/ BlockInv(at, b)',
               \A g \in Hosts : \/ keys'[g] \in {keys[g], NoKeys}
                                \/ KeysInv(at, g)',
               \A g \in Hosts : wallet'[g] = wallet[g] \/ StoredInv(at, g)',
               \A g \in Hosts : \/ sig'[g] = Zero
                                \/ sig'[g] = sig[g] /\ msg'[g] = msg[g]
                                \/ SigInv(at, g)'
        PROVE  MadeInv'
    <2>1. Grows(at, at) /\ at \in [used' -> Hosts]
      BY <1>2 DEF Grows
    <2>2. \A b \in sent' : BlockInv(at, b)'
      BY <1>1, <1>2, <2>1, BlocksStayMade
    <2>3. \A g \in Hosts :
            KeysInv(at, g)' /\ StoredInv(at, g)' /\ SigInv(at, g)'
      BY <1>1, <1>2, <2>1, HostsStayMade DEF HostInv
    <2> QED BY <2>1, <2>2, <2>3 DEF MadeInv, HostInv
  <1>3. ASSUME NEW s \in Seeds, Generate(h, s) PROVE MadeInv'
    BY <1>3, GenerateKeepsMade
  <1>4. CASE GenerateFails(h) \/ Restart(h)
    <2>1. /\ UNCHANGED <<order, wallet, used, sent, signed>>
          /\ \A g \in Hosts : keys'[g] \in {keys[g], NoKeys}
      BY <1>4 DEF GenerateFails, Restart
    <2>2. ASSUME NEW g \in Hosts
          PROVE  \/ sig'[g] = Zero
                 \/ sig'[g] = sig[g] /\ msg'[g] = msg[g]
      <3>1. CASE g = h
        BY <1>4, <3>1 DEF GenerateFails, Restart
      <3>2. CASE g # h
        BY <1>4, <3>2 DEF GenerateFails, Restart
      <3> QED BY <3>1, <3>2
    <2> QED BY <1>2, <2>1, <2>2
  <1>5. CASE Save(h)
    <2>1. PICK s \in used : at[s] = h /\ keys[h] = Pair(s)
      BY <1>1, <1>5 DEF Save, HostInv, KeysInv
    <2>2. wallet'[h] = [f \in {"priv", "pub"} |-> Serialized(order[h], Pair(s)[f])]
      BY <1>5, <2>1 DEF Save
    <2>3. StoredInv(at, h)'
      BY <1>5, <2>1, <2>2 DEF Save, StoredInv
    <2>4. \A g \in Hosts : g # h => wallet'[g] = wallet[g]
      BY <1>5 DEF Save
    <2>5. UNCHANGED <<order, keys, msg, sig, used, sent, signed>>
      BY <1>5 DEF Save
    <2> QED BY <1>2, <2>3, <2>4, <2>5
  <1>6. CASE Load(h)
    <2>1. PICK s \in used :
            /\ at[s] = h
            /\ wallet[h] = [f \in {"priv", "pub"} |->
                              Serialized(order[h], Pair(s)[f])]
      BY <1>1, <1>6 DEF Load, HostInv, StoredInv
    <2>2. keys'[h] = Pair(s)
      BY <1>6, <2>1, LoadsWhatWasSaved DEF Load
    <2>3. KeysInv(at, h)'
      BY <1>6, <2>1, <2>2 DEF Load, KeysInv
    <2>4. \A g \in Hosts : g # h => keys'[g] = keys[g]
      BY <1>6 DEF Load
    <2>5. UNCHANGED <<order, wallet, msg, sig, used, sent, signed>>
      BY <1>6 DEF Load
    <2> QED BY <1>2, <2>3, <2>4, <2>5
  <1>7. ASSUME NEW m \in Messages, Sign(h, m) PROVE MadeInv'
    <2>1. PICK s \in used : at[s] = h /\ keys[h] = Pair(s)
      BY <1>1, <1>7 DEF Sign, HostInv, KeysInv
    <2>2. sig'[h] = Made(order[h], s, m) /\ msg'[h] = m
      BY <1>7, <2>1 DEF Sign, Made, Pair
    <2>3. signed' = signed \cup {<<s, m>>}
      BY <1>7, <2>1, OwnerOfPair DEF Sign
    <2>4. UNCHANGED <<order, keys, wallet, used, sent>>
      BY <1>7 DEF Sign
    <2>5. SigInv(at, h)'
      BY <2>1, <2>2, <2>3, <2>4 DEF SigInv
    <2>6. \A g \in Hosts : g # h => sig'[g] = sig[g] /\ msg'[g] = msg[g]
      BY <1>7 DEF Sign
    <2> QED BY <1>2, <2>3, <2>4, <2>5, <2>6
  <1>8. ASSUME NEW m \in Messages, SignFails(h, m) PROVE MadeInv'
    <2>1. UNCHANGED <<order, keys, wallet, used, sent, signed>>
      BY <1>8 DEF SignFails
    <2>2. ASSUME NEW g \in Hosts
          PROVE  \/ sig'[g] = Zero
                 \/ sig'[g] = sig[g] /\ msg'[g] = msg[g]
      <3>1. CASE g = h
        BY <1>8, <3>1 DEF SignFails
      <3>2. CASE g # h
        BY <1>8, <3>2 DEF SignFails
      <3> QED BY <3>1, <3>2
    <2> QED BY <1>2, <2>1, <2>2
  <1>9. CASE Send(h)
    <2>1. PICK s \in used : at[s] = h /\ keys[h] = Pair(s)
      BY <1>1, <1>9 DEF Send, HostInv, KeysInv
    <2>2. msg[h] \in Messages
      BY <1>9 DEF Send
    <2>3. sent' = sent \cup {Block(order[h], s, msg[h], sig[h])}
          /\ UNCHANGED <<order, keys, wallet, msg, sig, used, signed>>
      BY <1>9, <2>1 DEF Send, Block, Pair
    <2>4. SigInv(at, h)
      BY <1>1 DEF HostInv
    <2>5. BlockInv(at, Block(order[h], s, msg[h], sig[h]))'
      BY <2>1, <2>2, <2>3, <2>4 DEF BlockInv, SigInv
    <2> QED BY <1>2, <2>3, <2>5
  <1>10. ASSUME NEW b \in sent, Receive(h, b) PROVE MadeInv'
    BY <1>2, <1>10 DEF Receive
  <1>11. CASE Verify(h) \/ VerifyFails(h) \/ NoContext(h)
    BY <1>2, <1>11 DEF Verify, VerifyFails, NoContext
  <1> QED
    BY <1>3, <1>4, <1>5, <1>6, <1>7, <1>8, <1>9, <1>10, <1>11 DEF Step

-----------------------------------------------------------------------------
(* Verdicts.                                                               *)

\* A verdict stands until its host receives, verifies or restarts.
LEMMA VerdictStands ==
    ASSUME NEW h \in Hosts, JudgedInv(h), UNCHANGED order, sent \subseteq sent',
           held'[h] = held[h], verdict'[h] = verdict[h], failed'[h] = failed[h]
    PROVE  JudgedInv(h)'
  BY DEF JudgedInv, Checks

\* Every step keeps VerdictInv: only Receive, a verification and a
\* restart touch a verdict, each of its own host.
LEMMA StepKeepsVerdict ==
    ASSUME SentInv, VerdictInv, NEW h \in Hosts, Step(h), UNCHANGED order
    PROVE  VerdictInv'
  <1> USE DEF SentInv, atHost
  <1>1. ASSUME sent \subseteq sent', UNCHANGED <<held, verdict, failed>>
        PROVE  VerdictInv'
    BY <1>1, VerdictStands DEF VerdictInv
  <1>2. ASSUME sent' = sent, JudgedInv(h)',
               \A g \in Hosts : g # h => /\ held'[g] = held[g]
                                        /\ verdict'[g] = verdict[g]
                                        /\ failed'[g] = failed[g]
        PROVE  VerdictInv'
    BY <1>2, VerdictStands DEF VerdictInv
  <1>3. CASE \/ \E s \in Seeds : Generate(h, s)
             \/ GenerateFails(h)
             \/ Save(h) \/ Load(h)
             \/ \E m \in Messages : Sign(h, m) \/ SignFails(h, m)
             \/ Send(h)
    BY <1>1, <1>3 DEF Generate, GenerateFails, Save, Load, Sign, SignFails, Send
  <1>4. CASE Restart(h)
    <2>1. held'[h] = Nothing /\ verdict'[h] = "none"
      BY <1>4 DEF Restart
    <2>2. JudgedInv(h)'
      BY <2>1 DEF JudgedInv
    <2> QED BY <1>2, <1>4, <2>2 DEF Restart
  <1>5. ASSUME NEW b \in sent, Receive(h, b) PROVE VerdictInv'
    <2>1. held'[h] = Received(order[h], b) /\ verdict'[h] = "none"
      BY <1>5 DEF Receive, Received
    <2>2. b \in sent' /\ order' = order
      BY <1>5 DEF Receive
    <2>3. JudgedInv(h)'
      BY <2>1, <2>2 DEF JudgedInv
    <2> QED BY <1>2, <1>5, <2>3 DEF Receive
  <1>6. CASE Verify(h)
    <2>1. verdict'[h] = IF Checks(h) THEN "valid" ELSE "invalid"
      BY <1>6 DEF Verify, Checks, Accepted
    <2>2. UNCHANGED <<held, sent>> /\ held[h] # Nothing
      BY <1>6 DEF Verify
    <2>3. Checks(h)' = Checks(h)
      BY <2>2 DEF Checks
    <2>4. JudgedInv(h)'
      BY <2>1, <2>2, <2>3 DEF JudgedInv, VerdictInv
    <2> QED BY <1>2, <1>6, <2>4 DEF Verify
  <1>7. CASE VerifyFails(h) \/ NoContext(h)
    <2>1. verdict'[h] \in {"invalid", "error"} /\ failed'[h] = TRUE
      <3>1. CASE VerifyFails(h)
        BY <3>1 DEF VerifyFails, Accepted
      <3>2. CASE NoContext(h)
        BY <3>2 DEF NoContext
      <3> QED BY <1>7, <3>1, <3>2
    <2>2. UNCHANGED <<held, sent>> /\ held[h] # Nothing
      BY <1>7 DEF VerifyFails, NoContext
    <2>3. JudgedInv(h)'
      BY <2>1, <2>2 DEF JudgedInv, VerdictInv
    <2> QED BY <1>2, <1>7, <2>3 DEF VerifyFails, NoContext
  <1> QED BY <1>3, <1>4, <1>5, <1>6, <1>7 DEF Step

\* A stutter keeps the inductive invariant.
LEMMA StuttersKeepSignatures ==
    ASSUME SignaturesInv, UNCHANGED vars
    PROVE  SignaturesInv'
  <1>1. SentInv'
    BY DEF SignaturesInv, SentInv, vars
  <1>2. PICK at \in [used -> Hosts] :
          HostInv(at) /\ \A b \in sent : BlockInv(at, b)
    BY DEF SignaturesInv, MadeInv
  <1>3. HostInv(at)'
    BY <1>2 DEF vars, HostInv, KeysInv, StoredInv, SigInv
  <1>4. \A b \in sent' : BlockInv(at, b)'
    BY <1>2 DEF vars, BlockInv
  <1>5. MadeInv'
    BY <1>2, <1>3, <1>4 DEF vars, MadeInv
  <1>6. VerdictInv'
    BY VerdictStands DEF SignaturesInv, VerdictInv, vars
  <1> QED BY <1>1, <1>5, <1>6 DEF SignaturesInv

\* The inductive invariant holds at the start.
LEMMA InitSignatures ==
    ASSUME Init
    PROVE  SignaturesInv
  <1>1. SentInv
    BY InitSent
  <1>2. MadeInv
    <2>1. used = {} /\ sent = {}
          /\ \A h \in Hosts : keys[h] = NoKeys /\ wallet[h] = NoKeys /\ sig[h] = Zero
      BY DEF Init
    <2>2. PICK at : at \in [used -> Hosts]
      <3>1. [s \in {} |-> Hosts] \in [used -> Hosts]
        BY <2>1
      <3> QED BY <3>1
    <2>3. HostInv(at)
      BY <2>1 DEF HostInv, KeysInv, StoredInv, SigInv
    <2> QED BY <2>1, <2>2, <2>3 DEF MadeInv
  <1>3. VerdictInv
    BY DEF Init, VerdictInv, JudgedInv
  <1> QED BY <1>1, <1>2, <1>3 DEF SignaturesInv

\* The inductive invariant holds of every behaviour.
LEMMA SignaturesInvHolds == Spec => []SignaturesInv
  <1>1. SignaturesInv /\ [Next]_vars => SignaturesInv'
    <2> SUFFICES ASSUME SignaturesInv, [Next]_vars PROVE SignaturesInv'
      OBVIOUS
    <2>1. CASE Next
      <3>1. PICK h \in Hosts : Step(h)
        BY <2>1 DEF Next
      <3>2. SentInv' /\ UNCHANGED order
        BY <3>1, StepKeepsSent DEF SignaturesInv
      <3>3. MadeInv'
        BY <3>1, StepKeepsMade DEF SignaturesInv
      <3>4. VerdictInv'
        BY <3>1, <3>2, StepKeepsVerdict DEF SignaturesInv
      <3> QED BY <3>2, <3>3, <3>4 DEF SignaturesInv
    <2>2. CASE UNCHANGED vars
      BY <2>2, StuttersKeepSignatures
    <2> QED BY <2>1, <2>2
  <1> QED BY <1>1, InitSignatures, PTL DEF Spec

-----------------------------------------------------------------------------
(* What a host holds.                                                      *)

\* A block that a host holds was sent: its key is that of a generated pair, and
\* its signature, if there is one, was made over its message on the same host.
LEMMA HeldIs ==
    ASSUME SignaturesInv, NEW h \in Hosts, held[h] # Nothing
    PROVE  \E g \in Hosts, s \in used, m \in Messages :
             /\ held[h].msg = m
             /\ held[h].pub = Serialized(order[h],
                                         Serialized(order[g], PublicOf(Secret(s))))
             /\ \/ held[h].sig = Zero
                \/ \E t \in used :
                     /\ <<t, m>> \in signed
                     /\ held[h].sig =
                          Serialized(order[h],
                                     Serialized(order[g], Made(order[g], t, m)))
  <1>1. PICK b \in sent : held[h] = Received(order[h], b)
    BY DEF SignaturesInv, VerdictInv, JudgedInv
  <1>2. PICK at \in [used -> Hosts] : BlockInv(at, b)
    BY DEF SignaturesInv, MadeInv
  <1>3. PICK s \in used, m \in Messages :
          \/ b = Block(order[at[s]], s, m, Zero)
          \/ \E t \in used :
               /\ at[t] = at[s]
               /\ <<t, m>> \in signed
               /\ b = Block(order[at[s]], s, m, Made(order[at[s]], t, m))
    BY <1>2 DEF BlockInv
  <1> DEFINE g == at[s]
  <1>4. g \in Hosts
    BY <1>2
  <1> HIDE DEF g
  <1>5. ASSUME NEW x, b = Block(order[g], s, m, x)
        PROVE  /\ held[h].msg = m
               /\ held[h].pub = Serialized(order[h],
                                    Serialized(order[g], PublicOf(Secret(s))))
               /\ held[h].sig = Serialized(order[h], Serialized(order[g], x))
    BY <1>1, <1>5 DEF Received, Block, Deserialized
  <1>6. CASE b = Block(order[g], s, m, Zero)
    <2>1. Serialized(order[h], Serialized(order[g], Zero)) = Zero
      BY ReversedZero DEF Serialized
    <2> QED BY <1>4, <1>5, <1>6, <2>1
  <1>7. CASE \E t \in used :
               /\ <<t, m>> \in signed
               /\ b = Block(order[g], s, m, Made(order[g], t, m))
    BY <1>4, <1>5, <1>7
  <1> QED BY <1>3, <1>6, <1>7 DEF g

\* Bytes that are the raw output of OpenSSL went through no little-endian
\* host.
LEMMA RawIsBig ==
    ASSUME NEW o \in Orders, NEW x, NEW y, x # <<"zero">>,
           Serialized(o, Raw(x)) = Raw(y)
    PROVE  o = "big" /\ x = y
  <1>1. o # "little"
    <2>1. Reversed(Raw(x)) = [of |-> x, reversed |-> TRUE]
      BY ReversedRaw
    <2>2. [of |-> x, reversed |-> TRUE] # Raw(y)
      BY DEF Raw
    <2> QED BY <2>1, <2>2 DEF Serialized
  <1>2. o = "big"
    BY <1>1 DEF Orders
  <1>3. Raw(x) = Raw(y)
    BY <1>2, BigIsRaw
  <1> QED BY <1>2, <1>3 DEF Raw

\* A block that OpenSSL accepts was signed by the owner of its certificate,
\* and neither its sender nor its receiver is little-endian.
LEMMA AcceptedIsSigned ==
    ASSUME SignaturesInv, NEW h \in Hosts, held[h] # Nothing, Checks(h)
    PROVE  /\ order[h] = "big"
           /\ <<Owner(held[h].pub), held[h].msg>> \in signed
  <1>1. PICK g \in Hosts, s \in used, m \in Messages :
          /\ held[h].msg = m
          /\ held[h].pub = Serialized(order[h],
                                      Serialized(order[g], PublicOf(Secret(s))))
          /\ \/ held[h].sig = Zero
             \/ \E t \in used :
                  /\ <<t, m>> \in signed
                  /\ held[h].sig =
                       Serialized(order[h],
                                  Serialized(order[g], Made(order[g], t, m)))
    BY HeldIs
  <1>2. PICK k : /\ Serialized(order[h], held[h].pub) = PublicOf(k)
                 /\ held[h].sig = Signature(k, m)
    BY <1>1 DEF Checks, Matches
  <1>3. order[g] \in Orders /\ order[h] \in Orders
    BY DEF SignaturesInv, SentInv
  <1>4. Serialized(order[g], PublicOf(Secret(s))) = PublicOf(k)
    <2> DEFINE b == Serialized(order[g], PublicOf(Secret(s)))
    <2>1. Serialized(order[h], Serialized(order[h], b)) = b
      BY SerializedIs, SerializedTwice DEF PublicOf
    <2> QED BY <1>1, <1>2, <2>1
  <1>5. order[g] = "big" /\ PublicOf(Secret(s)) = PublicOf(k)
    BY <1>3, <1>4, RawIsBig, Symbols DEF PublicOf
  <1>6. k = Secret(s)
    BY <1>5, SamePublic
  <1>7. PICK t \in used :
          /\ <<t, m>> \in signed
          /\ Serialized(order[h], Made("big", t, m)) = Signature(k, m)
    <2>1. held[h].sig # Zero
      <3>1. Signature(k, m) # Zero
        BY ReversedRaw, Symbols DEF Signature
      <3> QED BY <1>2, <3>1
    <2> QED BY <1>1, <1>2, <1>5, <2>1, BigIsRaw
  <1>8. order[h] = "big" /\ Made("big", t, m) = Signature(k, m)
    BY <1>3, <1>7, RawIsBig, Symbols DEF Made, Signature
  <1>9. t = s
    BY <1>6, <1>8, BigIsRaw, SameSignature, SameSecret DEF Made
  <1>10. Owner(held[h].pub) = s
    BY <1>1, <1>5, <1>8, BigIsRaw, OwnerOfPair DEF Pair
  <1> QED BY <1>1, <1>7, <1>8, <1>9, <1>10

\* A block with the signature of its certificate's owner is the only one of
\* its kind: it names its sender, and so the byte order it went through.
LEMMA GenuineIs ==
    ASSUME NEW at, NEW b, BlockInv(at, b), Genuine(b)
    PROVE  LET s == Owner(b.pub)
               o == order[at[s]]
           IN  b = Block(o, s, b.msg, Made(o, s, b.msg))
  <1>1. PICK s \in used, m \in Messages :
          \/ b = Block(order[at[s]], s, m, Zero)
          \/ \E t \in used :
               /\ at[t] = at[s]
               /\ <<t, m>> \in signed
               /\ b = Block(order[at[s]], s, m, Made(order[at[s]], t, m))
    BY DEF BlockInv
  <1>2. b # Block(order[at[s]], s, m, Zero)
    <2>1. Serialized(order[at[s]], Zero) = Zero
      BY ReversedZero DEF Serialized
    <2> QED BY <2>1 DEF Genuine, Block
  <1>3. PICK t \in used : b = Block(order[at[s]], s, m, Made(order[at[s]], t, m))
    BY <1>1, <1>2
  <1>4. b.msg = m
    BY <1>3 DEF Block
  <1>5. Owner(b.pub) = s
    <2>1. b.pub = Serialized(order[at[s]], PublicOf(Secret(s)))
      BY <1>3 DEF Block
    <2>2. Secret(s) = Serialized("big", Secret(s))
      BY BigIsRaw
    <2> QED BY <2>1, <2>2, OwnerOf
  <1>6. Owner(b.sig) = t
    <2>1. b.sig = Serialized(order[at[s]],
                             Signature(Serialized(order[at[s]], Secret(t)), m))
      BY <1>3 DEF Block, Made
    <2> QED BY <2>1, OwnerOf
  <1>7. t = s
    BY <1>5, <1>6 DEF Genuine
  <1> QED BY <1>3, <1>4, <1>5, <1>7

-----------------------------------------------------------------------------
(* The properties of Signatures.                                           *)

\* Every state is typed: a pair in memory is a pair as OpenSSL made it,
\* whatever files and restarts it has been through.
THEOREM SignaturesTypeCorrect == Spec => []TypeOK
  <1>1. ASSUME SignaturesInv, NEW h \in Hosts
        PROVE  /\ \/ wallet[h] = NoKeys
                  \/ \E k \in Pairs : \A f \in {"priv", "pub"} :
                       wallet[h][f] = Serialized(order[h], k[f])
               /\ sig[h] = Zero \/ Owner(sig[h]) \in used
    <2>1. PICK at \in [used -> Hosts] : HostInv(at)
      BY <1>1 DEF SignaturesInv, MadeInv
    <2>2. StoredInv(at, h) /\ SigInv(at, h)
      BY <2>1 DEF HostInv
    <2>3. \A s \in used : Pair(s) \in Pairs
      BY <1>1 DEF SignaturesInv, SentInv, Pairs, Pair
    <2>4. \A s \in used : Owner(Made(order[h], s, msg[h])) = s
      <3>1. \A s \in used : Owner(Serialized("big", Made(order[h], s, msg[h]))) = s
        BY OwnerOf DEF Made
      <3> QED BY <3>1, BigIsRaw
    <2> QED BY <2>2, <2>3, <2>4 DEF StoredInv, SigInv
  <1>2. ASSUME SignaturesInv, NEW h \in Hosts
        PROVE  held[h] = Nothing \/ held[h].msg \in Messages
    BY <1>2, HeldIs
  <1>3. ASSUME SignaturesInv
        PROVE  /\ keys \in [Hosts -> Pairs]
               /\ \A h \in Hosts : held[h] = Nothing => verdict[h] = "none"
    BY <1>3 DEF SignaturesInv, SentInv, VerdictInv, JudgedInv, Pairs, Pair
  <1>4. SignaturesInv => TypeOK
    BY <1>1, <1>2, <1>3 DEF SignaturesInv, SentInv, TypeOK
  <1> QED BY <1>4, SignaturesInvHolds, PTL

\* No block passes verification unless the owner of the certificate's key has
\* signed its message: not over restarts, failures of OpenSSL, stale buffers,
\* late or repeated blocks.
THEOREM OnlySignedVerifies == Spec => []VerifiedWasSigned
  <1>1. SignaturesInv => VerifiedWasSigned
    <2> SUFFICES ASSUME SignaturesInv, NEW h \in Hosts, verdict[h] = "valid"
                 PROVE  <<Owner(held[h].pub), held[h].msg>> \in signed
      BY DEF VerifiedWasSigned
    <2>1. held[h] # Nothing /\ Checks(h)
      BY DEF SignaturesInv, VerdictInv, JudgedInv
    <2> QED BY <2>1, AcceptedIsSigned
  <1> QED BY <1>1, SignaturesInvHolds, PTL

\* On a little-endian host nothing verifies, ever.
THEOREM LittleEndianRefuses ==
    Spec => [](\A h \in Hosts : order[h] = "little" => verdict[h] # "valid")
  <1>1. ASSUME SignaturesInv, NEW h \in Hosts, verdict[h] = "valid"
        PROVE  order[h] # "little"
    <2>1. held[h] # Nothing /\ Checks(h)
      BY <1>1 DEF SignaturesInv, VerdictInv, JudgedInv
    <2> QED BY <1>1, <2>1, AcceptedIsSigned
  <1>2. SignaturesInv =>
          \A h \in Hosts : order[h] = "little" => verdict[h] # "valid"
    BY <1>1
  <1> QED BY <1>2, SignaturesInvHolds, PTL

\* Among big-endian hosts a genuine signature is refused only when OpenSSL
\* fails.
THEOREM BigEndianAccepts == Spec => []BigEndianVerifies
  <1>1. ASSUME SignaturesInv, \A g \in Hosts : order[g] = "big",
               NEW h \in Hosts, held[h] # Nothing, Genuine(held[h]),
               verdict[h] = "invalid"
        PROVE  failed[h]
    <2>1. PICK g \in Hosts, s \in used, m \in Messages :
            /\ held[h].msg = m
            /\ held[h].pub = Serialized(order[h],
                                Serialized(order[g], PublicOf(Secret(s))))
            /\ \/ held[h].sig = Zero
               \/ \E t \in used :
                    /\ <<t, m>> \in signed
                    /\ held[h].sig =
                         Serialized(order[h],
                                    Serialized(order[g], Made(order[g], t, m)))
      BY <1>1, HeldIs
    <2>2. held[h].pub = PublicOf(Secret(s)) /\ Owner(held[h].pub) = s
      BY <1>1, <2>1, BigIsRaw, OwnerOfPair DEF Pair
    <2>3. PICK t \in used : held[h].sig = Signature(Secret(t), m)
      <3>1. PICK t \in used :
              held[h].sig = Serialized(order[h],
                                       Serialized(order[g], Made(order[g], t, m)))
        BY <1>1, <2>1 DEF Genuine
      <3>2. held[h].sig = Made("big", t, m)
        BY <1>1, <3>1, BigIsRaw
      <3>3. Serialized("big", Secret(t)) = Secret(t)
        BY BigIsRaw
      <3> QED BY <3>2, <3>3 DEF Made
    <2>4. Owner(held[h].sig) = t
      <3>1. Secret(t) = Serialized("big", Secret(t))
            /\ Signature(Secret(t), m) = Serialized("big", Signature(Secret(t), m))
        BY BigIsRaw
      <3> QED BY <2>3, <3>1, OwnerOf
    <2>5. t = s /\ s \in Seeds
      BY <1>1, <2>2, <2>4 DEF Genuine, SignaturesInv, SentInv
    <2>6. Serialized(order[h], held[h].pub) = PublicOf(Secret(s))
      BY <1>1, <2>2, BigIsRaw
    <2>7. Checks(h)
      BY <2>1, <2>3, <2>5, <2>6 DEF Checks, Matches
    <2> QED BY <1>1, <2>7 DEF SignaturesInv, VerdictInv, JudgedInv
  <1>2. SignaturesInv => BigEndianVerifies
    BY <1>1 DEF BigEndianVerifies, SignedVerifies, RightVerdict
  <1> QED BY <1>2, SignaturesInvHolds, PTL

\* A host that restarts and signs a message again sends the same block: its
\* certificate, hash and signature are determined by its private key.
THEOREM RestartKeepsIdentity == Spec => []SameIdentityAfterRestart
  <1>1. SignaturesInv => SameIdentityAfterRestart
    <2> SUFFICES ASSUME SignaturesInv, NEW a \in sent, NEW b \in sent,
                        Genuine(a), Genuine(b), Owner(a.pub) = Owner(b.pub),
                        a.msg = b.msg
                 PROVE  a = b
      BY DEF SameIdentityAfterRestart
    <2>1. PICK at \in [used -> Hosts] : BlockInv(at, a) /\ BlockInv(at, b)
      BY DEF SignaturesInv, MadeInv
    <2> DEFINE s == Owner(a.pub)
               o == order[at[s]]
               c == Block(o, s, a.msg, Made(o, s, a.msg))
    <2>2. a = c
      BY <2>1, GenuineIs
    <2>3. b = c
      BY <2>1, GenuineIs
    <2> QED BY <2>2, <2>3
  <1> QED BY <1>1, SignaturesInvHolds, PTL

\* What a host hashes for a certificate it has is what was on the wire: it is
\* determined by the private key and by the host that made that one.
LEMMA CertificateIs ==
    ASSUME SignaturesInv, NEW at \in [used -> Hosts], HostInv(at),
           \A b \in sent : BlockInv(at, b),
           NEW h \in Hosts, NEW a \in Certificates(h)
    PROVE  LET s == Owner(a.pub)
               cert == Serialized(order[at[s]], PublicOf(Secret(s)))
           IN  SeedInput(order[h], a)
                 = <<cert, Serialized(order[at[s]], Sha256(cert))>>
  <1> DEFINE Key(s) == Serialized(order[at[s]], PublicOf(Secret(s)))
             Hash(s) == Serialized(order[at[s]], Sha256(Key(s)))
  <1>1. CASE keys[h] # NoKeys /\ a = Own(h)
    <2>1. PICK s \in used : at[s] = h /\ keys[h] = Pair(s)
      BY <1>1 DEF HostInv, KeysInv
    <2>2. a.pub = PublicOf(Secret(s))
      BY <1>1, <2>1 DEF Own, Pair
    <2>3. a.hash = Sha256(Key(s))
      BY <1>1, <2>1, <2>2 DEF Own
    <2>4. Owner(a.pub) = s
      BY <2>2, OwnerOfPair DEF Pair
    <2> QED BY <2>1, <2>2, <2>3, <2>4 DEF SeedInput
  <1>2. CASE held[h] # Nothing /\ a = held[h]
    <2>1. PICK b \in sent : held[h] = Received(order[h], b)
      BY <1>2 DEF SignaturesInv, VerdictInv, JudgedInv
    <2>2. PICK s \in used, m \in Messages :
            \/ b = Block(order[at[s]], s, m, Zero)
            \/ \E t \in used :
                 /\ at[t] = at[s]
                 /\ <<t, m>> \in signed
                 /\ b = Block(order[at[s]], s, m, Made(order[at[s]], t, m))
      BY <2>1 DEF BlockInv
    <2>3. PICK x : b = Block(order[at[s]], s, m, x)
      BY <2>2
    <2>4. b.pub = Key(s) /\ b.hash = Hash(s)
      BY <2>3 DEF Block
    <2>5. /\ a.pub = Serialized(order[h], Key(s))
          /\ a.hash = Serialized(order[h], Hash(s))
      BY <1>2, <2>1, <2>3, <2>4 DEF Received, Block, Deserialized
    <2>6. Serialized(order[h], Serialized(order[h], Key(s))) = Key(s)
      BY SerializedIs, SerializedTwice DEF PublicOf
    <2>7. Serialized(order[h], Serialized(order[h], Hash(s))) = Hash(s)
      BY SerializedIs, SerializedTwice DEF Sha256
    <2>8. Owner(a.pub) = s
      <3> DEFINE p == PublicOf(Secret(s))
      <3>1. p = Raw(<<"public", Secret(s)>>)
        BY DEF PublicOf
      <3>2. Key(s).of = <<"public", Secret(s)>> /\ Key(s) # Zero
        BY <3>1, SerializedOf, Symbols
      <3>3. Serialized(order[h], Key(s)).of = Key(s).of
        BY <3>2 DEF Serialized, Reversed
      <3>4. Secret(s).of = <<"private", s>>
        BY DEF Secret, Raw
      <3> HIDE DEF Key
      <3> QED BY <2>5, <3>2, <3>3, <3>4 DEF Owner
    <2> QED BY <2>5, <2>6, <2>7, <2>8 DEF SeedInput
  <1> QED BY <1>1, <1>2 DEF Certificates

\* A host and all that have received its certificate derive one seed from it,
\* whatever their byte orders.
THEOREM SeedsDoNotDependOnHosts == Spec => []SeedsAgree
  <1>1. SignaturesInv => SeedsAgree
    <2> SUFFICES ASSUME SignaturesInv, NEW g \in Hosts, NEW h \in Hosts,
                        NEW a \in Certificates(g), NEW b \in Certificates(h),
                        Owner(a.pub) = Owner(b.pub)
                 PROVE  mini_pow_seed_gen(order[g], a)
                          = mini_pow_seed_gen(order[h], b)
      BY DEF SeedsAgree
    <2>1. PICK at \in [used -> Hosts] :
            HostInv(at) /\ \A c \in sent : BlockInv(at, c)
      BY DEF SignaturesInv, MadeInv
    <2>2. SeedInput(order[g], a) = SeedInput(order[h], b)
      BY <2>1, CertificateIs
    <2> QED BY <2>2 DEF mini_pow_seed_gen
  <1> QED BY <1>1, SignaturesInvHolds, PTL
=============================================================================
