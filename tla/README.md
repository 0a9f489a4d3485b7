# Formal models of DATAEXSYS-P2P

TLA+ specifications of the parts of DATAEXSYS-P2P that have behaviour of their
own: the task runtime of `nodeEngine`, the wallet, the wire format, wide
integers, signatures and the Bootstrapper's registry. TLC checks them on small
instances; TLAPS proves the safety properties of all of them for every instance.
`PROJECT.json` lists every run, the source lines of every definition, the hazards the
properties are aimed at, and the findings.

    tlc -workers 2 -config MCTaskRuntime.cfg MCTaskRuntime.tla
    for m in *Proofs.tla; do tlapm $m; done

## The system and its parts

| part | source | state | operations | model |
|---|---|---|---|---|
| task runtime | `peer/nodeEngine/{inc,src}/runtime`, `core/task` | queue, `running`, the worker `std::thread`, mutex and condition variable, a promise per task, its handle | `start`, `stop`, destructor, `push`, `processLoop`, `execute`, `submit`, `get` | `TaskRuntime`, `TaskContract`; `TaskRuntimeProofs`, `TaskStopProofs` |
| program | `peer/nodeEngine/src/main.cpp` | the statement it is at | `main` | `NodeMain`; `NodeMainProofs` |
| wallet | `peer/shared/inc/system/LinuxUtils.h`, `crypto/WalletSetup.h`, key generation and encryption in `crypto/` | two encrypted files per key pair, three nested directories | `load_*_keys`, `save_*_keys`, `create_wallet` | `Wallet`; `WalletProofs` |
| wire format | `peer/shared/inc/net/NetworkSerialization.h`, `core/Global_Size_Offsets.h` | the caller's buffer and structure | `*_serialize*`, `*_deserialize*` | `WireFormat`; `WireFormatProofs` |
| signatures, hashes | `crypto/SignUtils.h` | none; keys, digests and signatures in the words of `uint256` and `uint512` | `GenerateSignKeys`, `sign_buffer_ed25519`, both forms of `verify_buffer_ed25519`, `hash256_buffer`, `clz256` | `Signatures`, `Words`; `SignaturesProofs`, `WordsProofs` |
| registry | `Bootstrapper/src/main` | the table `networks` | create, update the peer count, two reads | `Registry`, `RegistryContract`; `RegistryProofs` |
| mini-PoW seed | `crypto/SeedUtil.h` | none | `mini_pow_seed_gen`, `mini_pow_csprng` | the seed, in `WireFormat` and `Signatures` |
| wide integers, addresses | `core/datatypes` | none | constructors, bits, comparison, joining; address classes | the integers, in `Words`; `WordsProofs` |
| egress factories | `peer/backend/network` | none | stateless dispatch | not modelled |
| protocol structures | `protocol/**`, `net/route` | declarations | none | not modelled |
| typed inputs and outputs, scheduler | `nodeEngine/inc/core`, `scheduler` | a value; nothing | accessors; an empty stub | not modelled |

The parts meet in few places today. `main` calls the task runtime. Loading keys
calls the wallet's directories, key generation and encryption. Blocks, mini-PoW
seeds, signatures and saved keys go through the serializers. The Bootstrapper
is a server of its own. Nothing in `nodeEngine` calls the wallet or the
serializers yet; when it does, it will be from executors on the runtime's
worker thread, which is why the runtime is modelled for arbitrary executors
and clients and not only for `main`.

What is hard, part by part:

- **Runtime.** One mutex, one condition variable and three pieces of state that
  are used outside the mutex: `running` is written by `start` without it,
  `worker` is assigned and joined without it, and notifications are sent after
  it is released. Calls may come from any thread, the worker included. Correct
  means: order is kept, each task completes at most once, no thread takes the
  front of an empty queue, a stop drains, no wakeup is lost, no thread survives
  the object.
- **Wallet.** Two files written in place, in several system calls, one after
  the other, without a lock: crashes, short writes, failed writes and other
  processes come between any two. Correct means: a load never returns halves
  of two pairs, never replaces an identity that is still there, and returns
  only keys that are saved.
- **Wire format.** Offsets added up by hand from size macros, and two
  conversions (bytes in a word, words in a number). Correct means: inside the
  buffer, nothing overwritten, the same value read as written on any two
  hosts.
- **Signatures.** OpenSSL reads and writes bytes, the code keeps them in
  64-bit words, and only some of the ways between the two swap bytes. Correct
  means: what was signed verifies, on any host and after any restart, and nothing
  else does; hosts derive the same seeds and agree on a difficulty.
- **Registry.** Requests run concurrently and a peer-count report is a read and
  a write in two transactions.

## Modules

### TaskRuntime

A state is the memory the threads share plus where each thread is. `pc[a]` is
where actor `a` is in a call on the runtime; actors are the clients and the
worker threads themselves, because an executor may call the runtime. `wpc[w]` is
where thread `w` is in `processLoop`. A step is what the code does between two
points where another thread can see it:

| code | actions |
|---|---|
| `start` (taskqueue.cpp 9-15) | `StartFlag` sets `running`; `StartSpawn` or `StartFails` creates the thread; `StartAssign` or `StartTerminates` assigns it |
| `stop` (17-29) | `StopCall`; `StopFlag` or `StopNotRunning` under the mutex; `StopNotify`; `StopJoin` or `StopSkipsJoin`; `StopJoined` or `StopJoinsTwice` |
| destructor (5-7 and the members) | `BeginDestroy`, the stop steps, `EndDestroy` or `DestroyTerminates` |
| `submitInternal`, `push` | `Submit` under the mutex; `SubmitReturn` notifies and returns the handle |
| `TaskHandle::get` | `Get`, `GetReturn` |
| `processLoop` (40-61) | `Acquire` evaluates the predicate; `SpuriousWakeup`; `Exit`, `Take` or `TakeNothing` under the same lock |
| `Task::execute` | `Finish` with a value, an exception, or (empty function) a broken promise |

`processLoop`'s critical section is split between the predicate and the test of
line 51 because `start` can change `running` in between. An executor may call
everything a client may, but for the destructor: `Starters`, `Stoppers` and
`Waiters` say who does in an instance. Ends of the process
are kept as values of `life`: `terminated` for `std::terminate` (assigning to
or destroying a joinable thread), `undefined` for `front()` of an empty queue or a
thread joined twice. The behaviour stops there, so that a property that must hold
of a live runtime says `Up`.

`accepted`, `taken` and `owed` are history: no guard reads them.

The value and type of inputs and results, and `ready()` and `valid()`, which
change nothing, are left out; each handle is waited for once.

### TaskContract

What a caller may rely on: a line of tasks, begun from its head, each resolved
once; destruction resolves those still in line as broken and waits for the one
that has begun. `KeepsContract` in `TaskRuntime` maps `line` to the queue and a
task's stage to its promise and whether it is queued.

### NodeMain

`main()`, one statement at a time, conjoined with the actions of `TaskRuntime`.
`printed` is what it received from `get`. An exception that leaves `main` (thread
creation, or the second `get`, which is outside the `try`) ends the process.

### Wallet

One key pair; the signing and the encryption pair use the same code on other
files. A step is one system call of one process. A file is absent or a sequence
of at most two chunks, each naming the encryption it comes from, so that empty,
torn and mixed files occur; AES-GCM accepts a file exactly if all of it is of one
encryption under the given password (`LocalSaveEncrypt`; salts are left out). A direct save may be of any pair, one
that is in the wallet already included, and under any password. `Fail` is any failing call, at any step;
`Crash` drops the process's memory and leaves the files. A read sees one state of
the file.

Three variables are history, read by the properties only. `saved` is the pair of the last
save that wrote both files; `cut` says that a direct save ended between its first
change to a file and its last, and none has written both since; `overlapped`
says that two calls, one of them saving, were once under way together. `Orderly` is the
condition under which the code's promises hold, whatever fails or crashes:
neither has happened, and no direct save is half way.

### WireFormat

A layout lists the fields a serializer writes with their offsets and word sizes,
translated function by function; nested structures sit at the offsets the code
computes from its macros. A byte is represented by where it came from (field and
index in the sender's memory), which is all the properties need. `Put` is one
write of a serializer, `Take` one read of a deserializer; `Slack` says how much larger
or smaller than asked for the callers' buffers are, the sender's and, chosen
again in `Arrive`, the receiver's. `Required` is what a function
compares that size with; nothing is checked after that, and a field that does not
lie in the buffer makes the call an `Overrun`. A certificate is a structure by
itself, with its own check, and nested where `cert_serialize` is called: at the
head of a block and of the buffer that `mini_pow_seed_gen` hashes.

`MiniPowResult` comes from a header that is included and missing
(`protocol/proofs/mini_pow/mini_pow_result.h`); its fields are taken from the
two functions that serialize it.

### Words

One integer in the memory of a host of either byte order, as `WordCount` words
(a `uint256`) or twice as many (a `uint512`) of `WordBytes` bytes of `ByteBits`
bits. The operators carry the names of the functions; the actions apply them in
any order: make, change a bit, join two, hash a string of bytes into the words,
send to a host of either byte order. `Value` is the reference: the number that
the words stand for under the "little-endian word order" of `uint256_t.h`; it and
the bytes of a word are `Number` and `Digit` for two widths of digits.
Bits at or beyond the width, which `get_bit` and `set_bit` do not check and nothing
asks for, are left out.
`digest` and `hasher` remember what was hashed and on which host.

Two things a reader of the headers should know and the model makes exact.
`uint512_from_two_uint256` puts the half it calls `high` into `w[0..3]`, which
are the least significant words; nothing calls it, and no property is about it. `uint256_serialize_be`
reverses the bytes of each word and not the words, so that the value 1 goes on the wire as
seven zero bytes, a one and twenty-four zero bytes, although
`docs/restrictions.md` line 37 asks for big-endian integers; both ends do the
same, so values survive.

### Signatures

Hosts of either byte order, each with a pair of keys in memory, a pair in its
wallet, the last signature it made and the last block it received; blocks on the
wire, which may be received late, again or never. Ed25519, SHA-256 and HMAC are
symbols: an output names its input. All that the code does to such bytes is to
reverse those of each word, so a byte string is what it came from and a flag.
`GenerateSignKeys` and `sign_buffer_ed25519` let OpenSSL write over the words;
keys are serialized on their way to OpenSSL, and keys and signatures on their way to
the wallet and the wire. With `OpenSSLFails` any of its calls may fail:
`EVP_DigestVerify` may answer -1, the second form of verification says "invalid" when
`EVP_DigestVerifyInit` fails, and a block may be sent after a failed signing.

Nothing in the repository puts these functions together yet. The model does
it as the structures suggest: a block carries the certificate, its hash and the
verifier's signature. The message is given to both ends as it is.

### Registry

A row keeps its `networkId`, its count and, as one value, the columns that only
a create sets. `CreateNetwork` reads the body; `Insert`, `Merge` and
`SaveRefused` are `save()` in its one transaction. `ReadForUpdate` and `WriteCount`
are the two transactions of `updatePeerCount`. Spring Data, Hibernate (6.6, with
Spring Boot 3.4.1) and MySQL are modelled from how the service uses them:
an entity with an id is written whole, one whose id names no row is refused, and
`network_id` is unique. A count may be any `int`, negative ones too. The two reads and the time stamps are left out.

### RegistryContract

What the registry is to clients that leave primary keys alone: per network,
nothing or a profile and a count; a name is registered once, and then only its
count changes, one step per request. `Registry` implements it as long as no
create carries an id (`KeepsContractWithoutMerges`): then the only other writers
of a row are reports, and the read and the write of one may cross them unseen. A create that
carries an id voids that, as `registry_lost_update` shows.

## Runs

| run | instance | checks |
|---|---|---|
| `runtime_safety` | 2 clients, 2 threads, 2 tasks (one empty), everyone may call everything | types, FIFO, completion at most once, single consumer, no front of an empty queue, no thread after destruction, draining stop, a worker while running, no lost wakeup, no join of a thread that sleeps on, the contract |
| `runtime_liveness` | the same, only the owner starts, owner and executors stop, everyone waits | queued tasks complete, stops return |
| `node_main` | `main`, one thread, two tasks | main ends, in order |
| `wallet` | 2 processes, loads and direct saves, 2 pairs, 2 passwords, 1 crash, any failures | matching files, a saved pair stays, stable identity, loads return what is saved and leave the files alone |
| `wallet_race` | 2 processes, no wallet, no crash | **violated**: the loser's keys are saved nowhere |
| `wire_formats` | 12 structures, 4 pairs of hosts, buffers of either end one short, exact, one and fifteen long | in bounds, but for a certificate by itself in fewer than 83 bytes; filled, complete but for the end of a nested certificate, which is never there, same values |
| `wire_block` | a block and a seed, exact buffers | **violated**: the certificate's id is overwritten |
| `words` | bytes of 1 bit, words of 3 bytes, 2 and 4 words: every value | bit access is arithmetic, difficulty of a hash |
| `signatures` | 2 hosts of either byte order, 2 keys, 2 blocks, any failures | only what was signed verifies, and it does on big-endian hosts; same identity after a restart; one seed of a certificate, own or received |
| `signature_verifies` | the same, 2 messages, 1 block, no failures | **violated** on little-endian hosts: keys are given to OpenSSL with their words' bytes reversed |
| `registry` | 4 requests, 2 networks, 2 profiles, 2 rows, counts 0 and -1 | one row per network, counts belong to their network, the contract |
| `registry_lost_update` | the same | **violated**: a report takes a change back |

Why the bounds are enough. In the runtime, each race needs at most two callers
beside a worker, and two threads (a restart, or two starts); two tasks
give an order and a queue that is neither empty nor about to be. In the wallet,
two chunks give empty, torn, mixed and whole files; two pairs give an old and a new
one, which may be saved again in turn, and two passwords a right and a wrong one. A crash differs from a
failure only in what the process forgets; one is enough to meet it at every point, beside
any number of failures. Each layout is finite
and checked whole; a buffer fifteen bytes longer than asked for is the first that a
certificate fits. Words of three bytes make a byte reversal differ from every
word-wise shift, and two words make a boundary; a byte of one bit leaves out only
what no operation looks at, the order of bits in a byte. Two hosts make every
pair of byte orders, two keys an old and a new identity of one host or one each, and two
blocks are what `SameIdentityAfterRestart` compares; the second message is in
`signature_verifies`, where nothing fails. Two messages together with failures
are too many states for a run: that a failed signing does not send an earlier signature
under another message is `OnlySignedVerifies`, proved for any messages. In the registry two requests make each race, and the others
set the rows up: a refused write needs a create, a rename and another create
around the two transactions of a report.

Deadlock is not checked where the system really stops: when the process has
ended, nothing is left to submit, or every request has been answered. The runs of `Wallet`, `Words` and `Signatures`
check it: there is always another call to make.

Symmetry: worker threads, processes, hosts, keys, messages, passwords, requests,
networks and profiles are interchangeable model values, used in safety runs only.

### Fairness

`FairSpec` and `MainSpec` assume what a scheduler gives: a thread that can go on
does (weak fairness of a call that has begun and of the worker's loop), and an executor
that is again and again between two calls of its own ends (strong fairness, because such
a call disables it; each executor makes finitely many). No call is ever owed by a
client, and no spurious wakeup is relied on.

An executor may call `get`. One that waits for its own task, or for one queued
behind it, blocks the only worker for ever, and the code does nothing against it:
the two liveness properties say "unless an executor waits for itself for ever"
(`SelfDeadlock`), which makes that the only way to stop the runtime.

## What the properties found to be true need to say

Some promises of the code hold only with their conditions, and the conditions are
part of the property:

- A stop drains only what was accepted before it cleared `running`, only if it is
  the one that cleared it, and only if no other start or stop is under way
  then (`StopDrains`, `owed`). A task pushed later waits for a restart, or breaks.
  When the stop returns, one of those tasks may still be in execution: by a
  thread that a later start has created and not yet assigned, so that the stop
  did not see it.
- Starts and stops that follow one another leave no worker at `front()` of an empty
  queue. Beside a start that is not its own a worker may get there (`FrontHasTask`).
- There may be two threads in the loop while a start has not yet assigned
  its thread (`SingleConsumer`).
- A start whose thread creation fails leaves `running` set (`RunningHasWorker`).
- Two whole key files match (`WholeFilesMatch`), and a saved pair stays on disk
  (`SavedIsOnDisk`), while calls that save have the wallet to themselves and no
  direct `save_*_keys` has been interrupted between its first and its last change.
  After an interrupted one both files may decrypt and not match; the next complete save mends that.
  Two processes that overlap are the run `wallet_race`.
- Only a missing file makes a load generate. A load never touches a wallet of
  which both files are there, damaged or not (`LoadsLeaveFiles`); when one of the
  two is missing it generates, and replaces the other.
- A serializer or deserializer that has checked its buffer stays in it
  (`StaysInBuffer`), but for `cert_serialize` and `cert_deserialize` by themselves:
  they ask for 68 bytes, take 83, and run past every buffer in between. Their callers
  in the repository pass 68 for larger buffers.
- A structure loses nothing on the wire but the last fifteen bytes of an embedded
  certificate (`CertificateEnd`), and those it always loses (`CertificateEndIsLost`).
- A stop may join a thread that sleeps: one that a restart has kept in the loop
  (`JoinsCanEnd`). The stop then waits for another stop, which need not come. `StopReturns` is
  therefore checked with one starting thread and no failed creation.
- A genuine signature verifies among big-endian hosts (`BigEndianVerifies`) and
  nowhere else.
- `clz256` counts the leading zeros of the digest if a big-endian host hashed it. On
  a little-endian one it agrees on whole words of zeros and then counts from the
  last byte of the word (`DifficultyTravels`); the docs
  (`Algorithms_and_Methodology.md` line 32) ask for leading zeros of SHA-256.

## Proofs

Every invariant, action property and refinement of the passing runs is a
theorem, for all values of the constants that satisfy the modules' assumptions,
except those under "Only model-checked". No proof uses a bound of a run.

| module | theorem | property | by |
|---|---|---|---|
| `TaskRuntimeProofs` | `TypeCorrect` | `TypeOK` | itself |
| | `OneConsumer` | `SingleConsumer` | `ThreadInv`, with `StartInv` and `Rooted` |
| | `NoUseAfterDestroy` | `NoWorkerOutlivesQueue` | `ThreadInv`, with `StartInv` and `Rooted` |
| | `AtMostOneCompletion` | `CompletedOnce` | `CompletionInv`, with `StartInv` |
| | `InOrder` | `FirstInFirstOut` | `OrderInv`, with `CompletionInv` |
| | `RuntimeKeepsContract` | `KeepsContract` | all of them |
| `TaskStopProofs` | `RunningIsServed` | `RunningHasWorker` | `RunInv`, with `StartInv` |
| | `NoWakeupIsLost` | `NoLostWakeup` | itself, with `StartInv` |
| | `JoinedThreadsEnd` | `JoinsCanEnd` | `JoinInv`, `NoLostWakeup` |
| | `StopLeavesNothing` | `StopDrains` | `OwedInv`, `DrainInv`, with all of `TaskRuntimeProofs` and `RunInv` |
| | `FrontIsNotEmpty` | `FrontHasTask` | `FrontInv`, with `ThreadInv` |
| `NodeMainProofs` | `MainUsesRuntime` | `MainSpec => Spec` | action by action |
| | `MainEndsInOrder` | `MainIsOrderly` | `MainInv`, with the runtime's |
| `WalletProofs` | `WalletTypeCorrect` | `TypeOK` | `TypeInv` |
| | `FilesAreOnePair` | `WholeFilesMatch` | `WalletInv` |
| | `SavedPairIsOnDisk` | `SavedIsOnDisk` | `WalletInv` |
| | `IdentityIsStable` | `IdentityStable` | `WalletInv` |
| | `LoadsReturnSaved` | `LoadsReturnTheSaved` | `WalletInv` |
| | `LoadsLeaveTheFiles` | `LoadsLeaveFiles` | `TypeInv` |
| `SignaturesProofs` | `SignaturesTypeCorrect` | `TypeOK` | `SignaturesInv` |
| | `OnlySignedVerifies` | `VerifiedWasSigned` | `SignaturesInv` |
| | `LittleEndianRefuses` | no little-endian host ever answers "valid" | `SignaturesInv` |
| | `BigEndianAccepts` | `BigEndianVerifies` | `SignaturesInv` |
| | `RestartKeepsIdentity` | `SameIdentityAfterRestart` | `SignaturesInv` |
| | `SeedsDoNotDependOnHosts` | `SeedsAgree` | `SignaturesInv`, `CertificateIs` |
| `WireFormatProofs` | `WireTypes` | `TypeOK` | `WireInv` |
| | `WireInBounds` | `StaysInBuffer` | `WireInv`, `Fitted` |
| | `WireKeepsFields` | `OnlyCertificateEndIsLost` | `WireInv`, `Fitted` |
| | `WireLosesCertificateEnd` | `CertificateEndIsLost` | `WireInv`, `Fitted` |
| | `WireKeepsValues` | `ValuesSurvive` | `WireInv`, `Fitted`, `WeightsAgree` |
| `WordsProofs` | `WordsTypeCorrect` | `TypeOK` | itself |
| | `BitsAreArithmetic` | `BitAccessIsArithmetic` | `TypeOK`, `NumberAt` |
| | `DigestsKeepDifficulty` | `DifficultyTravels` | `HoldsDigest`, `ClzOfNumber`, `Grouped` |
| `RegistryProofs` | `RegistryTypeCorrect` | `TypeOK` | `TypeInv` |
| | `NetworksAreUnique` | `OneRowPerNetwork` | `DistinctRows` |
| | `CountsAreTheirNetworks` | `CountsBelong` | itself, with `TypeInv` |
| | `RegistryKeepsContract` | `KeepsContractWithoutMerges` | `UntouchedRows`, with the others |

TLC has checked the strengthened invariants as invariants of the same instances
before they were proved.

### The runtime

Assumed (`ActorAssumption`, `TaskAssumption`): identifiers are distinct, the
owner is a client, whoever starts, stops or waits is a client or an executor. The sets
may be infinite.

`StartInv` says that a thread being created is not running yet and belongs to
one start, and that an executor is in a call only while its thread runs it:
without it `StartSpawn` could reset a worker in the middle of a task. Since
executors may start too, a thread may be owed to a start whose own thread is
owed to another: `Rooted` says that among any live threads one is in the thread
object or about to be assigned by an actor outside them, so that no group of
threads lives only on one another's starts. `ThreadInv` adds to the two
properties that nobody but the owner is in a call while the object dies: without
it a start could hand a thread to a destroyed queue; `Rooted` is what leaves no
executor there. `CompletionInv` says
where a pending task is: in the queue, once, or with one worker. `OrderInv` ties
`accepted` to the promises, so that a fresh task is not accepted twice. The
refinement then goes action by action: `Submit` is `Accept`, `Take` is `Begin`,
`Finish` is `Resolve`, `EndDestroy` is `Close`, and every other step stutters.

`RunInv` completes `RunningHasWorker` with the moment between setting `running`
and creating the thread. `NoLostWakeup` is inductive: a thread goes to sleep, or
leaves the loop, only over an empty queue, and whoever fills the queue or clears
`running` has its notification still to send. It is the safety half of
`QueuedTasksComplete` and `StopReturns`; what fairness adds stays with TLC.
`JoinInv` adds the other half of what a stop needs: a thread is assigned and joined only once it is created, nobody
joins itself, and a joined thread that still lives is the one in the thread
object. So of two executors at most one joins the other (`JoinsCanEnd`): there is
no circle of joins, and a joined thread that sleeps has a notification to come
unless a restart has set `running` again.
`OwedInv` says that a task a stop owes has been accepted and that a stop owes
only between its flag and its return; `DrainInv` that while an owed task is
queued the thread that the stop joins, or will join, is in the loop (unless a
thread creation has failed). So when the joined thread has ended the queue holds
none of them, and by `CompletionInv` they have results or are with a thread of
the loop, which by `SingleConsumer` a start has still to assign.
`FrontInv` says that one thread at a time is between the predicate and line 51, and
that it finds `running` set over an empty queue only beside a start of another thread.

### The program

Assumed (`MainAssumption`): the two tasks are among those of the runtime.

`MainUsesRuntime` shows that each step of `main` is a step of the runtime or
leaves it alone, so every theorem above holds of the program. `MainInv` says,
for each statement of `main`, which call it is in (`MainPlace`), whether
`running` is set and the thread object holds a thread (`MainThread`), and what
has been submitted and received (`MainTold`): `main` never starts twice nor
destroys a joinable thread.

### The wallet

Assumed (`WalletAssumption`): the marks for an absent file, a hole and no pair
are no pairs or file contents. `TypeInv` adds what each place in a call implies
about the files (`PlaceInv`: the private key file is made first, and none is
removed) and that overlaps are recorded. `SerialInv` holds until two calls, one
of them saving, overlap: each process's own view of the files is still true
(`OwnInv`: what a save has written so far, what a load has read, and that a load
saves only where there was no public key file), a whole public key file means
that something was saved, and an orderly wallet holds the saved pair in both
files. The proof rests on one fact: a call that saves is alone, and loads beside
loads change no file, so a step of one process leaves true what the others know.

### Signatures

Assumed: `MaxSent` is a number. `SignaturesInv` says where everything came from.
There is a function from the private keys generated to the hosts that generated
them (`MadeInv`), and each key in memory or in a wallet, each signature and each
block on the wire is what that host's byte order makes of one of its pairs. A
block that is held is one from the wire in the receiver's order, and a verdict
answers for it (`VerdictInv`). `LittleEndianRefuses` turns the run
`signature_verifies` into a theorem: on a little-endian host no signature of
anybody is ever accepted, because the public key (of a little-endian owner) or
the signature (of a big-endian one) reaches OpenSSL with the bytes of its words
reversed.

### The wire format

Assumed (`WireAssumption`): the structures are among the twelve that are
modelled; buffers may be of any size. Half of the proof is about the layouts and
no state. `Laid` says that fields lie one after the other, without a gap and
under different names; it is proved of the layouts written out in the code
field by field (`LaidOne`, `LaidNext`), passes through nesting (`LaidWithin`) and
through one structure after another (`LaidConcat`). A block and a seed are not
`Laid`: the certificate at their head is 83 bytes and what follows begins at
`CERT_SIZE`, 68. `Fitted` allows just that, and `LayoutsFit` proves it of every
structure with the size it takes (`Extent`): what its functions check, but for a
certificate by itself. `EndCovered`, a part of it, says that what
follows covers all that lies beyond `CERT_SIZE`, so that `WireLosesCertificateEnd`
makes the run `wire_block` a rule: no block and no seed has a byte of it, whatever
the hosts and the buffer. `FlipInside` and
`WeightsAgree` are the byte order: reversing stays in the field, undoes itself, and
gives each byte on the receiver the weight it had on the sender.

The other half is the exchange. `WireInv` says that each byte of the buffer belongs to a field
that was put there, to the last one where several were (`BufInv`), that each
field read is what the buffer holds at its offset (`ObjInv`), and that nothing is
under way in a buffer smaller than the checked size, and only a certificate
runs out of it, in fewer than 83 bytes (`CallInv`).

### Wide integers

Assumed (`WordsAssumption`): the widths are numbers above zero. Powers of two and
the numbers that digits make are recursive functions, and the library's induction
theorems take an operator as their parameter. `Inductive` and `Unrolled`
(induction over a set of numbers, and the function that a first value and a step
define) are therefore proved from the well-foundedness of `<` on the natural
numbers, which needs no such parameter, and every later induction is over a set.

Then come numbers in any base that is a power of two. `SumsSlice` takes consecutive digits together;
the two parts of an integer (`NumberHalves`), the digits around one place
(`NumberAt`) and the bytes of words (`Grouped`) are cases of it. `DigitOfNumber` and
`NumberOfDigits` are inverse to each other, which makes a word of its bytes and
back the identity on either host, and so the way from one host to another
(`Sent`). `BitAccess` places a bit in its word and the word among the others; changing it
changes the number by its weight or not at all. `ZerosAre` says that two powers of two
determine the leading zeros, and `ClzOfNumber` that `clz256` counts those of the integer
whose highest word is `w[0]`, the reverse of what `Value` says of the words: that is why
it is right for a digest of a big-endian host. The only strengthening the
invariants need is `HoldsDigest`: the words of a digest are what its host hashed.

### The registry

Assumed (`RegistryAssumption`, `NoneAssumption`): primary keys are a finite
prefix of 1, 2, 3, ..., counts are integers with zero among them, `None` is no value of the program.
`RequestInv` says what each request holds between its transactions; the row a
report read is still there, since none is deleted. `DistinctRows` is
`OneRowPerNetwork` said of rows and not of cardinalities. `UntouchedRows`,
without creates that carry an id, says that a row changes only in its count
under a report that has read it; the report's write is then the abstract step,
and nothing else of it is visible.

### Only model-checked

- Liveness: `QueuedTasksComplete`, `StopReturns`, `MainEnds`. Fairness and
  `ENABLED` are outside the provers' reach.
- The four runs that expect a violation show what the code does and promise
  nothing. Two of them have theorems that say it happens always
  (`LittleEndianRefuses`, `WireLosesCertificateEnd`).

## Not modelled

- The egress factories: stateless `switch`es that forward to functions without a
  definition, in a file that includes a header that does not exist.
- `mini_pow_csprng`: a function of its arguments that nothing calls. It serializes
  a seed that was hashed as raw bytes, so what it draws depends on the byte order of
  the host, as signatures do.
- `ipv6.h` beyond its 16 bytes on the wire: predicates on the first and last bytes
  of an address and a formatter, without state and without callers.
- Bits of a wide integer at or beyond its width: `get_bit` and `set_bit` index the words
  without a check, and nothing calls them.
- A second `get` on a handle, and a `get` of the wrong type: each handle is waited for
  once, and values are not modelled.
- Chains, trust, routes, sessions, packets: structures without code.
- OpenSSL, the file system, the C++ library, Hibernate and MySQL, beyond what the
  code uses of them.
- `docs/current_implementation.md` line 58 names `save_chain_state` and
  `load_chain_state`; the source does not have them.

## Plan

What was planned is modelled, and every safety property is proved. Left, should the
code grow to use them: the draw of `mini_pow_csprng` once something calls it, a
second `get` of a handle, and the executors that will call the wallet and the
serializers from the worker thread.
