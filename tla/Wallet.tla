------------------------------- MODULE Wallet -------------------------------
(***************************************************************************)
(* One key pair of the wallet (signing or encryption: the same code) in    *)
(* two files of ~/.pkcertchain/<network>/wallet, and the processes that    *)
(* load it, generating and saving it when it is missing, or save one of    *)
(* their own.  Processes interleave between system calls and may crash     *)
(* between any two of them; any system call may fail.                      *)
(*                                                                         *)
(* A file is Absent or a sequence of at most two chunks, so that a file    *)
(* can be empty (just truncated), torn, or whole.  A chunk names the       *)
(* encryption that produced it: a key pair under a password, Hole where a  *)
(* write skipped a chunk.  AES-GCM accepts a file exactly when all of it   *)
(* comes from one encryption, under that encryption's password.            *)
(***************************************************************************)
EXTENDS Naturals, Sequences, FiniteSets

CONSTANTS
    Procs,        \* processes that use this wallet
    Pairs,        \* key pairs, one per generation: bounds the generations
    Passwords,
    DirectSaves,  \* is save_*_keys also called by itself?
    MaxCrashes,   \* bound on crashes
    Absent, Hole, NoPair

ASSUME WalletAssumption ==
    /\ MaxCrashes \in Nat
    /\ DirectSaves \in BOOLEAN
    /\ NoPair \notin Pairs
    /\ Hole \notin Pairs \X Passwords
    /\ Absent \notin Seq(Pairs \X Passwords \cup {Hole})

VARIABLES
    file,     \* contents of the private and the public key file
    dirs,     \* how many of the three nested directories exist
    pc,       \* where each process is
    loading,  \* whether its call is a load
    pass,     \* the password of its call
    key,      \* the pair it is generating and saving
    buf,      \* enc_priv: the private key file as it read it
    cur,      \* which file it is writing
    done,     \* chunks it has written to that file
    out,      \* what its last successful load returned: private, public
    used,     \* pairs generated so far
    crashes,
    saved,      \* history: the pair of the last save that wrote both files
    cut,        \* history: a direct save ended between its first change to a
                \* file and its last, and no save has written both since
    overlapped  \* history: two calls, one of them saving, were under way at once

history == <<saved, cut, overlapped>>
vars == <<file, dirs, pc, loading, pass, key, buf, cur, done, out, used,
          crashes, history>>
request == <<loading, pass>>
saving == <<key, cur, done, used>>

Names == {"priv", "pub"}
Nothing == <<NoPair, NoPair>>

\* LocalSaveEncrypt: every chunk of its output depends on the pair and on the
\* password.  Two encryptions of one pair under one password differ in their
\* salt, too: only saves that overlap could mix those in a file.
LocalSaveEncrypt(k, w) == <<k, w>>

Chunks == (Pairs \X Passwords) \cup {Hole}

Goto(p, l) == pc' = [pc EXCEPT ![p] = l]

Init ==
    /\ file = [n \in Names |-> Absent]
    /\ dirs \in {0, 3}
    /\ pc = [p \in Procs |-> "idle"]
    /\ loading = [p \in Procs |-> FALSE]
    /\ pass \in [Procs -> Passwords]
    /\ key = [p \in Procs |-> NoPair]
    /\ buf = [p \in Procs |-> <<>>]
    /\ cur = [p \in Procs |-> "priv"]
    /\ done = [p \in Procs |-> 0]
    /\ out = [p \in Procs |-> Nothing]
    /\ used = {}
    /\ crashes = 0
    /\ saved = NoPair
    /\ cut = FALSE
    /\ overlapped = FALSE

-----------------------------------------------------------------------------
(* Calls, and how they end.                                                *)

LoadCall(p, w) ==
    /\ pc[p] = "idle"
    /\ loading' = [loading EXCEPT ![p] = TRUE]
    /\ pass' = [pass EXCEPT ![p] = w]
    /\ out' = [out EXCEPT ![p] = Nothing]
    /\ Goto(p, "readPriv")
    /\ UNCHANGED <<file, dirs, buf, saving, crashes, saved, cut>>

\* The caller's own pair: a new one, or one that was loaded or saved before,
\* perhaps under another password.
SaveCall(p, w, k) ==
    /\ DirectSaves
    /\ pc[p] = "idle"
    /\ used' = used \cup {k}
    /\ key' = [key EXCEPT ![p] = k]
    /\ loading' = [loading EXCEPT ![p] = FALSE]
    /\ pass' = [pass EXCEPT ![p] = w]
    /\ out' = [out EXCEPT ![p] = Nothing]
    /\ Goto(p, "ensure")
    /\ UNCHANGED <<file, dirs, buf, cur, done, crashes, saved, cut>>

\* A return or the end of a process: what was generated or read is dropped,
\* and the files stay as they are.
Return(p) ==
    /\ key' = [key EXCEPT ![p] = NoPair]
    /\ buf' = [buf EXCEPT ![p] = <<>>]
    /\ done' = [done EXCEPT ![p] = 0]
    /\ cur' = [cur EXCEPT ![p] = "priv"]
    /\ Goto(p, "idle")
    /\ UNCHANGED <<dirs, request, used>>

Succeed(p, keys) == out' = [out EXCEPT ![p] = keys]

\* Has p's save changed a file, and not yet written both?
HalfWritten(p) ==
    \/ pc[p] = "open" /\ cur[p] = "pub"
    \/ pc[p] = "write" /\ ~(cur[p] = "pub" /\ done[p] = 2)

EndsEarly(p) ==
    /\ Return(p)
    /\ cut' = (cut \/ (~loading[p] /\ HalfWritten(p)))
    /\ UNCHANGED <<file, saved>>

\* Mutant: a load whose save failed returns the keys as if they were saved.
FailUnreported(p) ==
    /\ pc[p] # "idle"
    /\ IF loading[p] /\ pc[p] = "write" THEN Succeed(p, <<key[p], key[p]>>)
                                       ELSE UNCHANGED out
    /\ EndsEarly(p)
    /\ UNCHANGED crashes

\* Any call to the system or to OpenSSL can fail.
Fail(p) ==
    /\ pc[p] # "idle"
    /\ EndsEarly(p)
    /\ UNCHANGED <<out, crashes>>

\* The process dies, and is restarted.
Crash(p) ==
    /\ crashes < MaxCrashes
    /\ pc[p] # "idle" \/ out[p] # Nothing
    /\ crashes' = crashes + 1
    /\ out' = [out EXCEPT ![p] = Nothing]
    /\ EndsEarly(p)

-----------------------------------------------------------------------------
(* load_keys_from_wallet.                                                  *)

\* Mutant: every failure to read the file is taken for a missing file.
AnyErrorIsMissing == file["priv"] \in {Absent, <<>>}

\* Only a file that cannot be opened because it is not there is missing: an
\* empty file is an error (Fail).
PrivMissing == file["priv"] = Absent

\* A read sees one state of the file: one that mixes two states is refused
\* by the tag check, as a failure.
ReadPriv(p) ==
    /\ pc[p] = "readPriv"
    /\ \/ /\ PrivMissing
          /\ Goto(p, "generate")
          /\ UNCHANGED buf
       \/ /\ file["priv"] \notin {Absent, <<>>}
          /\ buf' = [buf EXCEPT ![p] = file["priv"]]
          /\ Goto(p, "readPub")
    /\ UNCHANGED <<file, dirs, request, saving, out, crashes, saved, cut>>

\* LocalSaveDecrypt: magic, key derivation and tag check in one.
Decrypts(c, w) ==
    \E k \in Pairs : c = <<LocalSaveEncrypt(k, w), LocalSaveEncrypt(k, w)>>

\* Mutant: keys that do not decrypt are taken for missing ones.
PubUnusable(p) ==
    /\ pc[p] = "readPub"
    /\ file["pub"] = Absent \/ ~Decrypts(buf[p], pass[p])
    /\ buf' = [buf EXCEPT ![p] = <<>>]
    /\ Goto(p, "generate")
    /\ UNCHANGED <<file, dirs, request, saving, out, crashes, saved, cut>>

PubMissing(p) ==
    /\ pc[p] = "readPub"
    /\ file["pub"] = Absent
    /\ buf' = [buf EXCEPT ![p] = <<>>]
    /\ Goto(p, "generate")
    /\ UNCHANGED <<file, dirs, request, saving, out, crashes, saved, cut>>

\* The two files are decrypted apart: nothing compares the halves of the
\* pair.
ReadPub(p) ==
    /\ pc[p] = "readPub"
    /\ file["pub"] # Absent
    /\ Decrypts(buf[p], pass[p])
    /\ Decrypts(file["pub"], pass[p])
    /\ Succeed(p, <<buf[p][1][1], file["pub"][1][1]>>)
    /\ Return(p)
    /\ UNCHANGED <<file, crashes, saved, cut>>

-----------------------------------------------------------------------------
(* create_wallet, GenerateSignKeys and GenerateEncKeys.                    *)

\* Each mkdir accepts a directory that another process made meanwhile.
MakeDir(p) ==
    /\ pc[p] \in {"generate", "ensure"}
    /\ dirs < 3
    /\ dirs' = dirs + 1
    /\ UNCHANGED <<file, pc, request, buf, saving, out, crashes, saved, cut>>

Generate(p, k) ==
    /\ pc[p] = "generate"
    /\ dirs = 3
    /\ k \notin used
    /\ used' = used \cup {k}
    /\ key' = [key EXCEPT ![p] = k]
    /\ Goto(p, "ensure")
    /\ UNCHANGED <<file, dirs, request, buf, cur, done, out, crashes, saved, cut>>

-----------------------------------------------------------------------------
(* save_keys_to_wallet: save_file_0600 on the private, then on the public  *)
(* key file.  Nothing is written to a temporary file or renamed.           *)

\* Mutant: a private key file that is already there is not written again.
EnsureDirKeepPriv(p) ==
    /\ pc[p] = "ensure"
    /\ dirs = 3
    /\ Goto(p, "open")
    /\ cur' = [cur EXCEPT ![p] = IF PrivMissing THEN "priv" ELSE "pub"]
    /\ UNCHANGED <<file, dirs, request, buf, key, done, used, out, crashes,
                   saved, cut>>

EnsureDir(p) ==
    /\ pc[p] = "ensure"
    /\ dirs = 3
    /\ Goto(p, "open")
    /\ UNCHANGED <<file, dirs, request, buf, saving, out, crashes, saved, cut>>

OpenTruncate(p) ==
    /\ pc[p] = "open"
    /\ file' = [file EXCEPT ![cur[p]] = <<>>]
    /\ done' = [done EXCEPT ![p] = 0]
    /\ Goto(p, "write")
    /\ UNCHANGED <<dirs, request, buf, key, cur, used, out, crashes, saved, cut>>

\* Mutant: the write starts one chunk after the offset.
OverwrittenPast(c, from, to, e) ==
    [i \in 1..(IF Len(c) > to THEN Len(c) ELSE to + 1) |->
        IF i \in (from + 1)..(to + 1) THEN e
        ELSE IF i <= Len(c) THEN c[i] ELSE Hole]

\* A process writes at its own offset: chunks from..to of its encryption,
\* over whatever the file holds now.
Overwritten(c, from, to, e) ==
    [i \in 1..(IF Len(c) > to THEN Len(c) ELSE to) |->
        IF i \in from..to THEN e ELSE IF i <= Len(c) THEN c[i] ELSE Hole]

\* One write(2): the rest of the buffer, or a part of it.
Write(p) ==
    /\ pc[p] = "write"
    /\ done[p] < 2
    /\ \E n \in (done[p] + 1)..2 :
         /\ file' = [file EXCEPT ![cur[p]] =
                       Overwritten(@, done[p] + 1, n,
                                   LocalSaveEncrypt(key[p], pass[p]))]
         /\ done' = [done EXCEPT ![p] = n]
         /\ LET complete == cur[p] = "pub" /\ n = 2 IN
              /\ saved' = IF complete THEN key[p] ELSE saved
              /\ cut' = (cut /\ ~complete)
    /\ UNCHANGED <<dirs, pc, request, buf, key, cur, used, out, crashes>>

ClosePriv(p) ==
    /\ pc[p] = "write" /\ cur[p] = "priv" /\ done[p] = 2
    /\ cur' = [cur EXCEPT ![p] = "pub"]
    /\ Goto(p, "open")
    /\ UNCHANGED <<file, dirs, request, buf, key, done, used, out, crashes, saved, cut>>

ClosePub(p) ==
    /\ pc[p] = "write" /\ cur[p] = "pub" /\ done[p] = 2
    /\ IF loading[p] THEN Succeed(p, <<key[p], key[p]>>) ELSE UNCHANGED out
    /\ Return(p)
    /\ UNCHANGED <<file, crashes, saved, cut>>

-----------------------------------------------------------------------------
Saving(p) == pc[p] \in {"generate", "ensure", "open", "write"}

Overlap ==
    \E p, q \in Procs : p # q /\ Saving(p) /\ pc[q] # "idle"

Step(p) ==
        \/ \E w \in Passwords :
             LoadCall(p, w) \/ \E k \in Pairs : SaveCall(p, w, k)
        \/ ReadPriv(p) \/ PubMissing(p) \/ ReadPub(p)
        \/ MakeDir(p) \/ \E k \in Pairs : Generate(p, k)
        \/ EnsureDir(p) \/ OpenTruncate(p) \/ Write(p)
        \/ ClosePriv(p) \/ ClosePub(p)
        \/ Fail(p) \/ Crash(p)

Next ==
    /\ \E p \in Procs : Step(p)
    /\ overlapped' = (overlapped \/ Overlap')

Spec == Init /\ [][Next]_vars

-----------------------------------------------------------------------------
(* Properties.                                                             *)

\* What a file holds that is there.
Written == {<<>>} \cup {<<c>> : c \in Chunks} \cup (Chunks \X Chunks)

\* The type of the state.
TypeOK ==
    /\ file \in [Names -> Written \cup {Absent}]
    /\ dirs \in 0..3
    /\ pc \in [Procs -> {"idle", "readPriv", "readPub", "generate", "ensure",
                         "open", "write"}]
    /\ loading \in [Procs -> BOOLEAN]
    /\ pass \in [Procs -> Passwords]
    /\ key \in [Procs -> Pairs \cup {NoPair}]
    /\ buf \in [Procs -> Written]
    /\ cur \in [Procs -> Names]
    /\ done \in [Procs -> 0..2]
    /\ out \in [Procs -> (Pairs \cup {NoPair}) \X (Pairs \cup {NoPair})]
    /\ used \subseteq Pairs
    /\ crashes \in 0..MaxCrashes
    /\ saved \in Pairs \cup {NoPair}
    /\ {cut, overlapped} \subseteq BOOLEAN

Whole(n) == \E w \in Passwords : file[n] # Absent /\ Decrypts(file[n], w)

\* Calls that save have had the wallet to themselves, no direct save was cut
\* short without a complete one after it, and none is half way.
Orderly ==
    ~overlapped /\ ~cut /\ \A p \in Procs : ~loading[p] => ~HalfWritten(p)

\* Two whole files are halves of one pair, whatever fails or crashes, unless
\* saves overlapped or a direct save over a pair that was there was cut short
\* between the files; and a complete save mends that.
WholeFilesMatch ==
    Orderly /\ Whole("priv") /\ Whole("pub") => file["priv"] = file["pub"]

\* A pair that a save has written to both files stays there, whole, through every failed
\* load, crash and wrong password.
SavedIsOnDisk ==
    Orderly /\ saved # NoPair =>
        file["priv"] = file["pub"] /\ \E w \in Passwords :
            file["priv"] = <<LocalSaveEncrypt(saved, w), LocalSaveEncrypt(saved, w)>>

\* The node keeps its identity: once a pair is saved, only a direct save puts
\* another one in its place, never a load that failed to read it.
IdentityStable ==
    [][saved # NoPair /\ saved' # saved /\ ~overlapped' =>
         \E p \in Procs : pc[p] = "write" /\ ~loading[p]]_vars

\* A load that succeeds returns the pair last saved, its own if it had to
\* generate one: not a pair that is not on disk, nor halves of two.
LoadsReturnTheSaved ==
    [][\A p \in Procs :
         out'[p] \notin {out[p], Nothing} /\ Orderly /\ ~overlapped' =>
             out'[p] = <<saved', saved'>>]_vars

Quiet == \A p \in Procs : ~Saving(p)

Present == Absent \notin {file[n] : n \in Names}

SaveBegins == \E p \in Procs : pc'[p] = "ensure" /\ ~loading'[p]

\* Any number of processes load while nobody saves: as long as both files
\* are there, whole, torn or empty, no load generates a pair or touches a
\* file, whatever it fails on.  A damaged wallet stays for its owner to mend.
LoadsLeaveFiles ==
    [][Present /\ Quiet /\ ~SaveBegins => Quiet' /\ UNCHANGED file]_vars

\* "Load Ed25519 signing keys.  If missing, generate and save them": when
\* every process has loaded its keys, they are the ones that are saved.
LoadedKeysAreSaved ==
    (\A p \in Procs : pc[p] = "idle" /\ out[p] # Nothing) =>
        /\ Whole("priv") /\ Whole("pub")
        /\ \A p \in Procs :
             out[p] = <<file["priv"][1][1], file["pub"][1][1]>>
=============================================================================
