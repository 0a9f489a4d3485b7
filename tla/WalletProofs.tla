---------------------------- MODULE WalletProofs ----------------------------
(***************************************************************************)
(* Theorems about Wallet, for any processes, key pairs, passwords and      *)
(* crashes.                                                                *)
(***************************************************************************)
EXTENDS Wallet, SequenceTheorems, TLAPS

\* n chunks of one encryption: a file that one save has written so far.
Copies(e, n) == [i \in 1..n |-> e]

\* An encryption is named by the pair and the password it was made from.
USE DEF LocalSaveEncrypt

Encryption(p) == <<key[p], pass[p]>>

-----------------------------------------------------------------------------
(* The inductive invariant.                                                *)

\* What holds whatever overlaps: files are never removed, and are opened in
\* order.
PlaceInv ==
    /\ \A p \in Procs :
         /\ pc[p] \in {"ensure", "open", "write"} => key[p] \in Pairs
         /\ pc[p] \notin {"open", "write"} => cur[p] = "priv"
         /\ pc[p] = "write" => file[cur[p]] # Absent
         /\ cur[p] = "pub" => file["priv"] # Absent
    /\ file["priv"] = Absent => file["pub"] = Absent
    /\ saved # NoPair => file["pub"] # Absent

\* Overlaps are recorded as they happen.
OverlapInv == Overlap => overlapped

TypeInv == TypeOK /\ PlaceInv /\ OverlapInv

\* What a save that has the wallet to itself has written so far.
Progress(p) ==
    /\ pc[p] = "open" /\ cur[p] = "pub" => file["priv"] = Copies(Encryption(p), 2)
    /\ pc[p] = "write" /\ cur[p] = "priv" =>
         file["priv"] = Copies(Encryption(p), done[p])
    /\ pc[p] = "write" /\ cur[p] = "pub" =>
         /\ file["priv"] = Copies(Encryption(p), 2)
         /\ file["pub"] = Copies(Encryption(p), done[p])
         /\ done[p] = 2 => saved = key[p]

\* A load saves only where there was no public key file, so over no saved
\* pair.
LoadSaves(p) ==
    loading[p] /\ Saving(p) =>
        IF pc[p] = "write" /\ cur[p] = "pub"
        THEN done[p] < 2 => saved = NoPair
        ELSE file["pub"] = Absent

\* A saved pair is in both files unless a direct save is half way or was cut.
SavedInFiles ==
    saved # NoPair => \E w \in Passwords :
        /\ file["priv"] = Copies(<<saved, w>>, 2)
        /\ file["pub"] = Copies(<<saved, w>>, 2)

OwnInv(p) ==
    /\ Progress(p)
    /\ LoadSaves(p)
    /\ pc[p] = "readPub" => buf[p] = file["priv"]

\* What holds while calls that save have the wallet to themselves.
SerialInv ==
    ~overlapped =>
        /\ \A p \in Procs : OwnInv(p)
        /\ Whole("pub") => saved # NoPair
        /\ Orderly => SavedInFiles

WalletInv == TypeInv /\ SerialInv

-----------------------------------------------------------------------------
(* Files and chunks.                                                       *)

\* At most two chunks in a row are what a file can hold.
LEMMA ShortIsWritten ==
    ASSUME NEW m \in 0..2, NEW s \in [1..m -> Chunks]
    PROVE  s \in Written
  <1>1. CASE m = 0
    <2>1. s = <<>>
      BY <1>1
    <2> QED BY <2>1 DEF Written
  <1>2. CASE m = 1
    <2>1. s = <<s[1]>> /\ s[1] \in Chunks
      BY <1>2
    <2> QED BY <2>1 DEF Written
  <1>3. CASE m = 2
    <2>1. s = <<s[1], s[2]>>
      BY <1>3
    <2>2. s[1] \in Chunks /\ s[2] \in Chunks
      BY <1>3
    <2>3. s \in Chunks \X Chunks
      BY <2>1, <2>2
    <2> QED BY <2>3 DEF Written
  <1> QED BY <1>1, <1>2, <1>3

\* And no missing file is one of them.
LEMMA WrittenIsShort ==
    ASSUME NEW s \in Written
    PROVE  s \in Seq(Chunks) /\ Len(s) \in 0..2 /\ s # Absent
  <1>1. s \in Seq(Chunks) /\ Len(s) \in 0..2
    <2>1. CASE s = <<>>
      BY <2>1
    <2>2. CASE \E c \in Chunks : s = <<c>>
      BY <2>2
    <2>3. CASE s \in Chunks \X Chunks
      <3>1. PICK c \in Chunks, d \in Chunks : s = <<c, d>>
        BY <2>3
      <3> QED BY <3>1
    <2> QED BY <2>1, <2>2, <2>3 DEF Written
  <1> QED BY <1>1, WalletAssumption DEF Chunks

\* A write(2) over what a file holds leaves a file of at most two chunks.
LEMMA OverwrittenIsWritten ==
    ASSUME NEW c \in Written, NEW d \in 0..1, NEW n \in (d + 1)..2,
           NEW e \in Chunks
    PROVE  /\ Overwritten(c, d + 1, n, e) \in Written
           /\ Overwritten(c, d + 1, n, e) # Absent
  <1> DEFINE m == IF Len(c) > n THEN Len(c) ELSE n
  <1>1. c \in Seq(Chunks) /\ Len(c) \in 0..2
    BY WrittenIsShort
  <1>2. m \in 1..2
    BY <1>1
  <1>3. \A i \in 1..m :
          (IF i \in (d + 1)..n THEN e ELSE IF i <= Len(c) THEN c[i] ELSE Hole)
            \in Chunks
    BY <1>1, <1>2 DEF Chunks
  <1>4. Overwritten(c, d + 1, n, e) \in [1..m -> Chunks]
    BY <1>3 DEF Overwritten
  <1> DEFINE s == Overwritten(c, d + 1, n, e)
  <1> HIDE DEF m, s
  <1>5. s \in [1..m -> Chunks]
    BY <1>4 DEF s
  <1>6. m \in 0..2
    BY <1>2
  <1>7. s \in Written
    BY <1>5, <1>6, ShortIsWritten
  <1> QED BY <1>7, WrittenIsShort DEF s

\* One encryption written from its start over what the file has of it so far.
LEMMA OverwrittenCopies ==
    ASSUME NEW e, NEW d \in 0..1, NEW n \in (d + 1)..2
    PROVE  Overwritten(Copies(e, d), d + 1, n, e) = Copies(e, n)
  <1>1. Copies(e, d) \in Seq({e}) /\ Len(Copies(e, d)) = d
    BY DEF Copies
  <1>2. (IF Len(Copies(e, d)) > n THEN Len(Copies(e, d)) ELSE n) = n
    BY <1>1
  <1>3. \A i \in 1..n :
          (IF i \in (d + 1)..n THEN e
           ELSE IF i <= Len(Copies(e, d)) THEN Copies(e, d)[i] ELSE Hole) = e
    BY <1>1 DEF Copies
  <1> QED BY <1>2, <1>3 DEF Overwritten, Copies

\* No chunk, one, and two.
LEMMA CopiesAre ==
    ASSUME NEW e
    PROVE  /\ Copies(e, 0) = <<>>
           /\ Copies(e, 1) = <<e>>
           /\ Copies(e, 2) = <<e, e>>
  BY DEF Copies

-----------------------------------------------------------------------------
(* Type correctness.                                                       *)

\* The first state: no file, and every process idle.
LEMMA InitTypes ==
    ASSUME Init
    PROVE  TypeInv
  <1>1. <<>> \in Written
    BY DEF Written
  <1>2. /\ file \in [Names -> Written \cup {Absent}]
        /\ dirs \in 0..3
        /\ buf \in [Procs -> Written]
        /\ crashes \in 0..MaxCrashes
    BY <1>1, WalletAssumption DEF Init
  <1>3. out \in [Procs -> (Pairs \cup {NoPair}) \X (Pairs \cup {NoPair})]
    BY DEF Init, Nothing
  <1>4. {cut, overlapped} \subseteq BOOLEAN
    BY DEF Init
  <1>5. TypeOK
    BY <1>2, <1>3, <1>4 DEF Init, TypeOK, Names
  <1>6. PlaceInv
    BY DEF Init, PlaceInv, Names
  <1>7. OverlapInv
    BY DEF Init, OverlapInv, Overlap, Saving
  <1> QED BY <1>5, <1>6, <1>7 DEF TypeInv

\* A call that ends, however it does, leaves its process as it began.
LEMMA ReturnTypes ==
    ASSUME TypeInv, NEW p \in Procs, Return(p), UNCHANGED <<file, saved>>,
           out' \in [Procs -> (Pairs \cup {NoPair}) \X (Pairs \cup {NoPair})],
           crashes' \in 0..MaxCrashes, cut' \in BOOLEAN,
           overlapped' \in BOOLEAN
    PROVE  TypeOK' /\ PlaceInv'
  <1>1. <<>> \in Written
    BY DEF Written
  <1>2. {cut, overlapped}' \subseteq BOOLEAN
    OBVIOUS
  <1>3. TypeOK'
    <2>1. /\ key' \in [Procs -> Pairs \cup {NoPair}]
          /\ buf' \in [Procs -> Written]
          /\ cur' \in [Procs -> Names]
          /\ done' \in [Procs -> 0..2]
          /\ pc' \in [Procs -> {"idle", "readPriv", "readPub", "generate",
                                "ensure", "open", "write"}]
      BY <1>1 DEF TypeInv, TypeOK, Names, Return, Goto
    <2>2. UNCHANGED <<file, dirs, loading, pass, used, saved>>
      BY DEF Return, request
    <2> QED BY <1>2, <2>1, <2>2 DEF TypeInv, TypeOK
  <1>4. PlaceInv'
    BY DEF TypeInv, TypeOK, PlaceInv, Names, Return, Goto
  <1> QED BY <1>3, <1>4

\* No call leaves the types or the places.
LEMMA StepTypes ==
    ASSUME TypeInv, NEW p \in Procs, Step(p),
           overlapped' = (overlapped \/ Overlap')
    PROVE  TypeInv'
  <1> USE DEF TypeInv, TypeOK, PlaceInv, Names
  <1>1. OverlapInv'
    BY DEF OverlapInv
  <1>2. overlapped' \in BOOLEAN
    BY DEF Overlap
  <1>3. ASSUME NEW w \in Passwords, LoadCall(p, w)
        PROVE  TypeOK' /\ PlaceInv'
    BY <1>2, <1>3 DEF LoadCall, Goto, saving, Nothing
  <1>4. ASSUME NEW w \in Passwords, NEW k \in Pairs, SaveCall(p, w, k)
        PROVE  TypeOK' /\ PlaceInv'
    BY <1>2, <1>4 DEF SaveCall, Goto, Nothing
  <1>5. ASSUME ReadPriv(p) PROVE TypeOK' /\ PlaceInv'
    BY <1>2, <1>5 DEF ReadPriv, Goto, saving, request, PrivMissing
  <1>6. ASSUME PubMissing(p) PROVE TypeOK' /\ PlaceInv'
    <2>1. <<>> \in Written
      BY DEF Written
    <2> QED BY <1>2, <1>6, <2>1 DEF PubMissing, Goto, saving, request
  <1>7. ASSUME ReadPub(p) PROVE TypeOK' /\ PlaceInv'
    <2>1. PICK w \in Passwords :
            Decrypts(buf[p], w) /\ Decrypts(file["pub"], w)
      BY <1>7 DEF ReadPub
    <2>2. buf[p][1][1] \in Pairs /\ file["pub"][1][1] \in Pairs
      BY <2>1 DEF Decrypts
    <2>3. out' \in [Procs -> (Pairs \cup {NoPair}) \X (Pairs \cup {NoPair})]
      BY <1>7, <2>2 DEF ReadPub, Succeed
    <2>4. Return(p) /\ UNCHANGED <<file, crashes, saved, cut>>
      BY <1>7 DEF ReadPub
    <2> QED BY <1>2, <2>3, <2>4, ReturnTypes
  <1>8. ASSUME MakeDir(p) PROVE TypeOK' /\ PlaceInv'
    BY <1>2, <1>8 DEF MakeDir, saving, request
  <1>9. ASSUME NEW k \in Pairs, Generate(p, k) PROVE TypeOK' /\ PlaceInv'
    BY <1>2, <1>9 DEF Generate, Goto, request
  <1>10. ASSUME EnsureDir(p) PROVE TypeOK' /\ PlaceInv'
    BY <1>2, <1>10 DEF EnsureDir, Goto, saving, request
  <1>11. ASSUME OpenTruncate(p) PROVE TypeOK' /\ PlaceInv'
    <2>1. <<>> \in Written /\ <<>> # Absent
      BY WrittenIsShort DEF Written
    <2> QED BY <1>2, <1>11, <2>1 DEF OpenTruncate, Goto, request
  <1>12. ASSUME Write(p) PROVE TypeOK' /\ PlaceInv'
    <2>1. PICK n \in (done[p] + 1)..2 :
            /\ file' = [file EXCEPT ![cur[p]] =
                          Overwritten(@, done[p] + 1, n, Encryption(p))]
            /\ done' = [done EXCEPT ![p] = n]
            /\ saved' = IF cur[p] = "pub" /\ n = 2 THEN key[p] ELSE saved
            /\ cut' = (cut /\ ~(cur[p] = "pub" /\ n = 2))
      BY <1>12 DEF Write, Encryption
    <2>2. pc[p] = "write" /\ done[p] \in 0..1
          /\ UNCHANGED <<dirs, pc, request, buf, key, cur, used, out, crashes>>
      BY <1>12 DEF Write
    <2>3. Encryption(p) \in Chunks /\ key[p] \in Pairs
      BY <2>2 DEF Encryption, Chunks
    <2>4. file[cur[p]] \in Written
      BY <2>2
    <2> HIDE DEF TypeInv, TypeOK, PlaceInv, Names
    <2>5. /\ Overwritten(file[cur[p]], done[p] + 1, n, Encryption(p)) \in Written
          /\ Overwritten(file[cur[p]], done[p] + 1, n, Encryption(p)) # Absent
      BY <2>2, <2>3, <2>4, OverwrittenIsWritten
    <2> USE DEF TypeInv, TypeOK, PlaceInv, Names
    <2>6. /\ file' \in [Names -> Written \cup {Absent}]
          /\ file'[cur[p]] # Absent
          /\ \A m \in Names : m # cur[p] => file'[m] = file[m]
      BY <2>1, <2>5
    <2>7. n \in 0..2 /\ cut' \in BOOLEAN
      BY <2>1, <2>2
    <2> QED BY <1>2, <2>1, <2>2, <2>3, <2>6, <2>7 DEF request
  <1>13. ASSUME ClosePriv(p) PROVE TypeOK' /\ PlaceInv'
    BY <1>2, <1>13 DEF ClosePriv, Goto, request
  <1>14. ASSUME ClosePub(p) PROVE TypeOK' /\ PlaceInv'
    <2>1. key[p] \in Pairs
      BY <1>14 DEF ClosePub
    <2>2. out' \in [Procs -> (Pairs \cup {NoPair}) \X (Pairs \cup {NoPair})]
      BY <1>14, <2>1 DEF ClosePub, Succeed
    <2>3. Return(p) /\ UNCHANGED <<file, crashes, saved, cut>>
      BY <1>14 DEF ClosePub
    <2> QED BY <1>2, <2>2, <2>3, ReturnTypes
  <1>15. ASSUME EndsEarly(p), out' = out \/ out' = [out EXCEPT ![p] = Nothing],
               crashes' \in 0..MaxCrashes
         PROVE TypeOK' /\ PlaceInv'
    <2>1. out' \in [Procs -> (Pairs \cup {NoPair}) \X (Pairs \cup {NoPair})]
      BY <1>15 DEF Nothing
    <2>2. Return(p) /\ UNCHANGED <<file, saved>> /\ cut' \in BOOLEAN
      BY <1>15 DEF EndsEarly, HalfWritten
    <2> QED BY <1>2, <1>15, <2>1, <2>2, ReturnTypes
  <1>16. ASSUME Fail(p) PROVE TypeOK' /\ PlaceInv'
    BY <1>15, <1>16 DEF Fail
  <1>17. ASSUME Crash(p) PROVE TypeOK' /\ PlaceInv'
    BY <1>15, <1>17, WalletAssumption DEF Crash
  <1> QED
    BY <1>1, <1>3, <1>4, <1>5, <1>6, <1>7, <1>8, <1>9, <1>10, <1>11, <1>12,
       <1>13, <1>14, <1>16, <1>17 DEF Step

\* A stutter keeps the types.
LEMMA StuttersKeepTypes ==
    ASSUME TypeInv, UNCHANGED vars
    PROVE  TypeInv'
  BY DEF TypeInv, TypeOK, PlaceInv, OverlapInv, Overlap, Saving, vars, history

\* Every state is typed, whatever is interleaved, fails or crashes.
THEOREM WalletTypeCorrect == Spec => []TypeOK
  <1>1. Init => TypeInv
    BY InitTypes
  <1>2. TypeInv /\ [Next]_vars => TypeInv'
    <2> SUFFICES ASSUME TypeInv, [Next]_vars PROVE TypeInv'
      OBVIOUS
    <2>1. CASE Next
      BY <2>1, StepTypes DEF Next
    <2>2. CASE UNCHANGED vars
      BY <2>2, StuttersKeepTypes
    <2> QED BY <2>1, <2>2
  <1>3. TypeInv => TypeOK
    BY DEF TypeInv
  <1> QED BY <1>1, <1>2, <1>3, PTL DEF Spec

-----------------------------------------------------------------------------
(* A step while nobody else saves.                                         *)

\* A step of p moves nobody else.
LEMMA StepIsLocal ==
    ASSUME TypeInv, NEW p \in Procs, Step(p), NEW q \in Procs, q # p
    PROVE  /\ pc'[q] = pc[q] /\ loading'[q] = loading[q]
           /\ pass'[q] = pass[q] /\ key'[q] = key[q]
           /\ buf'[q] = buf[q] /\ cur'[q] = cur[q]
           /\ done'[q] = done[q] /\ out'[q] = out[q]
  <1> USE DEF TypeInv, TypeOK, Goto, saving, request
  <1>1. CASE \/ \E w \in Passwords :
                LoadCall(p, w) \/ \E k \in Pairs : SaveCall(p, w, k)
             \/ \E k \in Pairs : Generate(p, k)
    BY <1>1 DEF LoadCall, SaveCall, Generate
  <1>2. CASE ReadPriv(p) \/ PubMissing(p) \/ MakeDir(p) \/ EnsureDir(p)
    BY <1>2 DEF ReadPriv, PubMissing, MakeDir, EnsureDir
  <1>3. CASE OpenTruncate(p) \/ Write(p) \/ ClosePriv(p)
    BY <1>3 DEF OpenTruncate, Write, ClosePriv
  <1>4. CASE ReadPub(p) \/ ClosePub(p)
    BY <1>4 DEF ReadPub, ClosePub, Return, Succeed
  <1>5. CASE Fail(p) \/ Crash(p)
    BY <1>5 DEF Fail, Crash, EndsEarly, Return
  <1> QED BY <1>1, <1>2, <1>3, <1>4, <1>5 DEF Step

\* While no calls overlap, a save has the wallet to itself.
LEMMA SavesAlone ==
    ASSUME TypeInv, NEW p \in Procs, Step(p), ~overlapped',
           overlapped' = (overlapped \/ Overlap'),
           NEW q \in Procs, q # p
    PROVE  /\ ~overlapped
           /\ Saving(p) \/ Saving(p)' => pc[q] = "idle"
           /\ pc[p] # "idle" \/ pc'[p] # "idle" => ~Saving(q)
  <1>1. ~overlapped /\ ~Overlap /\ ~Overlap'
    BY DEF TypeInv, OverlapInv
  <1>2. pc'[q] = pc[q]
    BY StepIsLocal
  <1> QED BY <1>1, <1>2 DEF Overlap, Saving

\* Only the opening of a file and a write(2) change files, and only the
\* latter what is saved.
Rewrites(p) == OpenTruncate(p) \/ Write(p)

\* The other steps leave the files and the saved pair alone.
LEMMA OthersKeepFiles ==
    ASSUME NEW p \in Procs, Step(p), ~Rewrites(p)
    PROVE  UNCHANGED <<file, saved>>
  BY DEF Step, Rewrites, LoadCall, SaveCall, ReadPriv, PubMissing, ReadPub,
         MakeDir, Generate, EnsureDir, ClosePriv, ClosePub, Fail, Crash,
         EndsEarly

\* Nor does any other step make the wallet orderly that was not.
LEMMA OthersKeepOrder ==
    ASSUME TypeInv, NEW p \in Procs, Step(p), ~Rewrites(p), Orderly',
           ~overlapped
    PROVE  Orderly
  <1> USE DEF TypeInv, TypeOK, Goto, saving, request, HalfWritten, Orderly
  <1>1. \A q \in Procs : q # p => (~loading[q] => ~HalfWritten(q))
    BY StepIsLocal
  <1>2. ~cut /\ (~loading[p] => ~HalfWritten(p))
    <2>1. CASE \/ \E w \in Passwords :
                  LoadCall(p, w) \/ \E k \in Pairs : SaveCall(p, w, k)
               \/ \E k \in Pairs : Generate(p, k)
      BY <2>1 DEF LoadCall, SaveCall, Generate
    <2>2. CASE ReadPriv(p) \/ PubMissing(p) \/ MakeDir(p)
      BY <2>2 DEF ReadPriv, PubMissing, MakeDir
    <2>3. CASE ReadPub(p) \/ ClosePub(p)
      BY <2>3 DEF ReadPub, ClosePub
    <2>4. CASE EnsureDir(p)
      BY <2>4 DEF EnsureDir
    <2>5. CASE ClosePriv(p)
      BY <2>5 DEF ClosePriv
    <2>6. CASE Fail(p) \/ Crash(p)
      BY <2>6 DEF Fail, Crash, EndsEarly
    <2> QED BY <2>1, <2>2, <2>3, <2>4, <2>5, <2>6 DEF Step, Rewrites
  <1> QED BY <1>1, <1>2

\* What another process has read or written so far stays so.
LEMMA OthersKeepOwn ==
    ASSUME TypeInv, SerialInv, NEW p \in Procs, Step(p), ~overlapped',
           overlapped' = (overlapped \/ Overlap'),
           NEW q \in Procs, q # p
    PROVE  OwnInv(q)'
  <1>1. ~overlapped /\ OwnInv(q)
    BY SavesAlone DEF SerialInv
  <1>2. CASE Rewrites(p)
    <2>1. Saving(p)
      BY <1>2 DEF Rewrites, OpenTruncate, Write, Saving
    <2>2. pc'[q] = "idle"
      BY <2>1, SavesAlone, StepIsLocal
    <2> QED BY <2>2 DEF OwnInv, Progress, LoadSaves, Saving
  <1>3. CASE ~Rewrites(p)
    BY <1>1, <1>3, OthersKeepFiles, StepIsLocal
       DEF OwnInv, Progress, LoadSaves, Saving, Encryption
  <1> QED BY <1>2, <1>3

\* Truncating a file: it holds no chunk of the save yet.
LEMMA TruncateIsOwn ==
    ASSUME TypeInv, NEW p \in Procs, OwnInv(p), OpenTruncate(p)
    PROVE  OwnInv(p)'
  <1> USE DEF TypeInv, TypeOK, PlaceInv, Names, OpenTruncate, Goto, request
  <1>1. /\ pc[p] = "open" /\ pc'[p] = "write" /\ done'[p] = 0
        /\ file'[cur[p]] = <<>>
        /\ \A n \in Names : n # cur[p] => file'[n] = file[n]
        /\ UNCHANGED <<loading, pass, key, cur, saved>>
    OBVIOUS
  <1>2. Progress(p)'
    BY <1>1, CopiesAre DEF OwnInv, Progress, Encryption
  <1>3. LoadSaves(p)'
    BY <1>1 DEF OwnInv, LoadSaves, Saving
  <1> QED BY <1>1, <1>2, <1>3 DEF OwnInv

\* A write(2): the file holds that much more of the save.
LEMMA WriteIsOwn ==
    ASSUME TypeInv, NEW p \in Procs, OwnInv(p), Write(p)
    PROVE  OwnInv(p)'
  <1> USE DEF TypeInv, TypeOK, Names
  <1>1. PICK n \in (done[p] + 1)..2 :
          /\ file' = [file EXCEPT ![cur[p]] =
                        Overwritten(@, done[p] + 1, n, Encryption(p))]
          /\ done' = [done EXCEPT ![p] = n]
          /\ saved' = IF cur[p] = "pub" /\ n = 2 THEN key[p] ELSE saved
    BY DEF Write, Encryption
  <1>2. /\ pc[p] = "write" /\ done[p] \in 0..1
        /\ UNCHANGED <<pc, loading, pass, key, cur>>
    BY DEF Write, request
  <1>3. file[cur[p]] = Copies(Encryption(p), done[p])
    BY <1>2 DEF OwnInv, Progress
  <1> HIDE DEF TypeInv, TypeOK, Names
  <1>4. Overwritten(file[cur[p]], done[p] + 1, n, Encryption(p))
          = Copies(Encryption(p), n)
    BY <1>2, <1>3, OverwrittenCopies
  <1>5. /\ file'[cur[p]] = Copies(Encryption(p), n)
        /\ \A m \in Names : m # cur[p] => file'[m] = file[m]
        /\ done'[p] = n
    BY <1>1, <1>4 DEF TypeInv, TypeOK
  <1>6. Progress(p)'
    BY <1>1, <1>2, <1>5 DEF OwnInv, Progress, Encryption, Names
  <1>7. LoadSaves(p)'
    BY <1>1, <1>2, <1>5 DEF OwnInv, LoadSaves, Saving, Names, TypeInv, TypeOK
  <1> QED BY <1>2, <1>6, <1>7 DEF OwnInv

\* Every step keeps what its process has read or written so far.
LEMMA StepIsOwn ==
    ASSUME TypeInv, NEW p \in Procs, OwnInv(p), Step(p)
    PROVE  OwnInv(p)'
  <1> USE DEF TypeInv, TypeOK, PlaceInv, Names, Goto, saving, request, Saving,
              OwnInv, Progress, LoadSaves, Encryption
  <1>1. CASE \E w \in Passwords :
               LoadCall(p, w) \/ \E k \in Pairs : SaveCall(p, w, k)
    BY <1>1 DEF LoadCall, SaveCall
  <1>2. CASE ReadPriv(p)
    BY <1>2 DEF ReadPriv, PrivMissing
  <1>3. CASE PubMissing(p) \/ MakeDir(p) \/ EnsureDir(p)
    BY <1>3 DEF PubMissing, MakeDir, EnsureDir
  <1>4. CASE \E k \in Pairs : Generate(p, k)
    BY <1>4 DEF Generate
  <1>5. CASE ClosePriv(p)
    BY <1>5 DEF ClosePriv
  <1>6. CASE ReadPub(p) \/ ClosePub(p)
    BY <1>6 DEF ReadPub, ClosePub, Return
  <1>7. CASE Fail(p) \/ Crash(p)
    BY <1>7 DEF Fail, Crash, EndsEarly, Return
  <1>8. CASE OpenTruncate(p)
    BY <1>8, TruncateIsOwn
  <1>9. CASE Write(p)
    BY <1>9, WriteIsOwn
  <1> QED
    BY <1>1, <1>2, <1>3, <1>4, <1>5, <1>6, <1>7, <1>8, <1>9 DEF Step

-----------------------------------------------------------------------------
(* The saved pair is in the files.                                         *)

\* A file that decrypts holds two chunks: an empty or a torn one does not.
LEMMA OnlyWholeDecrypts ==
    ASSUME NEW e, NEW n \in 0..1, NEW w
    PROVE  ~Decrypts(Copies(e, n), w)
  <1>1. Len(Copies(e, n)) = n
    BY DEF Copies
  <1> QED BY <1>1 DEF Decrypts

\* The public key file becomes whole only as a save completes.
LEMMA WholeIsSaved ==
    ASSUME WalletInv, NEW p \in Procs, Step(p), ~overlapped',
           overlapped' = (overlapped \/ Overlap'), Whole("pub")'
    PROVE  saved' # NoPair
  <1>1. ~overlapped /\ OwnInv(p) /\ (Whole("pub") => saved # NoPair)
    BY DEF WalletInv, SerialInv
  <1>2. CASE ~Rewrites(p)
    BY <1>1, <1>2, OthersKeepFiles DEF Whole
  <1>3. CASE OpenTruncate(p)
    <2>1. UNCHANGED saved /\ file' = [file EXCEPT ![cur[p]] = <<>>]
      BY <1>3 DEF OpenTruncate
    <2>2. ~\E w \in Passwords : Decrypts(<<>>, w)
      BY OnlyWholeDecrypts, CopiesAre
    <2>3. cur[p] # "pub"
      BY <2>1, <2>2 DEF Whole, WalletInv, TypeInv, TypeOK, Names
    <2>4. Whole("pub")
      BY <2>1, <2>3 DEF Whole, WalletInv, TypeInv, TypeOK, Names
    <2> QED BY <1>1, <2>1, <2>4
  <1>4. CASE Write(p)
    <2>1. PICK n \in (done[p] + 1)..2 :
            /\ file' = [file EXCEPT ![cur[p]] =
                          Overwritten(@, done[p] + 1, n, Encryption(p))]
            /\ done' = [done EXCEPT ![p] = n]
            /\ saved' = IF cur[p] = "pub" /\ n = 2 THEN key[p] ELSE saved
      BY <1>4 DEF Write, Encryption
    <2>2. pc[p] = "write" /\ done[p] \in 0..1 /\ key[p] \in Pairs
          /\ UNCHANGED <<pc, cur>>
      BY <1>4 DEF Write, WalletInv, TypeInv, TypeOK, PlaceInv
    <2>3. CASE cur[p] = "priv"
      <3>1. Whole("pub")
        BY <2>1, <2>3 DEF Whole, WalletInv, TypeInv, TypeOK, Names
      <3> QED BY <1>1, <2>1, <2>3, <3>1
    <2>4. CASE cur[p] = "pub"
      <3>1. done'[p] = n /\ file'["pub"] = Copies(Encryption(p)', n)
        <4>1. OwnInv(p)'
          BY <1>1, <1>4, WriteIsOwn DEF WalletInv
        <4>2. done'[p] = n
          BY <2>1 DEF WalletInv, TypeInv, TypeOK
        <4> QED BY <2>2, <2>4, <4>1, <4>2 DEF OwnInv, Progress, WalletInv,
                                              TypeInv, TypeOK
      <3>2. n # 1
        BY <3>1, OnlyWholeDecrypts DEF Whole
      <3>3. n = 2
        BY <2>2, <3>2
      <3> QED BY <2>1, <2>2, <2>4, <3>3, WalletAssumption
    <2> QED BY <2>3, <2>4 DEF WalletInv, TypeInv, TypeOK, Names
  <1> QED BY <1>2, <1>3, <1>4 DEF Rewrites

\* A save that is half way, or a load that saves, is over no saved pair.
LEMMA RewritesKeepSaved ==
    ASSUME WalletInv, NEW p \in Procs, Rewrites(p), Step(p), ~overlapped',
           overlapped' = (overlapped \/ Overlap'), Orderly'
    PROVE  SavedInFiles'
  <1>1. ~overlapped /\ OwnInv(p) /\ OwnInv(p)'
    BY StepIsOwn DEF WalletInv, SerialInv
  <1>2. CASE OpenTruncate(p)
    <2>1. pc[p] = "open" /\ pc'[p] = "write" /\ done'[p] = 0
          /\ UNCHANGED <<loading, saved>>
      BY <1>2 DEF OpenTruncate, Goto, request, WalletInv, TypeInv, TypeOK
    <2>2. loading[p]
      BY <2>1 DEF Orderly, HalfWritten
    <2>3. file["pub"] = Absent
      BY <1>1, <2>1, <2>2 DEF OwnInv, LoadSaves, Saving
    <2>4. saved = NoPair
      BY <2>3 DEF WalletInv, TypeInv, PlaceInv
    <2> QED BY <2>1, <2>4 DEF SavedInFiles
  <1>3. CASE Write(p)
    <2>1. /\ pc[p] = "write" /\ pc'[p] = "write" /\ done[p] \in 0..1
          /\ UNCHANGED <<loading, key, pass, cur>>
      BY <1>3 DEF Write, request, WalletInv, TypeInv, TypeOK
    <2>2. saved' = IF cur'[p] = "pub" /\ done'[p] = 2 THEN key[p] ELSE saved
      BY <1>3, <2>1 DEF Write, WalletInv, TypeInv, TypeOK
    <2>3. CASE cur'[p] = "pub" /\ done'[p] = 2
      <3>1. file'["priv"] = Copies(Encryption(p)', 2)
            /\ file'["pub"] = Copies(Encryption(p)', 2)
        BY <1>1, <2>1, <2>3 DEF OwnInv, Progress
      <3>2. Encryption(p)' = <<saved', pass[p]>>
        BY <2>1, <2>2, <2>3 DEF Encryption
      <3>3. pass[p] \in Passwords
        BY DEF WalletInv, TypeInv, TypeOK
      <3> QED BY <3>1, <3>2, <3>3 DEF SavedInFiles
    <2>4. CASE ~(cur'[p] = "pub" /\ done'[p] = 2)
      <3>1. loading[p]
        BY <2>1, <2>4 DEF Orderly, HalfWritten
      <3>2. saved = NoPair
        BY <1>1, <2>1, <3>1
           DEF OwnInv, LoadSaves, Saving, WalletInv, TypeInv, TypeOK, PlaceInv
      <3> QED BY <2>2, <2>4, <3>2 DEF SavedInFiles
    <2> QED BY <2>3, <2>4
  <1> QED BY <1>2, <1>3 DEF Rewrites

\* The saved pair stays where it is under every other step.
LEMMA StepKeepsSaved ==
    ASSUME WalletInv, NEW p \in Procs, Step(p), ~overlapped',
           overlapped' = (overlapped \/ Overlap'), Orderly'
    PROVE  SavedInFiles'
  <1>1. CASE Rewrites(p)
    BY <1>1, RewritesKeepSaved
  <1>2. CASE ~Rewrites(p)
    <2>1. ~overlapped
      OBVIOUS
    <2>2. Orderly
      BY <1>2, <2>1, OthersKeepOrder DEF WalletInv
    <2> QED BY <1>2, <2>1, <2>2, OthersKeepFiles
            DEF WalletInv, SerialInv, SavedInFiles
  <1> QED BY <1>1, <1>2

\* Every step keeps the inductive invariant.
LEMMA StepKeepsWallet ==
    ASSUME WalletInv, NEW p \in Procs, Step(p),
           overlapped' = (overlapped \/ Overlap')
    PROVE  WalletInv'
  <1>1. TypeInv'
    BY StepTypes DEF WalletInv
  <1>2. ASSUME ~overlapped', NEW q \in Procs
        PROVE  OwnInv(q)'
    <2>1. CASE q = p
      BY <1>2, <2>1, StepIsOwn DEF WalletInv, SerialInv
    <2>2. CASE q # p
      BY <1>2, <2>2, OthersKeepOwn DEF WalletInv
    <2> QED BY <2>1, <2>2
  <1> QED BY <1>1, <1>2, WholeIsSaved, StepKeepsSaved DEF WalletInv, SerialInv

\* A stutter keeps it.
LEMMA StuttersKeepWallet ==
    ASSUME WalletInv, UNCHANGED vars
    PROVE  WalletInv'
  BY StuttersKeepTypes
     DEF WalletInv, SerialInv, OwnInv, Progress, LoadSaves, Saving, Encryption,
         Whole, Orderly, HalfWritten, SavedInFiles, vars, history

\* It holds at the start.
LEMMA InitIsWallet ==
    ASSUME Init
    PROVE  WalletInv
  <1>1. SerialInv
    BY DEF Init, SerialInv, OwnInv, Progress, LoadSaves, Saving, Whole,
           SavedInFiles, Names
  <1> QED BY <1>1, InitTypes DEF WalletInv

\* It holds of every behaviour.
LEMMA WalletInvHolds == Spec => []WalletInv
  <1>1. WalletInv /\ [Next]_vars => WalletInv'
    BY StepKeepsWallet, StuttersKeepWallet DEF Next
  <1> QED BY <1>1, InitIsWallet, PTL DEF Spec

-----------------------------------------------------------------------------
(* The properties of Wallet.                                               *)

\* The pair last saved is on disk, whole, through failed loads, crashes and
\* wrong passwords, while no calls overlap and no direct save was cut.
THEOREM SavedPairIsOnDisk == Spec => []SavedIsOnDisk
  <1>1. WalletInv => SavedIsOnDisk
    <2> SUFFICES ASSUME WalletInv, Orderly, saved # NoPair
                 PROVE  /\ file["priv"] = file["pub"]
                        /\ \E w \in Passwords :
                             file["priv"] = <<<<saved, w>>, <<saved, w>>>>
      BY DEF SavedIsOnDisk
    <2>1. SavedInFiles
      BY DEF WalletInv, SerialInv, Orderly
    <2>2. PICK w \in Passwords :
            /\ file["priv"] = Copies(<<saved, w>>, 2)
            /\ file["pub"] = Copies(<<saved, w>>, 2)
      BY <2>1 DEF SavedInFiles
    <2> QED BY <2>2, CopiesAre
  <1> QED BY <1>1, WalletInvHolds, PTL

\* Then two whole files are halves of one pair.
THEOREM FilesAreOnePair == Spec => []WholeFilesMatch
  <1>1. WalletInv => WholeFilesMatch
    <2> SUFFICES ASSUME WalletInv, Orderly, Whole("priv"), Whole("pub")
                 PROVE  file["priv"] = file["pub"]
      BY DEF WholeFilesMatch
    <2>1. saved # NoPair /\ SavedInFiles
      BY DEF WalletInv, SerialInv, Orderly
    <2> QED BY <2>1 DEF SavedInFiles
  <1> QED BY <1>1, WalletInvHolds, PTL

\* Only a direct save replaces a saved pair: a load that saves has found no
\* public key file, and a saved pair has one.
THEOREM IdentityIsStable == Spec => IdentityStable
  <1>1. ASSUME WalletInv, Next, saved # NoPair, saved' # saved, ~overlapped'
        PROVE  \E p \in Procs : pc[p] = "write" /\ ~loading[p]
    <2>1. PICK p \in Procs : Step(p) /\ overlapped' = (overlapped \/ Overlap')
      BY <1>1 DEF Next
    <2>2. Write(p)
      BY <1>1, <2>1, OthersKeepFiles DEF Rewrites, OpenTruncate
    <2>3. pc[p] = "write" /\ cur[p] = "pub" /\ done[p] < 2
      BY <1>1, <2>2 DEF Write
    <2>4. LoadSaves(p)
      BY <1>1, <2>1 DEF WalletInv, SerialInv, OwnInv
    <2>5. ~loading[p]
      BY <1>1, <2>3, <2>4 DEF LoadSaves, Saving
    <2> QED BY <2>3, <2>5
  <1>2. WalletInv /\ [Next]_vars =>
          [saved # NoPair /\ saved' # saved /\ ~overlapped' =>
             \E p \in Procs : pc[p] = "write" /\ ~loading[p]]_vars
    BY <1>1
  <1> QED BY <1>2, WalletInvHolds, PTL DEF Spec, IdentityStable

\* A load that read both files found the pair that is saved.
LEMMA ReadIsSaved ==
    ASSUME WalletInv, NEW p \in Procs, ReadPub(p), Orderly
    PROVE  out'[p] = <<saved, saved>>
  <1>1. Decrypts(file["pub"], pass[p]) /\ file["pub"] # Absent
        /\ pass[p] \in Passwords
    BY DEF ReadPub, WalletInv, TypeInv, TypeOK
  <1>2. saved # NoPair /\ SavedInFiles /\ OwnInv(p)
    BY <1>1 DEF WalletInv, SerialInv, Orderly, Whole
  <1>3. PICK w \in Passwords : /\ file["priv"] = Copies(<<saved, w>>, 2)
                               /\ file["pub"] = Copies(<<saved, w>>, 2)
    BY <1>2 DEF SavedInFiles
  <1>4. file["pub"] = <<<<saved, w>>, <<saved, w>>>> /\ buf[p] = file["pub"]
    BY <1>2, <1>3, CopiesAre DEF OwnInv, ReadPub
  <1>5. out'[p] = <<buf[p][1][1], file["pub"][1][1]>>
    BY DEF ReadPub, Succeed, WalletInv, TypeInv, TypeOK
  <1> QED BY <1>4, <1>5

\* A load that succeeds returns the pair that is saved when it returns.
THEOREM LoadsReturnSaved == Spec => LoadsReturnTheSaved
  <1>1. ASSUME WalletInv, Next, NEW q \in Procs,
               out'[q] \notin {out[q], Nothing}, Orderly, ~overlapped'
        PROVE  out'[q] = <<saved', saved'>>
    <2>1. PICK p \in Procs : Step(p) /\ overlapped' = (overlapped \/ Overlap')
      BY <1>1 DEF Next
    <2>2. p = q
      BY <1>1, <2>1, StepIsLocal DEF WalletInv
    <2>3. ReadPub(q) \/ (ClosePub(q) /\ loading[q])
      <3> USE DEF WalletInv, TypeInv, TypeOK
      <3>1. CASE \/ \E w \in Passwords :
                    LoadCall(q, w) \/ \E k \in Pairs : SaveCall(q, w, k)
                 \/ \E k \in Pairs : Generate(q, k)
        BY <1>1, <3>1 DEF LoadCall, SaveCall, Generate
      <3>2. CASE \/ ReadPriv(q) \/ PubMissing(q) \/ MakeDir(q)
                 \/ EnsureDir(q) \/ ClosePriv(q)
        BY <1>1, <3>2 DEF ReadPriv, PubMissing, MakeDir, EnsureDir, ClosePriv
      <3>3. CASE OpenTruncate(q) \/ Write(q) \/ Fail(q) \/ Crash(q)
        BY <1>1, <3>3 DEF OpenTruncate, Write, Fail, Crash
      <3>4. CASE ClosePub(q)
        BY <1>1, <3>4 DEF ClosePub
      <3> QED BY <2>1, <2>2, <3>1, <3>2, <3>3, <3>4 DEF Step
    <2>4. CASE ReadPub(q)
      BY <1>1, <2>4, ReadIsSaved DEF ReadPub
    <2>5. CASE ClosePub(q) /\ loading[q]
      <3>1. Progress(q)
        BY <1>1, <2>1 DEF WalletInv, SerialInv, OwnInv
      <3>2. saved = key[q] /\ UNCHANGED saved
        BY <2>5, <3>1 DEF ClosePub, Progress
      <3>3. out'[q] = <<key[q], key[q]>>
        BY <1>1, <2>5 DEF ClosePub, Succeed, WalletInv, TypeInv, TypeOK
      <3> QED BY <3>2, <3>3
    <2> QED BY <2>3, <2>4, <2>5
  <1>2. ASSUME WalletInv, [Next]_vars
        PROVE  [\A p \in Procs :
                  out'[p] \notin {out[p], Nothing} /\ Orderly /\ ~overlapped' =>
                      out'[p] = <<saved', saved'>>]_vars
    BY <1>1, <1>2
  <1> QED BY <1>2, WalletInvHolds, PTL DEF Spec, LoadsReturnTheSaved

\* While both files are there and nobody saves, loads leave them alone:
\* only a missing file makes a load generate a pair.
THEOREM LoadsLeaveTheFiles == Spec => LoadsLeaveFiles
  <1>1. ASSUME TypeInv, Next, Present, Quiet, ~SaveBegins
        PROVE  Quiet' /\ UNCHANGED file
    <2>1. PICK p \in Procs : Step(p)
      BY <1>1 DEF Next
    <2>2. ~Saving(p) /\ file["priv"] # Absent /\ file["pub"] # Absent
      BY <1>1 DEF Quiet, Present, Names
    <2>3. ~Saving(p)' /\ UNCHANGED file
      <3> USE DEF TypeInv, TypeOK, Goto, Saving
      <3>1. CASE \E w \in Passwords :
                   LoadCall(p, w) \/ \E k \in Pairs : SaveCall(p, w, k)
        BY <1>1, <3>1 DEF LoadCall, SaveCall, SaveBegins
      <3>2. CASE ReadPriv(p)
        <4>1. pc'[p] = "readPub" /\ UNCHANGED file
          BY <1>1, <2>2, <3>2 DEF ReadPriv, PrivMissing
        <4> QED BY <4>1
      <3>3. CASE ReadPub(p)
        BY <1>1, <3>3 DEF ReadPub, Return
      <3>4. CASE PubMissing(p)
        BY <1>1, <2>2, <3>4 DEF PubMissing
      <3>5. CASE Fail(p) \/ Crash(p)
        <4>1. pc'[p] = "idle" /\ UNCHANGED file
          BY <1>1, <3>5 DEF Fail, Crash, EndsEarly, Return
        <4> QED BY <4>1
      <3> QED
        BY <2>1, <2>2, <3>1, <3>2, <3>3, <3>4, <3>5
           DEF Step, MakeDir, Generate, EnsureDir, OpenTruncate, Write,
               ClosePriv, ClosePub
    <2>4. ASSUME NEW q \in Procs PROVE ~Saving(q)'
      BY <1>1, <2>1, <2>3, StepIsLocal DEF Saving, Quiet
    <2> QED BY <2>3, <2>4 DEF Quiet
  <1>2. TypeInv /\ [Next]_vars =>
          [Present /\ Quiet /\ ~SaveBegins => Quiet' /\ UNCHANGED file]_vars
    BY <1>1
  <1>3. WalletInv => TypeInv
    BY DEF WalletInv
  <1> QED BY <1>2, <1>3, WalletInvHolds, PTL DEF Spec, LoadsLeaveFiles
=============================================================================
