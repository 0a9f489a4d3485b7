--------------------------- MODULE RegistryProofs ---------------------------
(***************************************************************************)
(* Theorems about Registry, for any number of requests, networks and rows. *)
(***************************************************************************)
EXTENDS Registry, FiniteSetTheorems, TLAPS

-----------------------------------------------------------------------------
(* Type correctness, and the state of a request.                           *)

\* A request that waits for its write knows what it will write: a create its
\* row, a report the row it read, which is still there under its key.
RequestInv ==
    \A r \in Requests :
        /\ pc[r] = "new" => ask[r] = None
        /\ pc[r] = "save" => ask[r] \in Create
        /\ pc[r] = "write" =>
             /\ ask[r] \in Update
             /\ entity[r] \in [id : Ids, row : Row]
             /\ entity[r].id \in Rows
             /\ entity[r].row.networkId = ask[r].networkId

TypeInv == TypeOK /\ RequestInv

\* A row is never None, so writing one leaves exactly its key occupied.
LEMMA RowsAfter ==
    ASSUME TypeOK, NEW i \in Ids, NEW row \in Row,
           table' = [table EXCEPT ![i] = row]
    PROVE  /\ table' \in [Ids -> Row \cup {None}]
           /\ Rows' = Rows \cup {i}
  BY NoneAssumption DEF TypeOK, Rows

\* Rewriting a row that is there adds no key.
LEMMA RowsAfterRewrite ==
    ASSUME TypeOK, NEW i \in Ids, i \in Rows, NEW row \in Row,
           table' = [table EXCEPT ![i] = row]
    PROVE  table' \in [Ids -> Row \cup {None}] /\ Rows' = Rows
  <1>1. Rows \cup {i} = Rows
    OBVIOUS
  <1> QED BY <1>1, RowsAfter

\* Writing the count into a row leaves its other columns alone.
LEMMA RowWithCount ==
    ASSUME NEW row \in Row, NEW c \in Counts
    PROVE  [row EXCEPT !.activePeers = c]
             = [networkId |-> row.networkId, profile |-> row.profile,
                activePeers |-> c]
  BY DEF Row

\* The keys in use are finitely many.
LEMMA RowsFinite ==
    /\ IsFiniteSet(Rows)
    /\ Cardinality(Rows) \in Nat
  <1>1. Rows \in SUBSET Ids
    BY DEF Rows
  <1> QED BY <1>1, RegistryAssumption, FS_Subset, FS_CardinalityType

\* A report that waits for its write will write the row it read under its
\* name, with the count it was sent.
LEMMA WrittenRow ==
    ASSUME TypeInv, NEW r \in Requests, pc[r] = "write"
    PROVE  /\ entity[r].id \in Rows /\ entity[r].id \in Ids
           /\ WithCount(r) \in Row
           /\ WithCount(r).networkId = ask[r].networkId
           /\ WithCount(r).profile = entity[r].row.profile
           /\ WithCount(r).activePeers = ask[r].count
           /\ ask[r].networkId \in Networks /\ ask[r].count \in Counts
  <1>1. /\ ask[r] \in Update /\ entity[r] \in [id : Ids, row : Row]
        /\ entity[r].id \in Rows
        /\ entity[r].row.networkId = ask[r].networkId
    BY DEF TypeInv, RequestInv
  <1>2. ask[r].networkId \in Networks /\ ask[r].count \in Counts
    BY <1>1 DEF Update
  <1>3. entity[r].row \in Row /\ entity[r].id \in Ids
    BY <1>1
  <1>4. WithCount(r) = [networkId |-> entity[r].row.networkId,
                        profile |-> entity[r].row.profile,
                        activePeers |-> ask[r].count]
    BY <1>2, <1>3, RowWithCount DEF WithCount
  <1> QED BY <1>1, <1>2, <1>3, <1>4 DEF Row

\* A refusal changes only where the request is.
LEMMA RefuseKeepsType ==
    ASSUME TypeInv, NEW r \in Requests, Refuse(r)
    PROVE  TypeInv'
  BY DEF TypeInv, TypeOK, RequestInv, Refuse, Goto, Rows

\* Creating a network keeps the types: a new row takes the next key.
LEMMA TypeCreate ==
    ASSUME TypeInv, NEW r \in Requests,
           \/ \E q \in Create : CreateNetwork(r, q)
           \/ Insert(r) \/ Merge(r)
    PROVE  TypeInv'
  <1> USE DEF TypeInv, TypeOK, RequestInv, Goto
  <1>1. ASSUME NEW q \in Create, CreateNetwork(r, q) PROVE TypeInv'
    <2>1. Rows' = Rows
      BY <1>1 DEF CreateNetwork, Rows
    <2> QED BY <1>1, <2>1 DEF CreateNetwork
  <1>2. CASE Insert(r)
    <2>1. ask[r].row \in Row /\ ask[r] \in Create
      BY <1>2 DEF Insert, Create
    <2>2. PICK i \in Ids : /\ i = Cardinality(Rows) + 1
                           /\ table' = [table EXCEPT ![i] = ask[r].row]
      BY <1>2 DEF Insert
    <2>3. table' \in [Ids -> Row \cup {None}] /\ Rows' = Rows \cup {i}
      BY <2>1, <2>2, RowsAfter
    <2>4. i \notin Rows
      BY <2>2, RowsFinite
    <2>5. Cardinality(Rows') = Cardinality(Rows) + 1
      BY <2>3, <2>4, RowsFinite, FS_AddElement
    <2>6. Rows' = 1..Cardinality(Rows')
      BY <2>2, <2>3, <2>5, RowsFinite
    <2> QED BY <1>2, <2>3, <2>6 DEF Insert
  <1>3. CASE Merge(r)
    <2>1. ask[r].row \in Row /\ ask[r].id \in Rows /\ ask[r].id \in Ids
      BY <1>3 DEF Merge, Create, Rows
    <2>2. table' = [table EXCEPT ![ask[r].id] = ask[r].row]
      BY <1>3 DEF Merge
    <2>3. table' \in [Ids -> Row \cup {None}] /\ Rows' = Rows
      BY <2>1, <2>2, RowsAfterRewrite
    <2> QED BY <1>3, <2>3 DEF Merge
  <1> QED BY <1>1, <1>2, <1>3

\* Reporting a count keeps the types: the row it read is still there.
LEMMA TypeReport ==
    ASSUME TypeInv, NEW r \in Requests,
           \/ \E q \in Update : ReadForUpdate(r, q)
           \/ WriteCount(r)
    PROVE  TypeInv'
  <1> USE DEF TypeInv, TypeOK, RequestInv, Goto
  <1>1. ASSUME NEW q \in Update, ReadForUpdate(r, q) PROVE TypeInv'
    <2>1. PICK i \in Find(q.networkId) :
            entity' = [entity EXCEPT ![r] = [id |-> i, row |-> table[i]]]
      BY <1>1 DEF ReadForUpdate
    <2>2. /\ i \in Ids /\ i \in Rows /\ table[i] \in Row
          /\ table[i].networkId = q.networkId
      BY <2>1 DEF Find, Rows
    <2>3. Rows' = Rows
      BY <1>1 DEF ReadForUpdate, Rows
    <2>4. [id |-> i, row |-> table[i]] \in [id : Ids, row : Row]
      BY <2>2
    <2> QED BY <1>1, <2>1, <2>2, <2>3, <2>4 DEF ReadForUpdate
  <1>2. CASE WriteCount(r)
    <2>1. WithCount(r) \in Row /\ entity[r].id \in Rows /\ entity[r].id \in Ids
      BY <1>2, WrittenRow DEF WriteCount
    <2>2. table' = [table EXCEPT ![entity[r].id] = WithCount(r)]
      BY <1>2 DEF WriteCount
    <2>3. table' \in [Ids -> Row \cup {None}] /\ Rows' = Rows
      BY <2>1, <2>2, RowsAfterRewrite
    <2> QED BY <1>2, <2>3 DEF WriteCount
  <1> QED BY <1>1, <1>2

\* TypeInv holds at the start and is kept by every step.
LEMMA TypeInductive ==
    /\ Init => TypeInv
    /\ TypeInv /\ [Next]_vars => TypeInv'
  <1>1. Init => TypeInv
    <2> SUFFICES ASSUME Init PROVE TypeInv
      OBVIOUS
    <2>1. Rows = {}
      BY DEF Init, Rows
    <2>2. Rows = 1..Cardinality(Rows)
      BY <2>1, FS_EmptySet
    <2> QED BY <2>2 DEF Init, TypeInv, TypeOK, RequestInv
  <1>2. ASSUME TypeInv, [Next]_vars PROVE TypeInv'
    <2>1. CASE UNCHANGED vars
      BY <1>2, <2>1 DEF vars, TypeInv, TypeOK, RequestInv, Rows
    <2> QED BY <1>2, <2>1, TypeCreate, TypeReport, RefuseKeepsType
            DEF Next, SaveRefused, NotFound, WriteRefused
  <1> QED BY <1>1, <1>2

\* The registry's state has its type, and the keys in use are a prefix of
\* 1, 2, 3..., for any requests in any interleaving.
THEOREM RegistryTypeCorrect == Spec => []TypeOK
  <1>1. TypeInv => TypeOK
    BY DEF TypeInv
  <1> QED BY <1>1, TypeInductive, PTL DEF Spec

-----------------------------------------------------------------------------
(* One row per network.                                                    *)

\* What OneRowPerNetwork counts, said of the rows themselves.
DistinctRows ==
    \A i, j \in Rows : table[i].networkId = table[j].networkId => i = j

\* A write that the UNIQUE constraint lets through keeps the rows distinct.
LEMMA UniqueKeepsDistinct ==
    ASSUME TypeOK, DistinctRows, NEW i \in Ids, NEW row \in Row,
           Unique(i, row.networkId), table' = [table EXCEPT ![i] = row]
    PROVE  DistinctRows'
  <1>1. Rows' = Rows \cup {i}
    BY RowsAfter
  <1>2. \A j \in Rows : j # i => table[j].networkId # row.networkId
    BY DEF Unique, Find
  <1>3. \A j \in Rows' : table'[j] = IF j = i THEN row ELSE table[j]
    BY DEF Rows, TypeOK
  <1> QED BY <1>1, <1>2, <1>3 DEF DistinctRows

\* The only steps that write the table, and what they write.
LEMMA OnlyWrites ==
    ASSUME TypeInv, [Next]_vars
    PROVE  \/ UNCHANGED table
           \/ \E r \in Requests, i \in Ids, row \in Row :
                /\ Unique(i, row.networkId)
                /\ table' = [table EXCEPT ![i] = row]
                /\ pc' = [pc EXCEPT ![r] = "answered"]
                /\ ask' = ask /\ entity' = entity
                /\ \/ /\ pc[r] = "save" /\ ask[r] \in Create /\ ask[r].row = row
                      /\ ask[r].id = None => i \notin Rows
                      /\ ask[r].id # None => i = ask[r].id /\ i \in Rows
                   \/ pc[r] = "write" /\ i = entity[r].id /\ row = WithCount(r)
  <1>1. ASSUME NEW r \in Requests, Insert(r)
        PROVE  \E i \in Ids, row \in Row :
                /\ Unique(i, row.networkId)
                /\ table' = [table EXCEPT ![i] = row]
                /\ pc' = [pc EXCEPT ![r] = "answered"]
                /\ ask' = ask /\ entity' = entity
                /\ pc[r] = "save" /\ ask[r] \in Create /\ ask[r].row = row
                /\ ask[r].id = None /\ i \notin Rows
    <2>1. ask[r] \in Create /\ ask[r].row \in Row /\ pc[r] = "save"
      BY <1>1 DEF Insert, TypeInv, RequestInv, Create
    <2>2. PICK i \in Ids : /\ i = Cardinality(Rows) + 1
                           /\ Unique(i, ask[r].row.networkId)
                           /\ table' = [table EXCEPT ![i] = ask[r].row]
      BY <1>1 DEF Insert
    <2>3. i \notin Rows
      BY <2>2, RowsFinite DEF TypeInv, TypeOK
    <2> QED BY <1>1, <2>1, <2>2, <2>3 DEF Insert, Goto
  <1>2. ASSUME NEW r \in Requests, Merge(r)
        PROVE  \E i \in Ids, row \in Row :
                /\ Unique(i, row.networkId)
                /\ table' = [table EXCEPT ![i] = row]
                /\ pc' = [pc EXCEPT ![r] = "answered"]
                /\ ask' = ask /\ entity' = entity
                /\ pc[r] = "save" /\ ask[r] \in Create /\ ask[r].row = row
                /\ ask[r].id # None /\ i = ask[r].id /\ i \in Rows
    <2>1. /\ ask[r] \in Create /\ ask[r].row \in Row /\ pc[r] = "save"
          /\ ask[r].id \in Rows /\ ask[r].id \in Ids /\ ask[r].id # None
      BY <1>2, NoneAssumption DEF Merge, TypeInv, RequestInv, Create, Rows
    <2> QED BY <1>2, <2>1 DEF Merge, Goto
  <1>3. ASSUME NEW r \in Requests, WriteCount(r)
        PROVE  \E i \in Ids, row \in Row :
                /\ Unique(i, row.networkId)
                /\ table' = [table EXCEPT ![i] = row]
                /\ pc' = [pc EXCEPT ![r] = "answered"]
                /\ ask' = ask /\ entity' = entity
                /\ pc[r] = "write" /\ i = entity[r].id /\ row = WithCount(r)
    BY <1>3, WrittenRow DEF WriteCount, Goto
  <1>4. ASSUME NEW r \in Requests,
               \/ \E q \in Create : CreateNetwork(r, q)
               \/ \E q \in Update : ReadForUpdate(r, q) \/ NotFound(r, q)
               \/ SaveRefused(r) \/ WriteRefused(r)
        PROVE  UNCHANGED table
    BY <1>4 DEF CreateNetwork, ReadForUpdate, NotFound, SaveRefused,
                WriteRefused, Refuse
  <1>5. CASE UNCHANGED vars
    BY <1>5 DEF vars
  <1>6. ASSUME NEW r \in Requests, Insert(r) \/ Merge(r) \/ WriteCount(r)
        PROVE  \E i \in Ids, row \in Row :
                /\ Unique(i, row.networkId)
                /\ table' = [table EXCEPT ![i] = row]
                /\ pc' = [pc EXCEPT ![r] = "answered"]
                /\ ask' = ask /\ entity' = entity
                /\ \/ /\ pc[r] = "save" /\ ask[r] \in Create /\ ask[r].row = row
                      /\ ask[r].id = None => i \notin Rows
                      /\ ask[r].id # None => i = ask[r].id /\ i \in Rows
                   \/ pc[r] = "write" /\ i = entity[r].id /\ row = WithCount(r)
    BY <1>1, <1>2, <1>3, <1>6
  <1> QED BY <1>4, <1>5, <1>6 DEF Next

\* DistinctRows holds at the start and is kept by every step.
LEMMA DistinctInductive ==
    /\ Init => DistinctRows
    /\ TypeInv /\ DistinctRows /\ [Next]_vars => DistinctRows'
  <1>1. Init => DistinctRows
    BY DEF Init, DistinctRows, Rows
  <1>2. ASSUME TypeInv, DistinctRows, [Next]_vars PROVE DistinctRows'
    <2>1. CASE UNCHANGED table
      BY <1>2, <2>1 DEF DistinctRows, Rows
    <2>2. CASE ~UNCHANGED table
      <3>1. PICK r \in Requests, i \in Ids, row \in Row :
              Unique(i, row.networkId) /\ table' = [table EXCEPT ![i] = row]
        BY <1>2, <2>2, OnlyWrites
      <3> QED BY <1>2, <3>1, UniqueKeepsDistinct DEF TypeInv
    <2> QED BY <2>1, <2>2
  <1> QED BY <1>1, <1>2

\* No two rows ever have the same networkId, whatever creates, renames,
\* retries and late reports cross: findByNetworkId never finds two.
THEOREM NetworksAreUnique == Spec => []OneRowPerNetwork
  <1>1. DistinctRows => OneRowPerNetwork
    <2> SUFFICES ASSUME DistinctRows, NEW n \in Networks
                 PROVE  Cardinality(Find(n)) <= 1
      BY DEF OneRowPerNetwork
    <2>1. CASE Find(n) = {}
      BY <2>1, FS_EmptySet
    <2>2. CASE Find(n) # {}
      <3>1. PICK i : i \in Find(n)
        BY <2>2
      <3>2. Find(n) = {i}
        BY <3>1 DEF Find, DistinctRows
      <3>3. Cardinality({i}) = 1
        BY FS_Singleton
      <3>4. Cardinality(Find(n)) = 1
        BY <3>2, <3>3
      <3> QED BY <3>4
    <2> QED BY <2>1, <2>2
  <1> QED BY <1>1, TypeInductive, DistinctInductive, PTL DEF Spec

-----------------------------------------------------------------------------
(* Counts stay with the network they were reported for.                    *)

\* A request that has been answered stays so.
LEMMA AnswersStand ==
    ASSUME TypeInv, [Next]_vars, NEW r \in Requests, pc[r] = "answered"
    PROVE  pc'[r] = "answered" /\ ask'[r] = ask[r]
  BY DEF Next, vars, CreateNetwork, Insert, Merge, SaveRefused, ReadForUpdate,
         NotFound, WriteCount, WriteRefused, Refuse, Goto, TypeInv, TypeOK

\* CountsBelong holds at the start and is kept by every step: the step that
\* writes a row answers the request it came from.
LEMMA CountsInductive ==
    /\ Init => CountsBelong
    /\ TypeInv /\ CountsBelong /\ [Next]_vars => CountsBelong'
  <1>1. Init => CountsBelong
    BY DEF Init, CountsBelong, Rows
  <1>2. ASSUME TypeInv, CountsBelong, [Next]_vars PROVE CountsBelong'
    <2> DEFINE Vouches(r, x) ==
                 /\ pc[r] = "answered"
                 /\ \/ ask[r] \in Create /\ ask[r].row = x
                    \/ /\ ask[r] \in Update /\ ask[r].networkId = x.networkId
                       /\ ask[r].count = x.activePeers
    <2>1. ASSUME NEW r \in Requests, NEW x, Vouches(r, x)
          PROVE  Vouches(r, x)'
      BY <1>2, <2>1, AnswersStand
    <2>2. ASSUME NEW j \in Rows, table'[j] = table[j]
          PROVE  \E r \in Requests : Vouches(r, table[j])'
      BY <1>2, <2>1, <2>2 DEF CountsBelong
    <2> SUFFICES ASSUME NEW j \in Rows'
                 PROVE  \E r \in Requests : Vouches(r, table[j])'
      BY DEF CountsBelong
    <2>3. CASE UNCHANGED table
      BY <2>2, <2>3 DEF Rows
    <2>4. CASE ~UNCHANGED table
      <3>1. PICK r \in Requests, i \in Ids, row \in Row :
                /\ table' = [table EXCEPT ![i] = row]
                /\ pc' = [pc EXCEPT ![r] = "answered"]
                /\ ask' = ask
                /\ \/ pc[r] = "save" /\ ask[r] \in Create /\ ask[r].row = row
                   \/ pc[r] = "write" /\ row = WithCount(r)
        BY <1>2, <2>4, OnlyWrites
      <3>2. CASE j # i
        <4>1. j \in Rows /\ table'[j] = table[j]
          BY <1>2, <3>1, <3>2 DEF Rows, TypeInv, TypeOK
        <4> QED BY <2>2, <4>1
      <3>3. CASE j = i
        <4>1. table'[j] = row /\ pc'[r] = "answered" /\ ask'[r] = ask[r]
          BY <1>2, <3>1, <3>3 DEF TypeInv, TypeOK
        <4>2. CASE ask[r] \in Create /\ ask[r].row = row
          BY <4>1, <4>2
        <4>3. CASE pc[r] = "write" /\ row = WithCount(r)
          <5>1. /\ ask[r] \in Update /\ ask[r].networkId = row.networkId
                /\ ask[r].count = row.activePeers
            BY <1>2, <4>3, WrittenRow DEF TypeInv, RequestInv
          <5> QED BY <4>1, <5>1
        <4> QED BY <3>1, <4>2, <4>3
      <3> QED BY <3>2, <3>3
    <2> QED BY <2>3, <2>4
  <1> QED BY <1>1, <1>2

\* Every peer count that is shown was reported for, or created with, the name
\* it is shown under, even when rows are renamed between the two transactions
\* of a report.
THEOREM CountsAreTheirNetworks == Spec => []CountsBelong
  BY TypeInductive, CountsInductive, PTL DEF Spec

-----------------------------------------------------------------------------
(* The contract, for clients that leave primary keys alone.                *)

\* Without a create that carries a key, the row that a report read can change
\* under it only in its count.
UntouchedRows ==
    NoMerges => \A r \in Requests : pc[r] = "write" =>
        /\ table[entity[r].id].networkId = entity[r].row.networkId
        /\ table[entity[r].id].profile = entity[r].row.profile

\* Requests are asked once, so a merge that has been asked for stays so.
LEMMA MergesStay ==
    ASSUME TypeInv, [Next]_vars, NoMerges'
    PROVE  NoMerges
  <1>1. \A r \in Requests : ask'[r] = ask[r] \/ ask[r] = None
    BY DEF Next, vars, CreateNetwork, Insert, Merge, SaveRefused,
           ReadForUpdate, NotFound, WriteCount, WriteRefused, Refuse,
           TypeInv, TypeOK, RequestInv
  <1> QED BY <1>1, NoneAssumption DEF NoMerges

\* UntouchedRows holds at the start and is kept by every step.
LEMMA UntouchedInductive ==
    /\ Init => UntouchedRows
    /\ TypeInv /\ DistinctRows /\ UntouchedRows /\ [Next]_vars => UntouchedRows'
  <1>1. Init => UntouchedRows
    BY DEF Init, UntouchedRows
  <1>2. ASSUME TypeInv, DistinctRows, UntouchedRows, [Next]_vars
        PROVE  UntouchedRows'
    <2> SUFFICES ASSUME NoMerges', NEW r \in Requests, pc'[r] = "write"
                 PROVE  /\ table'[entity'[r].id].networkId
                              = entity'[r].row.networkId
                        /\ table'[entity'[r].id].profile = entity'[r].row.profile
      BY DEF UntouchedRows
    <2>1. NoMerges
      BY <1>2, MergesStay
    <2>2. CASE UNCHANGED table
      <3>1. CASE pc[r] = "write"
        <4>1. entity'[r] = entity[r]
          BY <1>2, <3>1 DEF Next, vars, CreateNetwork, Insert, Merge,
             SaveRefused, ReadForUpdate, NotFound, WriteCount, WriteRefused,
             Refuse, TypeInv, TypeOK
        <4> QED BY <1>2, <2>1, <2>2, <3>1, <4>1 DEF UntouchedRows
      <3>2. CASE pc[r] # "write"
        <4>1. PICK q \in Update : ReadForUpdate(r, q)
          BY <1>2, <3>2 DEF Next, vars, CreateNetwork, Insert, Merge,
             SaveRefused, ReadForUpdate, NotFound, WriteCount, WriteRefused,
             Refuse, Goto, TypeInv, TypeOK
        <4>2. PICK i \in Find(q.networkId) :
                entity'[r] = [id |-> i, row |-> table[i]]
          BY <1>2, <4>1 DEF ReadForUpdate, TypeInv, TypeOK
        <4> QED BY <2>2, <4>2
      <3> QED BY <3>1, <3>2
    <2>3. CASE ~UNCHANGED table
      <3>1. PICK s \in Requests, i \in Ids, row \in Row :
                /\ table' = [table EXCEPT ![i] = row]
                /\ pc' = [pc EXCEPT ![s] = "answered"]
                /\ ask' = ask /\ entity' = entity
                /\ \/ ask[s] \in Create /\ (ask[s].id = None => i \notin Rows)
                   \/ pc[s] = "write" /\ i = entity[s].id /\ row = WithCount(s)
        BY <1>2, <2>3, OnlyWrites
      <3>2. pc[r] = "write" /\ entity[r].id \in Rows /\ entity[r].id \in Ids
        BY <1>2, <3>1, WrittenRow DEF TypeInv, TypeOK
      <3>3. /\ table[entity[r].id].networkId = entity[r].row.networkId
            /\ table[entity[r].id].profile = entity[r].row.profile
        BY <1>2, <2>1, <3>2 DEF UntouchedRows
      <3>4. CASE entity[r].id # i
        <4>1. table'[entity[r].id] = table[entity[r].id]
          BY <1>2, <3>1, <3>2, <3>4 DEF TypeInv, TypeOK
        <4> QED BY <3>1, <3>3, <4>1
      <3>5. CASE entity[r].id = i
        <4>1. pc[s] = "write" /\ i = entity[s].id /\ row = WithCount(s)
          BY <2>1, <3>1, <3>2, <3>5 DEF NoMerges
        <4>2. /\ row.networkId = table[i].networkId
              /\ row.profile = table[i].profile
          BY <1>2, <2>1, <4>1, WrittenRow
             DEF UntouchedRows, TypeInv, RequestInv
        <4>3. table'[i] = row
          BY <1>2, <3>1 DEF TypeInv, TypeOK
        <4> QED BY <3>1, <3>3, <3>5, <4>2, <4>3
      <3> QED BY <3>4, <3>5
    <2> QED BY <2>2, <2>3
  <1> QED BY <1>1, <1>2

Shown(row) == [profile |-> row.profile, activePeers |-> row.activePeers]

\* What is shown of a network is its row.
EntriesShowRows ==
    \A n \in Networks :
        /\ (\A i \in Rows : table[i].networkId # n) => Entries[n] = None
        /\ \A i \in Rows : table[i].networkId = n =>
                               Entries[n] = Shown(table[i])

\* As rows are distinct, findByNetworkId has one row to show, or none.
LEMMA EntryOfRow == DistinctRows => EntriesShowRows
  <1> SUFFICES ASSUME DistinctRows, NEW n \in Networks
               PROVE  /\ (\A i \in Rows : table[i].networkId # n) =>
                             Entries[n] = None
                      /\ \A i \in Rows : table[i].networkId = n =>
                             Entries[n] = Shown(table[i])
    BY DEF EntriesShowRows
  <1>1. ASSUME \A i \in Rows : table[i].networkId # n
        PROVE  Entries[n] = None
    <2>1. Find(n) = {}
      BY <1>1 DEF Find
    <2> QED BY <2>1 DEF Entries
  <1>2. ASSUME NEW i \in Rows, table[i].networkId = n
        PROVE  Entries[n] = Shown(table[i])
    <2>1. Find(n) = {i}
      BY <1>2 DEF Find, DistinctRows
    <2>2. (CHOOSE j \in Find(n) : TRUE) = i
      BY <2>1
    <2>3. Find(n) # {}
      BY <2>1
    <2> QED BY <2>2, <2>3 DEF Entries, Shown
  <1> QED BY <1>1, <1>2

\* A step that writes one row shows it under its name, and leaves what is
\* shown under other names alone if the row had that name, or is new.
LEMMA WriteShows ==
    ASSUME TypeOK, DistinctRows, NEW i \in Ids, NEW row \in Row,
           Unique(i, row.networkId), table' = [table EXCEPT ![i] = row],
           i \in Rows => table[i].networkId = row.networkId
    PROVE  /\ Entries' = [Entries EXCEPT ![row.networkId] = Shown(row)]
           /\ row.networkId \in Networks
           /\ i \notin Rows => Entries[row.networkId] = None
           /\ i \in Rows => Entries[row.networkId] = Shown(table[i])
  <1>1. DistinctRows'
    BY UniqueKeepsDistinct
  <1>2. EntriesShowRows /\ EntriesShowRows'
    BY <1>1, EntryOfRow, PTL
  <1>3. Rows' = Rows \cup {i}
    BY RowsAfter
  <1>4. /\ i \in Rows' /\ table'[i] = row
        /\ \A j \in Rows : j # i => table'[j] = table[j] /\ j \in Rows'
    BY <1>3 DEF Rows, TypeOK
  <1>5. row.networkId \in Networks
    BY DEF Row
  <1>6. \A j \in Rows : j # i => table[j].networkId # row.networkId
    BY DEF Unique, Find
  <1>7. Entries'[row.networkId] = Shown(row)
    BY <1>2, <1>4, <1>5 DEF EntriesShowRows
  <1>8. ASSUME NEW n \in Networks, n # row.networkId
        PROVE  Entries'[n] = Entries[n]
    <2>1. CASE \E j \in Rows : table[j].networkId = n
      <3>1. PICK j \in Rows : table[j].networkId = n
        BY <2>1
      <3>2. j # i
        BY <1>8, <3>1
      <3>3. j \in Rows' /\ table'[j] = table[j]
        BY <1>4, <3>2
      <3> QED BY <1>2, <3>1, <3>3 DEF EntriesShowRows
    <2>2. CASE \A j \in Rows : table[j].networkId # n
      <3>1. \A j \in Rows' : table'[j].networkId # n
        BY <1>3, <1>4, <1>8, <2>2
      <3> QED BY <1>2, <2>2, <3>1 DEF EntriesShowRows
    <2> QED BY <2>1, <2>2
  <1>9. Entries' = [Entries EXCEPT ![row.networkId] = Shown(row)]
    BY <1>5, <1>7, <1>8 DEF Entries
  <1>10. i \notin Rows => Entries[row.networkId] = None
    BY <1>2, <1>5, <1>6 DEF EntriesShowRows
  <1>11. i \in Rows => Entries[row.networkId] = Shown(table[i])
    BY <1>2, <1>5 DEF EntriesShowRows
  <1> QED BY <1>5, <1>9, <1>10, <1>11

\* A create or a report is one step of the contract, and every other step is
\* invisible in it.
LEMMA RegistryStep ==
    ASSUME TypeInv, DistinctRows, UntouchedRows, [Next]_vars, NoMerges'
    PROVE  Contract!Next \/ UNCHANGED Entries
  <1>1. CASE UNCHANGED table
    BY <1>1 DEF Entries, Find, Rows
  <1>2. CASE ~UNCHANGED table
    <2>1. NoMerges
      BY MergesStay
    <2>2. PICK r \in Requests, i \in Ids, row \in Row :
            /\ Unique(i, row.networkId)
            /\ table' = [table EXCEPT ![i] = row]
            /\ \/ /\ ask[r] \in Create
                  /\ ask[r].id = None => i \notin Rows
               \/ pc[r] = "write" /\ i = entity[r].id /\ row = WithCount(r)
      BY <1>2, OnlyWrites
    <2> DEFINE n == row.networkId
    <2>3. CASE i \notin Rows
      <3>1. /\ Entries' = [Entries EXCEPT ![n] = Shown(row)]
            /\ n \in Networks /\ Entries[n] = None
        BY <2>2, <2>3, WriteShows DEF TypeInv
      <3>2. Shown(row) \in Contract!Entry
        BY DEF Shown, Row, Contract!Entry
      <3> QED BY <3>1, <3>2 DEF Contract!Next, Contract!Register
    <2>4. CASE i \in Rows
      <3>1. pc[r] = "write" /\ i = entity[r].id /\ row = WithCount(r)
        BY <2>1, <2>2, <2>4 DEF NoMerges
      <3>2. /\ table[i].networkId = n /\ table[i].profile = row.profile
            /\ row.activePeers \in Counts
        BY <2>1, <3>1, WrittenRow DEF UntouchedRows, TypeInv, RequestInv
      <3>3. /\ Entries' = [Entries EXCEPT ![n] = Shown(row)]
            /\ n \in Networks /\ Entries[n] = Shown(table[i])
        BY <2>2, <2>4, <3>2, WriteShows DEF TypeInv
      <3>4. table[i] \in Row
        BY <2>4 DEF TypeInv, TypeOK, Rows
      <3>5. Entries[n] # None
        BY <3>3, <3>4, NoneAssumption DEF Shown, Row
      <3>6. [Entries[n] EXCEPT !.activePeers = row.activePeers] = Shown(row)
        BY <3>2, <3>3 DEF Shown
      <3>7. Entries' = [Entries EXCEPT ![n].activePeers = row.activePeers]
        BY <3>3, <3>6
      <3> QED BY <3>2, <3>3, <3>5, <3>7 DEF Contract!Next, Contract!Report
    <2> QED BY <2>3, <2>4
  <1> QED BY <1>1, <1>2

\* As long as no create carries a primary key the registry does what
\* RegistryContract says, although a report is two transactions: whatever
\* crosses it, a registration is never taken back and a report only counts.
THEOREM RegistryKeepsContract == Spec => KeepsContractWithoutMerges
  <1>1. TypeInv /\ DistinctRows /\ UntouchedRows /\ [Next]_vars
          => [NoMerges' => Contract!Next \/ UNCHANGED Entries]_vars
    BY RegistryStep
  <1> QED BY <1>1, TypeInductive, DistinctInductive, UntouchedInductive, PTL
          DEF Spec, KeepsContractWithoutMerges
=============================================================================
