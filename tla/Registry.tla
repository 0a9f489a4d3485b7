------------------------------ MODULE Registry ------------------------------
(***************************************************************************)
(* The Bootstrapper's registry of networks: the REST requests that create  *)
(* a network or report its peer count, each a database transaction or two, *)
(* and the table networks they share.  Requests are served concurrently;   *)
(* no method is @Transactional, so updatePeerCount's read and its save are *)
(* transactions of their own.                                              *)
(*                                                                         *)
(* A row keeps its networkId, its peer count and, as one value, the        *)
(* columns that only createNetwork sets (name, URL, description, type,     *)
(* created_at).  Spring Data, Hibernate and MySQL are modelled from how    *)
(* the service calls them: save() inserts an entity that has no id and     *)
(* otherwise writes every column of it.                                    *)
(***************************************************************************)
EXTENDS Integers, FiniteSets

CONSTANTS
    Requests,   \* bounds the requests made
    Networks,   \* values of networkId
    Profiles,   \* values of the other columns
    Counts,     \* peer counts, any int: 0 for a new network among them
    Ids,        \* primary keys, a prefix of 1, 2, 3...: bounds the inserts
    None

ASSUME RegistryAssumption ==
    /\ 0 \in Counts /\ Counts \subseteq Int
    /\ IsFiniteSet(Ids) /\ Ids = 1..Cardinality(Ids)

VARIABLES
    table,    \* networks: a row, or None, per primary key
    pc,       \* where each request is
    ask,      \* what it asks for
    entity    \* the Network object updatePeerCount works on

vars == <<table, pc, ask, entity>>

Row == [networkId : Networks, profile : Profiles, activePeers : Counts]

\* createNetwork takes the body as it is, its id included.
Create == [id : Ids \cup {None}, row : Row]
Update == [networkId : Networks, count : Counts]

\* None is no value of the program.
ASSUME NoneAssumption ==
    None \notin Ids \cup Row \cup Create \cup Update
                  \cup [profile : Profiles, activePeers : Counts]

Init ==
    /\ table = [i \in Ids |-> None]
    /\ pc = [r \in Requests |-> "new"]
    /\ ask = [r \in Requests |-> None]
    /\ entity = [r \in Requests |-> None]

Rows == {i \in Ids : table[i] # None}
Find(n) == {i \in Rows : table[i].networkId = n}

Goto(r, l) == pc' = [pc EXCEPT ![r] = l]

\* An exception becomes an error response; the transaction is rolled back.
Refuse(r) ==
    /\ Goto(r, "refused")
    /\ UNCHANGED <<table, entity, ask>>

\* Mutant: the column has no UNIQUE constraint.
Unconstrained(i, n) == TRUE
\* UNIQUE(network_id), checked when row i is written.
Unique(i, n) == Find(n) \subseteq {i}

-----------------------------------------------------------------------------
(* POST /api/networks.                                                     *)

CreateNetwork(r, q) ==
    /\ pc[r] = "new"
    /\ ask' = [ask EXCEPT ![r] = q]
    /\ Goto(r, "save")
    /\ UNCHANGED <<table, entity>>

\* save() on an entity without id: INSERT under the next key.
Insert(r) ==
    /\ pc[r] = "save" /\ ask[r].id = None
    /\ \E i \in Ids :
         /\ i = Cardinality(Rows) + 1
         /\ Unique(i, ask[r].row.networkId)
         /\ table' = [table EXCEPT ![i] = ask[r].row]
    /\ Goto(r, "answered")
    /\ UNCHANGED <<ask, entity>>

\* save() on an entity with an id: every column of that row is written.
Merge(r) ==
    /\ pc[r] = "save" /\ ask[r].id \in Rows
    /\ Unique(ask[r].id, ask[r].row.networkId)
    /\ table' = [table EXCEPT ![ask[r].id] = ask[r].row]
    /\ Goto(r, "answered")
    /\ UNCHANGED <<ask, entity>>

\* Another row has this networkId, or the id names no row.
SaveRefused(r) ==
    /\ pc[r] = "save"
    /\ \/ ask[r].id \notin Rows \cup {None}
       \/ Find(ask[r].row.networkId) \ {ask[r].id} # {}
    /\ Refuse(r)

-----------------------------------------------------------------------------
(* PUT /api/networks/{networkId}/peers.                                    *)

\* getNetwork: the entity is a copy of the row, every column of it.
ReadForUpdate(r, q) ==
    /\ pc[r] = "new"
    /\ \E i \in Find(q.networkId) :
         entity' = [entity EXCEPT ![r] = [id |-> i, row |-> table[i]]]
    /\ ask' = [ask EXCEPT ![r] = q]
    /\ Goto(r, "write")
    /\ UNCHANGED table

NotFound(r, q) ==
    /\ pc[r] = "new"
    /\ Find(q.networkId) = {}
    /\ Refuse(r)

\* Mutant: the reported count is added to the one read.
CountAdded(r) == [entity[r].row EXCEPT !.activePeers = @ + ask[r].count]
\* Mutant: only the column that changed is written (@DynamicUpdate).
CountInPlace(r) ==
    [table[entity[r].id] EXCEPT !.activePeers = ask[r].count]
\* Mutant: the entity is built anew from what the request carries.
CountAlone(r) ==
    [entity[r].row EXCEPT !.activePeers = ask[r].count,
                          !.profile = CHOOSE f \in Profiles : TRUE]
WithCount(r) == [entity[r].row EXCEPT !.activePeers = ask[r].count]

WriteCount(r) ==
    /\ pc[r] = "write"
    /\ Unique(entity[r].id, WithCount(r).networkId)
    /\ table' = [table EXCEPT ![entity[r].id] = WithCount(r)]
    /\ Goto(r, "answered")
    /\ UNCHANGED <<ask, entity>>

WriteRefused(r) ==
    /\ pc[r] = "write"
    /\ Find(WithCount(r).networkId) \ {entity[r].id} # {}
    /\ Refuse(r)

-----------------------------------------------------------------------------
Next ==
    \E r \in Requests :
        \/ \E q \in Create : CreateNetwork(r, q)
        \/ Insert(r) \/ Merge(r) \/ SaveRefused(r)
        \/ \E q \in Update : ReadForUpdate(r, q) \/ NotFound(r, q)
        \/ WriteCount(r) \/ WriteRefused(r)

Spec == Init /\ [][Next]_vars

-----------------------------------------------------------------------------
(* Properties.                                                             *)

\* The type of the state.
TypeOK ==
    /\ table \in [Ids -> Row \cup {None}]
    /\ pc \in [Requests -> {"new", "save", "write", "answered", "refused"}]
    /\ ask \in [Requests -> Create \cup Update \cup {None}]
    /\ entity \in [Requests -> [id : Ids, row : Row] \cup {None}]
    /\ Rows = 1..Cardinality(Rows)

\* findByNetworkId returns an Optional: at most one network has an id, for
\* clients that retry a create whose answer was lost and for rows renamed by
\* a create that names an existing key, or back again by a late peer count.
OneRowPerNetwork == \A n \in Networks : Cardinality(Find(n)) <= 1

\* A peer count is never shown for a network it was not sent for: if the row
\* was renamed between the read and the write of updatePeerCount, the count
\* goes to the row under the name it was reported for.
CountsBelong ==
    \A i \in Rows : \E r \in Requests :
        /\ pc[r] = "answered"
        /\ \/ ask[r] \in Create /\ ask[r].row = table[i]
           \/ /\ ask[r] \in Update
              /\ ask[r].networkId = table[i].networkId
              /\ ask[r].count = table[i].activePeers

\* What findByNetworkId shows of each network.
Entries ==
    [n \in Networks |->
        IF Find(n) = {} THEN None
        ELSE LET row == table[CHOOSE i \in Find(n) : TRUE] IN
             [profile |-> row.profile, activePeers |-> row.activePeers]]

Contract == INSTANCE RegistryContract WITH entries <- Entries

NoMerges == \A r \in Requests : ask[r] \in Create => ask[r].id = None

\* As long as no create carries a primary key, the two transactions of a
\* report act as one step, whatever requests they cross and whichever of
\* them are refused: registrations are for good, and reports only count.
KeepsContractWithoutMerges ==
    [][NoMerges' => Contract!Next \/ UNCHANGED Entries]_vars

\* "Update peer count": answering a PUT changes nothing but the peer count.
PutChangesOnlyCount ==
    [][\A r \in Requests : pc[r] = "write" /\ pc'[r] = "answered" =>
         table' = [table EXCEPT ![entity[r].id].activePeers = ask[r].count]]_vars
=============================================================================
