-------------------------- MODULE RegistryContract --------------------------
(***************************************************************************)
(* What clients of the registry that leave primary keys alone may rely on: *)
(* a name is registered once, by one client, and from then on only its     *)
(* peer count changes.                                                     *)
(***************************************************************************)
CONSTANTS Networks, Profiles, Counts, None

VARIABLE entries    \* what is known of each network, None if nothing

Entry == [profile : Profiles, activePeers : Counts]

Init == entries = [n \in Networks |-> None]

Register(n, e) ==
    /\ entries[n] = None
    /\ entries' = [entries EXCEPT ![n] = e]

Report(n, c) ==
    /\ entries[n] # None
    /\ entries' = [entries EXCEPT ![n].activePeers = c]

Next ==
    \E n \in Networks :
        (\E e \in Entry : Register(n, e)) \/ (\E c \in Counts : Report(n, c))

Spec == Init /\ [][Next]_entries
=============================================================================
