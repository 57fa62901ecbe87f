--------------------------- MODULE MCCarbonRooms ---------------------------
(***************************************************************************)
(* Instances of CarbonRooms for TLC.                                       *)
(***************************************************************************)
EXTENDS CarbonRooms, TLC

CONSTANTS u1, u2, g1, g2, a1, a2, MaxAtOnce

Symmetry == Permutations(Users) \union Permutations(Gids) \union Permutations(Addrs)

\* At most one room is past its setup, at most one is not a client's, and there
\* are at most MaxAtOnce of: absent players, Theater requests, addresses that are
\* to be told something, reconnects.
FewAtOnce ==
    /\ Cardinality({g \in Gids : race[g] \notin {NoRace, NewRace}}) <= 1
    /\ Cardinality({g \in Gids : rooms[g].status # "unused" /\ rooms[g].kind # "client"}) <= 1
    /\ Cardinality({u \in Users : client[u] # "online"})
       + Cardinality({u \in Users : theater[u] # NewConnection})
       + Cardinality({a \in Addrs : wire[a] # NewWire})
       + Cardinality(reconnect) <= MaxAtOnce
=============================================================================
