-------------------------- MODULE MCSessionLeases --------------------------
(***************************************************************************)
(* Instances of SessionLeases for TLC.  Carbon (k1, k2) and Most Wanted    *)
(* (m1) connections compete; Carbon is the game whose login displaces a    *)
(* duplicate.                                                              *)
(***************************************************************************)
EXTENDS SessionLeases, TLC

CONSTANTS a1, a2, p1, p2, p3, k1, k2, m1, carbon, mw

MCServer == {"carbonServer", "mwServer"}
MCProcess == {"carbonProcess", "classicProcess"}
MCServerOf == [c \in Connection |-> IF c = m1 THEN "mwServer" ELSE "carbonServer"]
MCProcessOf == [s \in Server |->
    IF s = "mwServer" THEN "classicProcess" ELSE "carbonProcess"]
MCGameOf == [s \in Server |-> IF s = "mwServer" THEN mw ELSE carbon]
MCTakeoverGames == {carbon}

\* Two accounts, one of them with two personas.
TwoAccountsOwner == [p \in Persona |-> IF p = p3 THEN a2 ELSE a1]

Symmetry == Permutations({k1, k2})

\* At most one account is restricted, in at most one way.
FewRestrictions ==
    \A a, b \in Account : \A x \in policy[a], y \in policy[b] : a = b /\ x = y
=============================================================================
