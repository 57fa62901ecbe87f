---------------------------- MODULE SingleLogin ----------------------------
(***************************************************************************)
(* What the shared session registry promises to the two servers, without   *)
(* the table, the clock or the transactions that implement it: an account  *)
(* is held by at most one connection, only a connection of the same game   *)
(* may take it over from a living one, and nobody is given a barred        *)
(* account.  A hold may be lost at any time (expiry, logout, kick).        *)
(***************************************************************************)
CONSTANTS
    Account, Connection,
    PlaysOf,        \* [Connection -> Game]
    TakeoverGames   \* games in which a second login displaces the first

VARIABLES
    held,     \* the pairs [acct, conn] of accounts and their holders
    barred,   \* accounts that may not be held
    gone      \* connections whose process has ended

vars == <<held, barred, gone>>

Hold == [acct : Account, conn : Connection]

Init == held = {} /\ barred = {} /\ gone = {}

MayDisplace(c, h) ==
    \/ h.conn = c
    \/ h.conn \in gone
    \/ PlaysOf[h.conn] = PlaysOf[c] /\ PlaysOf[c] \in TakeoverGames

\* Granting may also clear out holds of connections that are gone.
Grant(a, c) ==
    /\ c \notin gone
    /\ a \notin barred
    /\ \A h \in held : h.acct = a => MayDisplace(c, h)
    /\ \E lost \in SUBSET {h \in held : h.conn \in gone} :
           held' = {h \in held \ lost : h.acct # a /\ h.conn # c}
                       \union {[acct |-> a, conn |-> c]}
    /\ UNCHANGED <<barred, gone>>

Revoke ==
    /\ held' \in SUBSET held
    /\ UNCHANGED <<barred, gone>>

Bar(a) ==
    /\ barred' = barred \union {a}
    /\ held' = {h \in held : h.acct # a}
    /\ UNCHANGED gone

Unbar(a) ==
    /\ barred' = barred \ {a}
    /\ UNCHANGED <<held, gone>>

Fail ==
    /\ gone' \in SUBSET Connection
    /\ gone \subseteq gone'
    /\ UNCHANGED <<held, barred>>

Next ==
    \/ \E a \in Account, c \in Connection : Grant(a, c)
    \/ Revoke
    \/ \E a \in Account : Bar(a) \/ Unbar(a)
    \/ Fail

Spec == Init /\ [][Next]_vars
=============================================================================
