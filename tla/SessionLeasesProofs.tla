------------------------ MODULE SessionLeasesProofs ------------------------
(***************************************************************************)
(* Proofs about SessionLeases for every set of accounts, personas,         *)
(* connections and processes, and every lease length.                      *)
(***************************************************************************)
EXTENDS SessionLeases, TLAPS

\* What claim resolved in its first transaction stays a persona of the account
\* it will name in the second, and only a takeover game asks to replace.
PendingOwned ==
    \A c \in Connection :
        pending[c] # None =>
            /\ OwnerOf[pending[c].persona] = pending[c].acct
            /\ pending[c].replace => GameOn(c) \in TakeoverGames

\* KeysUnique is not inductive alone: a takeover skips the persona check, and
\* only ownership tells that the persona's row is the account's own row.
IInv ==
    /\ TypeOK
    /\ PendingOwned
    /\ KeysUnique
    /\ LeaseNamesOwnPersona
    /\ RestrictedHoldsNoLease

\* A registry step may delete rows and may add back rows of Row: this is all
\* the invariant needs to know of a step that only deletes.
LEMMA SubsetKeepsInvariant ==
    ASSUME IInv, sessions' \subseteq sessions,
           UNCHANGED <<personas, policy, mailed>>,
           pending' \in [Connection -> PendingClaim \union {None}],
           \A c \in Connection : pending'[c] \in {pending[c], None},
           up' \subseteq Process
    PROVE  IInv'
BY DEF IInv, TypeOK, PendingOwned, KeysUnique, LeaseNamesOwnPersona,
       RestrictedHoldsNoLease

\* What the prune and the two dead-owner checks of claim keep.
LEMMA ClaimDeletes ==
    ASSUME NEW c, NEW q, NEW dead
    PROVE  LET live == Unexpired(sessions)
               checked1 == DiscardDead(live, AccountRows(live, q.acct), dead)
               checked2 == DiscardDead(checked1, PersonaRows(checked1, q.persona), dead)
           IN  live \subseteq sessions /\ checked1 \subseteq sessions /\ checked2 \subseteq sessions
BY DEF Unexpired, DiscardDead

\* The row that claim inserts collides with no row it leaves in place.
LEMMA UpsertKeepsInvariant ==
    ASSUME IInv,
           NEW c \in Connection, NEW rows \in SUBSET sessions,
           pending[c] # None,
           ~Barred(pending[c].acct),
           personas[pending[c].persona] = "present",
           sessions' = Upsert(rows, c, pending[c].acct, pending[c].persona),
           pending' = [pending EXCEPT ![c] = None],
           UNCHANGED <<personas, policy, mailed, up>>
    PROVE  IInv'
<1> DEFINE q == pending[c]
           new == [acct |-> q.acct, persona |-> q.persona, conn |-> c, left |-> LeaseTicks]
<1>1. q \in PendingClaim /\ OwnerOf[q.persona] = q.acct
  BY DEF IInv, TypeOK, PendingOwned
<1>2. new \in Row
  BY <1>1, ConstantsAssumption DEF Row, PendingClaim
<1>3. sessions' = {r \in rows : r.conn # c /\ r.acct # q.acct} \union {new}
  BY DEF Upsert
<1>4. TypeOK'
  BY <1>2, <1>3 DEF IInv, TypeOK
<1>5. PendingOwned'
  BY DEF IInv, TypeOK, PendingOwned
<1>6. LeaseNamesOwnPersona'
  BY <1>1, <1>3 DEF IInv, LeaseNamesOwnPersona
<1>7. RestrictedHoldsNoLease'
  BY <1>3 DEF IInv, RestrictedHoldsNoLease, Barred
<1>8. KeysUnique'
  <2>1. \A r \in rows : r.conn # c /\ r.acct # q.acct =>
            r.acct # new.acct /\ r.persona # new.persona /\ r.conn # new.conn
    BY <1>1 DEF IInv, LeaseNamesOwnPersona
  <2>2. \A r, s \in rows : r.acct = s.acct \/ r.persona = s.persona \/ r.conn = s.conn => r = s
    BY DEF IInv, KeysUnique
  <2>3. QED
    BY <2>1, <2>2, <1>3 DEF KeysUnique
<1>9. QED
  BY <1>4, <1>5, <1>6, <1>7, <1>8 DEF IInv

\* Renewing a lease keeps its account and connection, and may move it to a
\* persona of the same account that nobody else has leased.
LEMMA RenewKeepsInvariant ==
    ASSUME IInv,
           NEW c \in Connection, NEW p \in Persona, NEW rows \in SUBSET sessions,
           NEW own \in OwnRows(rows, c),
           ~Barred(own.acct),
           OwnerOf[p] = own.acct, personas[p] = "present",
           \A o \in PersonaRows(rows, p) : o.conn = c,
           sessions' = Renew(rows, c, p),
           UNCHANGED <<personas, policy, mailed, pending, up>>
    PROVE  IInv'
<1> DEFINE new == [own EXCEPT !.persona = p, !.left = LeaseTicks]
<1>1. own \in sessions /\ own \in rows /\ own.conn = c /\ own \in Row
  BY DEF IInv, TypeOK, OwnRows
<1>2. OwnRows(rows, c) = {own}
  BY <1>1 DEF IInv, KeysUnique, OwnRows
<1>3. sessions' = {r \in rows : r.conn # c} \union {new}
  BY <1>2 DEF Renew
<1>4. new \in Row /\ new.acct = own.acct /\ new.conn = c /\ new.persona = p
  <2>1. LeaseTicks \in 0..LeaseTicks
    BY ConstantsAssumption
  <2>2. QED
    BY <1>1, <2>1 DEF Row
<1>5. TypeOK'
  BY <1>3, <1>4 DEF IInv, TypeOK
<1>6. PendingOwned'
  BY DEF IInv, PendingOwned
<1>7. LeaseNamesOwnPersona'
  BY <1>3, <1>4 DEF IInv, LeaseNamesOwnPersona
<1>8. RestrictedHoldsNoLease'
  BY <1>3, <1>4 DEF IInv, RestrictedHoldsNoLease, Barred
<1>9. KeysUnique'
  <2>1. \A r \in rows : r.conn # c =>
            r.acct # new.acct /\ r.persona # new.persona /\ r.conn # new.conn
    BY <1>1, <1>4 DEF IInv, KeysUnique, PersonaRows
  <2>2. \A r, s \in rows : r.acct = s.acct \/ r.persona = s.persona \/ r.conn = s.conn => r = s
    BY DEF IInv, KeysUnique
  <2>3. QED
    BY <2>1, <2>2, <1>3 DEF KeysUnique
<1>10. QED
  BY <1>5, <1>6, <1>7, <1>8, <1>9 DEF IInv

\* Rows that only run down their time.
LEMMA TickKeepsInvariant == IInv /\ Tick => IInv'
<1> SUFFICES ASSUME IInv, Tick PROVE IInv'
  OBVIOUS
<1> DEFINE older(r) == [r EXCEPT !.left = IF @ > 0 THEN @ - 1 ELSE 0]
<1>1. \A r \in sessions : /\ older(r) \in Row /\ older(r).acct = r.acct
                          /\ older(r).persona = r.persona /\ older(r).conn = r.conn
  <2> TAKE r \in sessions
  <2>1. r \in Row
    BY DEF IInv, TypeOK
  <2>2. (IF r.left > 0 THEN r.left - 1 ELSE 0) \in 0..LeaseTicks
    BY <2>1, ConstantsAssumption DEF Row
  <2>3. QED
    BY <2>1, <2>2 DEF Row
<1>2. sessions' = {older(r) : r \in sessions} /\ UNCHANGED <<personas, policy, mailed, pending, up>>
  BY DEF Tick
<1> HIDE DEF older
<1>3. TypeOK'
  BY <1>1, <1>2 DEF IInv, TypeOK
<1>4. PendingOwned'
  BY <1>2 DEF IInv, PendingOwned
<1>5. LeaseNamesOwnPersona'
  BY <1>1, <1>2 DEF IInv, LeaseNamesOwnPersona
<1>6. RestrictedHoldsNoLease'
  BY <1>1, <1>2 DEF IInv, RestrictedHoldsNoLease
<1>7. KeysUnique'
  BY <1>1, <1>2 DEF IInv, KeysUnique
<1>8. QED
  BY <1>3, <1>4, <1>5, <1>6, <1>7 DEF IInv

LEMMA InitEstablishesInvariant == Init => IInv
BY DEF Init, IInv, TypeOK, PendingOwned, KeysUnique, LeaseNamesOwnPersona,
       RestrictedHoldsNoLease

LEMMA ClaimKeepsInvariant ==
    ASSUME IInv, NEW c \in Connection, Claim(c)
    PROVE  IInv'
<1> DEFINE q == pending[c]
           live == Unexpired(sessions)
<1>1. PICK dead \in ProbeAnswers : sessions' = ClaimRows(c, q, dead)
  BY DEF Claim
<1> DEFINE checked1 == DiscardDead(live, AccountRows(live, q.acct), dead)
           checked2 == DiscardDead(checked1, PersonaRows(checked1, q.persona), dead)
<1>2. /\ q # None
      /\ pending' = [pending EXCEPT ![c] = None]
      /\ UNCHANGED <<personas, policy, mailed, up>>
  BY DEF Claim
<1>3. live \subseteq sessions /\ checked1 \subseteq sessions /\ checked2 \subseteq sessions
  BY ClaimDeletes
<1>4. \/ sessions' \in {live, checked1, checked2, sessions}
      \/ /\ ~Barred(q.acct) /\ personas[q.persona] = "present"
         /\ sessions' = Upsert(checked2, c, q.acct, q.persona)
  BY <1>1 DEF ClaimRows
<1>5. CASE sessions' \subseteq sessions
  <2>1. pending' \in [Connection -> PendingClaim \union {None}]
    BY <1>2 DEF IInv, TypeOK
  <2>2. \A d \in Connection : pending'[d] \in {pending[d], None}
    BY <1>2 DEF IInv, TypeOK
  <2>3. up' \subseteq Process
    BY <1>2 DEF IInv, TypeOK
  <2>4. QED
    BY <1>2, <1>5, <2>1, <2>2, <2>3, SubsetKeepsInvariant
<1>6. CASE /\ ~Barred(q.acct) /\ personas[q.persona] = "present"
           /\ sessions' = Upsert(checked2, c, q.acct, q.persona)
  <2> HIDE DEF checked2
  <2>1. QED
    BY <1>2, <1>3, <1>6, UpsertKeepsInvariant
<1>7. QED
  BY <1>3, <1>4, <1>5, <1>6

LEMMA LookupKeepsInvariant ==
    ASSUME IInv, NEW c \in Connection, NEW p \in Persona, NEW replace \in BOOLEAN,
           Lookup(c, p, replace)
    PROVE  IInv'
<1> DEFINE q == [acct |-> OwnerOf[p], persona |-> p, replace |-> replace]
<1>1. q \in PendingClaim
  BY ConstantsAssumption DEF PendingClaim
<1>2. /\ pending' = [pending EXCEPT ![c] = q]
      /\ q.replace => GameOn(c) \in TakeoverGames
      /\ UNCHANGED <<sessions, personas, policy, mailed, up>>
  BY DEF Lookup
<1>3. TypeOK'
  BY <1>1, <1>2 DEF IInv, TypeOK
<1>4. PendingOwned'
  <2>1. \A d \in Connection : pending'[d] = IF d = c THEN q ELSE pending[d]
    BY <1>2 DEF IInv, TypeOK
  <2>2. QED
    BY <1>2, <2>1 DEF IInv, PendingOwned
<1>5. QED
  BY <1>2, <1>3, <1>4 DEF IInv, KeysUnique, LeaseNamesOwnPersona, RestrictedHoldsNoLease

LEMMA TouchKeepsInvariant ==
    ASSUME IInv, NEW c \in Connection, Touch(c)
    PROVE  IInv'
<1> DEFINE live == Unexpired(sessions)
<1>1. live \subseteq sessions /\ UNCHANGED <<personas, policy, mailed, pending, up>>
  BY DEF Unexpired, Touch
<1>2. \/ sessions' = live
      \/ \E r \in OwnRows(live, c) :
            \/ sessions' = live \ OwnRows(live, c)
            \/ ~Barred(r.acct) /\ sessions' = Renew(live, c, r.persona)
  BY DEF Touch
<1>3. CASE sessions' \subseteq sessions
  BY <1>1, <1>3, SubsetKeepsInvariant DEF IInv, TypeOK
<1>4. CASE \E r \in OwnRows(live, c) :
               ~Barred(r.acct) /\ sessions' = Renew(live, c, r.persona)
  <2>1. PICK r \in OwnRows(live, c) :
               ~Barred(r.acct) /\ sessions' = Renew(live, c, r.persona)
    BY <1>4
  <2>2. r \in sessions /\ r \in Row /\ r.conn = c
    BY <1>1, <2>1 DEF OwnRows, IInv, TypeOK
  <2>3. r.persona \in Persona /\ OwnerOf[r.persona] = r.acct /\ personas[r.persona] = "present"
    BY <2>2 DEF IInv, LeaseNamesOwnPersona, Row
  <2>4. \A o \in PersonaRows(live, r.persona) : o.conn = c
    BY <1>1, <2>2 DEF PersonaRows, IInv, KeysUnique
  <2> HIDE DEF live
  <2>5. QED
    BY <1>1, <2>1, <2>3, <2>4, RenewKeepsInvariant
<1>5. QED
  BY <1>1, <1>2, <1>3, <1>4

LEMMA SwitchPersonaKeepsInvariant ==
    ASSUME IInv, NEW c \in Connection, NEW p \in Persona, SwitchPersona(c, p)
    PROVE  IInv'
<1> DEFINE live == Unexpired(sessions)
<1>1. live \subseteq sessions /\ UNCHANGED <<personas, policy, mailed, pending, up>>
  BY DEF Unexpired, SwitchPersona
<1>2. \/ sessions' \in {live, live \ OwnRows(live, c)}
      \/ \E r \in OwnRows(live, c) :
            /\ ~Barred(r.acct) /\ OwnerOf[p] = r.acct /\ personas[p] = "present"
            /\ \A o \in PersonaRows(live, p) : o.conn = c
            /\ sessions' = Renew(live, c, p)
  BY DEF SwitchPersona
<1>3. CASE sessions' \subseteq sessions
  BY <1>1, <1>3, SubsetKeepsInvariant DEF IInv, TypeOK
<1>4. CASE \E r \in OwnRows(live, c) :
            /\ ~Barred(r.acct) /\ OwnerOf[p] = r.acct /\ personas[p] = "present"
            /\ \A o \in PersonaRows(live, p) : o.conn = c
            /\ sessions' = Renew(live, c, p)
  <2> HIDE DEF live
  <2>1. QED
    BY <1>1, <1>4, RenewKeepsInvariant
<1>5. QED
  BY <1>1, <1>2, <1>3, <1>4

LEMMA NextKeepsInvariant == IInv /\ [Next]_vars => IInv'
<1> SUFFICES ASSUME IInv, [Next]_vars PROVE IInv'
  OBVIOUS
<1>1. ASSUME NEW c \in Connection, NEW p \in Persona, NEW replace \in BOOLEAN,
             Lookup(c, p, replace)
      PROVE  IInv'
  BY <1>1, LookupKeepsInvariant
<1>2. ASSUME NEW c \in Connection, Claim(c) PROVE IInv'
  BY <1>2, ClaimKeepsInvariant
<1>3. ASSUME NEW c \in Connection, Touch(c) PROVE IInv'
  BY <1>3, TouchKeepsInvariant
<1>4. ASSUME NEW c \in Connection, NEW p \in Persona, SwitchPersona(c, p) PROVE IInv'
  BY <1>4, SwitchPersonaKeepsInvariant
<1>5. ASSUME NEW c \in Connection, Release(c) PROVE IInv'
  BY <1>5, SubsetKeepsInvariant DEF Release, IInv, TypeOK
<1>6. ASSUME NEW s \in Server, ReleaseAll(s) PROVE IInv'
  BY <1>6, SubsetKeepsInvariant DEF ReleaseAll, IInv, TypeOK
<1>7. CASE SessionFor
  BY <1>7, SubsetKeepsInvariant DEF SessionFor, Unexpired, IInv, TypeOK
<1>8. ASSUME NEW a \in Account, NEW kind \in Restriction, Restrict(a, kind) PROVE IInv'
  <2>1. /\ policy' = [policy EXCEPT ![a] = @ \union {kind}]
        /\ sessions' = {r \in sessions : r.acct # a}
        /\ UNCHANGED <<personas, mailed, pending, up>>
    BY <1>8 DEF Restrict
  <2>2. TypeOK'
    BY <2>1 DEF IInv, TypeOK
  <2>3. RestrictedHoldsNoLease'
    BY <2>1 DEF IInv, TypeOK, RestrictedHoldsNoLease, Row
  <2>4. QED
    BY <2>1, <2>2, <2>3 DEF IInv, PendingOwned, KeysUnique, LeaseNamesOwnPersona
<1>9. ASSUME NEW a \in Account, NEW kind \in Restriction, Lift(a, kind) PROVE IInv'
  <2>1. /\ policy' = [policy EXCEPT ![a] = @ \ {kind}]
        /\ UNCHANGED <<sessions, personas, mailed, pending, up>>
    BY <1>9 DEF Lift
  <2>2. TypeOK' /\ RestrictedHoldsNoLease'
    BY <2>1 DEF IInv, TypeOK, RestrictedHoldsNoLease, Row
  <2>3. QED
    BY <2>1, <2>2 DEF IInv, PendingOwned, KeysUnique, LeaseNamesOwnPersona
<1>10. ASSUME NEW a \in Account, Kick(a) PROVE IInv'
  BY <1>10, SubsetKeepsInvariant DEF Kick, IInv, TypeOK
<1>11. ASSUME NEW a \in Account, NEW listed \in BOOLEAN, CompleteProfile(a, listed)
       PROVE  IInv'
  <2>1. /\ policy[a] = {}
        /\ mailed' = mailed \union {a}
        /\ policy' = [policy EXCEPT ![a] = IF listed THEN {"email_blocked"} ELSE {}]
        /\ UNCHANGED <<sessions, personas, pending, up>>
    BY <1>11 DEF CompleteProfile
  <2>2. TypeOK' /\ RestrictedHoldsNoLease'
    BY <2>1 DEF IInv, TypeOK, RestrictedHoldsNoLease, Row, Restriction
  <2>3. QED
    BY <2>1, <2>2 DEF IInv, PendingOwned, KeysUnique, LeaseNamesOwnPersona
<1>12. ASSUME NEW p \in Persona, AddPersona(p) PROVE IInv'
  <2>1. /\ personas' = [personas EXCEPT ![p] = "present"]
        /\ UNCHANGED <<sessions, policy, mailed, pending, up>>
    BY <1>12 DEF AddPersona
  <2>2. TypeOK' /\ LeaseNamesOwnPersona'
    BY <2>1 DEF IInv, TypeOK, LeaseNamesOwnPersona, Row
  <2>3. QED
    BY <2>1, <2>2 DEF IInv, PendingOwned, KeysUnique, RestrictedHoldsNoLease
<1>13. ASSUME NEW p \in Persona, RemovePersona(p) PROVE IInv'
  <2>1. /\ personas' = [personas EXCEPT ![p] = "deleted"]
        /\ sessions' = {r \in sessions : r.persona # p}
        /\ UNCHANGED <<policy, mailed, pending, up>>
    BY <1>13 DEF RemovePersona
  <2>2. TypeOK' /\ LeaseNamesOwnPersona'
    BY <2>1 DEF IInv, TypeOK, LeaseNamesOwnPersona, Row
  <2>3. QED
    BY <2>1, <2>2 DEF IInv, PendingOwned, KeysUnique, RestrictedHoldsNoLease
<1>14. ASSUME NEW x \in Process, Crash(x) PROVE IInv'
  <2>1. /\ up' = up \ {x}
        /\ pending' = [c \in Connection |->
               IF ProcessOf[ServerOf[c]] = x THEN None ELSE pending[c]]
        /\ UNCHANGED <<sessions, personas, policy, mailed>>
    BY <1>14 DEF Crash
  <2>2. /\ pending' \in [Connection -> PendingClaim \union {None}]
        /\ \A c \in Connection : pending'[c] \in {pending[c], None}
        /\ up' \subseteq Process
    BY <2>1 DEF IInv, TypeOK
  <2>3. QED
    BY <2>1, <2>2, SubsetKeepsInvariant
<1>15. CASE Tick
  BY <1>15, TickKeepsInvariant
<1>16. CASE UNCHANGED vars
  BY <1>16 DEF vars, IInv, TypeOK, PendingOwned, KeysUnique, LeaseNamesOwnPersona,
               RestrictedHoldsNoLease
<1>17. QED
  BY <1>1, <1>2, <1>3, <1>4, <1>5, <1>6, <1>7, <1>8, <1>9, <1>10, <1>11, <1>12,
     <1>13, <1>14, <1>15, <1>16 DEF Next

-----------------------------------------------------------------------------
\* Every state the registry can reach is one the tables allow.
THEOREM Invariant == Spec => []IInv
BY InitEstablishesInvariant, NextKeepsInvariant, PTL DEF Spec

\* The registry's variables keep their types (accounts.py: active_sessions).
THEOREM TypeCorrectness == Spec => []TypeOK
<1>1. IInv => TypeOK
  BY DEF IInv
<1>2. QED
  BY <1>1, Invariant, PTL

\* Account, persona and connection each stay a key of active_sessions: claim
\* and switch_persona never run into a UNIQUE constraint.
THEOREM LeaseKeysUnique == Spec => []KeysUnique
<1>1. IInv => KeysUnique
  BY DEF IInv
<1>2. QED
  BY <1>1, Invariant, PTL

\* A lease always names an existing persona of the account it is held on.
THEOREM LeasePersonaOwned == Spec => []LeaseNamesOwnPersona
<1>1. IInv => LeaseNamesOwnPersona
  BY DEF IInv
<1>2. QED
  BY <1>1, Invariant, PTL

\* A banned or disabled account holds no lease, whatever was in flight.
THEOREM RestrictedAccountHasNoLease == Spec => []RestrictedHoldsNoLease
<1>1. IInv => RestrictedHoldsNoLease
  BY DEF IInv
<1>2. QED
  BY <1>1, Invariant, PTL

-----------------------------------------------------------------------------
(* What one step may add to the table *)

\* n is a row that was there, perhaps renewed or a tick older.
Kept(n) ==
    \E r \in sessions :
        /\ r.acct = n.acct /\ r.conn = n.conn
        /\ n = r \/ n.left < LeaseTicks \/ policy[n.acct] = {}

\* n was granted by claim: the account is free of restrictions, and whoever
\* held it unexpired is the claimer, is dead, or is displaced in its own game.
Granted(n) ==
    /\ Running(n.conn)
    /\ policy[n.acct] = {}
    /\ \A r \in Unexpired(sessions) :
          r.acct = n.acct =>
              \/ r.conn = n.conn
              \/ ~Running(r.conn)
              \/ GameOn(r.conn) = GameOn(n.conn) /\ GameOn(n.conn) \in TakeoverGames

\* claim adds at most the row it grants.
LEMMA ClaimGrants ==
    ASSUME IInv, NEW c \in Connection, Claim(c), NEW n \in sessions'
    PROVE  n \in sessions \/ Granted(n)
<1> DEFINE q == pending[c]
           live == Unexpired(sessions)
<1>1. PICK dead \in ProbeAnswers : sessions' = ClaimRows(c, q, dead)
  BY DEF Claim
<1> DEFINE checked1 == DiscardDead(live, AccountRows(live, q.acct), dead)
           checked2 == DiscardDead(checked1, PersonaRows(checked1, q.persona), dead)
           new == [acct |-> q.acct, persona |-> q.persona, conn |-> c, left |-> LeaseTicks]
<1>2. live \subseteq sessions /\ checked1 \subseteq sessions /\ checked2 \subseteq sessions
  BY ClaimDeletes
<1>3. \/ n \in sessions
      \/ n = new /\ ~Barred(q.acct) /\ ~AccountInUse(checked1, c, q)
  BY <1>1, <1>2 DEF ClaimRows, Upsert
<1>4. CASE n = new /\ ~Barred(q.acct) /\ ~AccountInUse(checked1, c, q)
  <2>1. Running(c) /\ (q.replace => GameOn(c) \in TakeoverGames)
    BY DEF Claim, IInv, PendingOwned
  <2>2. ASSUME NEW r \in live, r.acct = q.acct, r.conn # c, Running(r.conn)
        PROVE  q.replace /\ GameOn(r.conn) = GameOn(c)
    <3>1. r \in Row /\ \A o \in AccountRows(live, q.acct) : o = r
      BY <2>2 DEF IInv, TypeOK, KeysUnique, AccountRows, Unexpired
    <3>2. ServerOf[r.conn] \notin dead
      BY <2>2 DEF ProbeAnswers, Running
    <3>3. r \in checked1
      BY <3>1, <3>2 DEF DiscardDead
    <3> HIDE DEF checked1
    <3>4. QED
      BY <1>4, <2>2, <3>3 DEF AccountInUse, AccountRows
  <2>3. QED
    BY <1>4, <2>1, <2>2 DEF Granted, Barred
<1>5. QED
  BY <1>3, <1>4

\* touch and switch_persona add at most their own lease, renewed.
LEMMA RenewKept ==
    ASSUME IInv, NEW c \in Connection, NEW p, NEW own \in OwnRows(Unexpired(sessions), c),
           ~Barred(own.acct), NEW n \in Renew(Unexpired(sessions), c, p)
    PROVE  Kept(n)
<1>1. OwnRows(Unexpired(sessions), c) = {own} /\ own \in sessions /\ own \in Row
  BY DEF IInv, TypeOK, KeysUnique, OwnRows, Unexpired
<1>2. \/ n \in sessions
      \/ n = [own EXCEPT !.persona = p, !.left = LeaseTicks]
  BY <1>1 DEF Renew, Unexpired
<1>3. QED
  BY <1>1, <1>2 DEF Kept, Barred, Row

LEMMA StepAdds ==
    ASSUME IInv, [Next]_vars, NEW n \in sessions'
    PROVE  Kept(n) \/ Granted(n)
<1>1. CASE n \in sessions
  BY <1>1 DEF Kept
<1>2. ASSUME NEW c \in Connection, Claim(c) PROVE Kept(n) \/ Granted(n)
  BY <1>1, <1>2, ClaimGrants
<1>3. ASSUME NEW c \in Connection, Touch(c) PROVE Kept(n) \/ Granted(n)
  <2>1. \/ n \in sessions
        \/ \E r \in OwnRows(Unexpired(sessions), c) :
              ~Barred(r.acct) /\ n \in Renew(Unexpired(sessions), c, r.persona)
    BY <1>3 DEF Touch, Unexpired
  <2>2. QED
    BY <1>1, <2>1, RenewKept
<1>4. ASSUME NEW c \in Connection, NEW p \in Persona, SwitchPersona(c, p)
      PROVE  Kept(n) \/ Granted(n)
  <2>1. \/ n \in sessions
        \/ \E r \in OwnRows(Unexpired(sessions), c) :
              ~Barred(r.acct) /\ n \in Renew(Unexpired(sessions), c, p)
    BY <1>4 DEF SwitchPersona, Unexpired
  <2>2. QED
    BY <1>1, <2>1, RenewKept
<1>5. CASE Tick
  <2>1. PICK r \in sessions : n = [r EXCEPT !.left = IF @ > 0 THEN @ - 1 ELSE 0]
    BY <1>5 DEF Tick
  <2>2. r \in Row
    BY DEF IInv, TypeOK
  <2>3. n.acct = r.acct /\ n.conn = r.conn /\ n.left < LeaseTicks
    BY <2>1, <2>2, ConstantsAssumption DEF Row
  <2>4. QED
    BY <2>3 DEF Kept
<1>6. CASE sessions' \subseteq sessions
  BY <1>1, <1>6
<1>7. \/ sessions' \subseteq sessions
      \/ \E c \in Connection : Claim(c) \/ Touch(c) \/ \E p \in Persona : SwitchPersona(c, p)
      \/ Tick
  BY DEF Next, vars, Lookup, Release, ReleaseAll, SessionFor, Unexpired, Restrict, Lift,
         Kick, CompleteProfile, AddPersona, RemovePersona, Crash
<1>8. QED
  BY <1>2, <1>3, <1>4, <1>5, <1>6, <1>7

\* No login and no heartbeat gives or extends a lease on an account that is
\* banned, disabled or on the e-mail block list.
THEOREM PolicyGuardsGrants == Spec => GrantsRespectPolicy
<1>1. IInv /\ [Next]_vars =>
        [\A r \in sessions' \ sessions : r.left = LeaseTicks => policy[r.acct] = {}]_vars
  <2> SUFFICES ASSUME IInv, [Next]_vars, NEW n \in sessions' \ sessions, n.left = LeaseTicks
               PROVE  policy[n.acct] = {}
    OBVIOUS
  <2>1. Kept(n) \/ Granted(n)
    BY StepAdds
  <2>2. ~(n.left < LeaseTicks)
    BY ConstantsAssumption
  <2>3. QED
    BY <2>1, <2>2 DEF Kept, Granted
<1>2. QED
  BY <1>1, Invariant, PTL DEF Spec, GrantsRespectPolicy

\* An unexpired lease of a running process changes hands only inside a game
\* that displaces duplicate logins.
THEOREM TakeoverOnlyInGame == Spec => TakeoverStaysInGame
<1>1. IInv /\ [Next]_vars =>
        [\A r \in Unexpired(sessions), n \in sessions' :
            r.acct = n.acct /\ r.conn # n.conn /\ Running(r.conn) =>
              GameOn(r.conn) = GameOn(n.conn) /\ GameOn(n.conn) \in TakeoverGames]_vars
  <2> SUFFICES ASSUME IInv, [Next]_vars,
                      NEW r \in Unexpired(sessions), NEW n \in sessions',
                      r.acct = n.acct, r.conn # n.conn, Running(r.conn)
               PROVE  GameOn(r.conn) = GameOn(n.conn) /\ GameOn(n.conn) \in TakeoverGames
    OBVIOUS
  <2>1. Kept(n) \/ Granted(n)
    BY StepAdds
  <2>2. ~Kept(n)
    BY DEF Kept, IInv, KeysUnique, Unexpired
  <2>3. QED
    BY <2>1, <2>2 DEF Granted
<1>2. QED
  BY <1>1, Invariant, PTL DEF Spec, TakeoverStaysInGame

-----------------------------------------------------------------------------
(* The registry implements SingleLogin *)

Held == {[acct |-> r.acct, conn |-> r.conn] : r \in Unexpired(sessions)}

HardBarred == {a \in Account : policy[a] \intersect {"banned", "disabled"} # {}}

Gone == {c \in Connection : ~Running(c)}

\* A step that changes neither the restrictions nor the processes, and whose
\* unexpired leases all existed before, is at most a revocation.
LEMMA LosingIsRevoking ==
    ASSUME UNCHANGED <<policy, up>>,
           \A n \in Unexpired(sessions)' : \E r \in Unexpired(sessions) :
               r.acct = n.acct /\ r.conn = n.conn
    PROVE  Promise!Revoke
<1>1. Held' \subseteq Held
  BY DEF Held
<1>2. HardBarred' = HardBarred /\ Gone' = Gone
  BY DEF HardBarred, Gone, Running
<1>3. QED
  BY <1>1, <1>2 DEF Promise!Revoke, Held, HardBarred, Gone

LEMMA RenewIsRevoking ==
    ASSUME IInv, NEW c \in Connection, NEW p, NEW own \in OwnRows(Unexpired(sessions), c),
           sessions' = Renew(Unexpired(sessions), c, p), UNCHANGED <<policy, up>>
    PROVE  Promise!Revoke
<1>1. \A n \in sessions' : \E r \in Unexpired(sessions) : r.acct = n.acct /\ r.conn = n.conn
  <2> SUFFICES ASSUME NEW n \in sessions'
               PROVE  \E r \in Unexpired(sessions) : r.acct = n.acct /\ r.conn = n.conn
    OBVIOUS
  <2>1. CASE n \in Unexpired(sessions)
    BY <2>1
  <2>2. CASE \E r \in OwnRows(Unexpired(sessions), c) :
                n = [r EXCEPT !.persona = p, !.left = LeaseTicks]
    <3>1. PICK r \in OwnRows(Unexpired(sessions), c) :
                n = [r EXCEPT !.persona = p, !.left = LeaseTicks]
      BY <2>2
    <3>2. r \in Unexpired(sessions) /\ r \in Row
      BY <3>1 DEF OwnRows, Unexpired, IInv, TypeOK
    <3>3. QED
      BY <3>1, <3>2 DEF Row
  <2>3. QED
    BY <2>1, <2>2 DEF Renew
<1>2. QED
  BY <1>1, LosingIsRevoking DEF Unexpired

LEMMA ClaimIsGranting ==
    ASSUME IInv, NEW c \in Connection, Claim(c)
    PROVE  Promise!Next
<1> DEFINE q == pending[c]
           live == Unexpired(sessions)
<1>1. PICK dead \in ProbeAnswers : sessions' = ClaimRows(c, q, dead)
  BY DEF Claim
<1> DEFINE checked1 == DiscardDead(live, AccountRows(live, q.acct), dead)
           checked2 == DiscardDead(checked1, PersonaRows(checked1, q.persona), dead)
           new == [acct |-> q.acct, persona |-> q.persona, conn |-> c, left |-> LeaseTicks]
           grant == [acct |-> q.acct, conn |-> c]
           lost == {h \in Held : \A r \in checked2 : r.acct # h.acct}
<1>2. live \subseteq sessions /\ checked1 \subseteq live /\ checked2 \subseteq checked1
  BY DEF DiscardDead, Unexpired
<1>3. UNCHANGED <<policy, up>> /\ Running(c) /\ q \in PendingClaim
  BY DEF Claim, IInv, TypeOK
<1>4. \/ sessions' \in {live, checked1, checked2, sessions}
      \/ /\ sessions' = {r \in checked2 : r.conn # c /\ r.acct # q.acct} \union {new}
         /\ new \in sessions'
         /\ ~Barred(q.acct)
  BY <1>1 DEF ClaimRows, Upsert
<1>5. CASE sessions' \subseteq sessions
  <2>1. Promise!Revoke
    BY <1>3, <1>5, LosingIsRevoking DEF Unexpired
  <2>2. QED
    BY <2>1 DEF Promise!Next
<1>6. CASE /\ ~(sessions' \subseteq sessions)
           /\ sessions' = {r \in checked2 : r.conn # c /\ r.acct # q.acct} \union {new}
           /\ new \in sessions'
           /\ ~Barred(q.acct)
  <2>1. Granted(new)
    BY <1>2, <1>6, ClaimGrants
  <2>2. \A h \in Held : h.acct = q.acct =>
            \/ h.conn = c
            \/ h.conn \in Gone
            \/ GameOn(h.conn) = GameOn(c) /\ GameOn(c) \in TakeoverGames
    BY <2>1 DEF Granted, Held, Gone, Unexpired, IInv, TypeOK, Row
  <2>3. lost \subseteq {h \in Held : h.conn \in Gone}
    <3> SUFFICES ASSUME NEW r \in live, \A k \in checked2 : k.acct # r.acct
                 PROVE  r.conn \in Gone
      BY DEF Held
    <3>1. r \in Row /\ r \notin checked2
      BY DEF Unexpired, IInv, TypeOK
    <3>2. ServerOf[r.conn] \in dead
      BY <3>1 DEF DiscardDead
    <3>3. QED
      BY <3>1, <3>2, ConstantsAssumption DEF ProbeAnswers, Gone, Running, Row
  <2>4. Held' = {h \in Held \ lost : h.acct # q.acct /\ h.conn # c} \union {grant}
    <3>1. Unexpired(sessions') = {r \in checked2 : r.conn # c /\ r.acct # q.acct} \union {new}
      BY <1>2, <1>6, ConstantsAssumption DEF Unexpired
    <3>2. Held' = {[acct |-> r.acct, conn |-> r.conn] :
                      r \in {k \in checked2 : k.conn # c /\ k.acct # q.acct}} \union {grant}
      <4> DEFINE rest == {k \in checked2 : k.conn # c /\ k.acct # q.acct}
      <4>1. Held' = {[acct |-> r.acct, conn |-> r.conn] : r \in rest \union {new}}
        BY <3>1 DEF Held, Unexpired
      <4>2. [acct |-> new.acct, conn |-> new.conn] = grant
        OBVIOUS
      <4> HIDE DEF rest, new, grant
      <4>3. {[acct |-> r.acct, conn |-> r.conn] : r \in rest \union {new}}
              = {[acct |-> r.acct, conn |-> r.conn] : r \in rest} \union {grant}
        BY <4>2
      <4>4. QED
        BY <4>1, <4>3 DEF rest
    <3>3. \A r \in live : r \in checked2 <=> [acct |-> r.acct, conn |-> r.conn] \in Held \ lost
      <4> SUFFICES ASSUME NEW r \in live
                   PROVE  r \in checked2 <=> [acct |-> r.acct, conn |-> r.conn] \in Held \ lost
        OBVIOUS
      <4>1. [acct |-> r.acct, conn |-> r.conn] \in Held
        BY DEF Held
      <4>2. \A k \in checked2 : k.acct = r.acct => k = r
        BY <1>2 DEF IInv, KeysUnique
      <4> HIDE DEF checked2, live
      <4>3. QED
        BY <4>1, <4>2
    <3> HIDE DEF checked2, live, lost
    <3>4. {[acct |-> r.acct, conn |-> r.conn] :
              r \in {k \in checked2 : k.conn # c /\ k.acct # q.acct}}
            = {h \in Held \ lost : h.acct # q.acct /\ h.conn # c}
      <4>1. \A h \in Held : \E r \in live : h = [acct |-> r.acct, conn |-> r.conn]
        BY DEF Held, live
      <4>2. QED
        BY <1>2, <3>3, <4>1
    <3>5. QED
      BY <3>2, <3>4
  <2>5. HardBarred' = HardBarred /\ Gone' = Gone /\ q.acct \notin HardBarred /\ c \notin Gone
    BY <1>3, <1>6 DEF HardBarred, Gone, Running, Barred
  <2>6. Promise!Grant(q.acct, c)
    <3>1. \A h \in Held : h.acct = q.acct => Promise!MayDisplace(c, h)
      BY <2>2 DEF Promise!MayDisplace, Gone, Held, Unexpired, IInv, TypeOK, Row
    <3>2. \E l \in SUBSET {h \in Held : h.conn \in Gone} :
             Held' = {h \in Held \ l : h.acct # q.acct /\ h.conn # c} \union {grant}
      BY <2>3, <2>4
    <3>3. QED
      BY <2>5, <3>1, <3>2 DEF Promise!Grant, Held, HardBarred, Gone
  <2>7. QED
    BY <1>3, <2>6 DEF Promise!Next, PendingClaim
<1>7. QED
  BY <1>2, <1>4, <1>5, <1>6

LEMMA StepImplementsPromise ==
    IInv /\ [Next]_vars => [Promise!Next]_(Promise!vars)
<1> SUFFICES ASSUME IInv, [Next]_vars, ~Promise!Revoke
             PROVE  Promise!Next \/ UNCHANGED Promise!vars
  BY DEF Promise!Next
<1>1. CASE sessions' \subseteq sessions /\ UNCHANGED <<policy, up>>
  BY <1>1, LosingIsRevoking DEF Unexpired
<1>2. ASSUME NEW c \in Connection, Claim(c) PROVE Promise!Next
  BY <1>2, ClaimIsGranting
<1>3. ASSUME NEW c \in Connection, Touch(c) PROVE Promise!Next
  <2>1. UNCHANGED <<policy, up>> /\ Unexpired(sessions) \subseteq sessions
    BY <1>3 DEF Touch, Unexpired
  <2>2. \/ sessions' \subseteq Unexpired(sessions)
        \/ \E r \in OwnRows(Unexpired(sessions), c) :
              sessions' = Renew(Unexpired(sessions), c, r.persona)
    BY <1>3 DEF Touch
  <2>3. CASE sessions' \subseteq Unexpired(sessions)
    BY <2>1, <2>3, LosingIsRevoking DEF Unexpired, Promise!Next
  <2>4. CASE \E r \in OwnRows(Unexpired(sessions), c) :
              sessions' = Renew(Unexpired(sessions), c, r.persona)
    BY <2>1, <2>4, RenewIsRevoking DEF Promise!Next
  <2>5. QED
    BY <2>2, <2>3, <2>4
<1>4. ASSUME NEW c \in Connection, NEW p \in Persona, SwitchPersona(c, p)
      PROVE  Promise!Next
  <2>1. UNCHANGED <<policy, up>> /\ Unexpired(sessions) \subseteq sessions
    BY <1>4 DEF SwitchPersona, Unexpired
  <2>2. \/ sessions' \subseteq Unexpired(sessions)
        \/ \E r \in OwnRows(Unexpired(sessions), c) :
              sessions' = Renew(Unexpired(sessions), c, p)
    BY <1>4 DEF SwitchPersona
  <2>3. CASE sessions' \subseteq Unexpired(sessions)
    BY <2>1, <2>3, LosingIsRevoking DEF Unexpired, Promise!Next
  <2>4. CASE \E r \in OwnRows(Unexpired(sessions), c) :
              sessions' = Renew(Unexpired(sessions), c, p)
    BY <2>1, <2>4, RenewIsRevoking DEF Promise!Next
  <2>5. QED
    BY <2>2, <2>3, <2>4
<1>5. CASE Tick
  <2>1. \A n \in Unexpired(sessions)' : \E r \in Unexpired(sessions) :
            r.acct = n.acct /\ r.conn = n.conn
    <3> SUFFICES ASSUME NEW n \in sessions', n.left > 0
                 PROVE  \E r \in Unexpired(sessions) : r.acct = n.acct /\ r.conn = n.conn
      BY DEF Unexpired
    <3>1. PICK r \in sessions : n = [r EXCEPT !.left = IF @ > 0 THEN @ - 1 ELSE 0]
      BY <1>5 DEF Tick
    <3>2. r \in Row
      BY DEF IInv, TypeOK
    <3>3. QED
      BY <3>1, <3>2 DEF Unexpired, Row
  <2>2. QED
    BY <1>5, <2>1, LosingIsRevoking DEF Tick
<1>6. ASSUME NEW a \in Account, NEW kind \in Restriction, Restrict(a, kind)
      PROVE  Promise!Next
  <2>1. /\ policy' = [policy EXCEPT ![a] = @ \union {kind}]
        /\ sessions' = {r \in sessions : r.acct # a}
        /\ up' = up
    BY <1>6 DEF Restrict
  <2>2. Held' = {h \in Held : h.acct # a}
    BY <2>1 DEF Held, Unexpired
  <2>3. Gone' = Gone
    BY <2>1 DEF Gone, Running
  <2>4. CASE kind = "email_blocked"
    <3>1. HardBarred' = HardBarred
      BY <2>1, <2>4 DEF HardBarred, IInv, TypeOK
    <3>2. Promise!Revoke
      BY <2>2, <2>3, <3>1 DEF Promise!Revoke, Held, HardBarred, Gone
    <3>3. QED
      BY <3>2
  <2>5. CASE kind # "email_blocked"
    <3>1. HardBarred' = HardBarred \union {a}
      BY <2>1, <2>5 DEF HardBarred, IInv, TypeOK, Restriction
    <3>2. Promise!Bar(a)
      BY <2>2, <2>3, <3>1 DEF Promise!Bar, Held, HardBarred, Gone
    <3>3. QED
      BY <3>2 DEF Promise!Next
  <2>6. QED
    BY <2>4, <2>5
<1>7. ASSUME NEW a \in Account, NEW kind \in Restriction, Lift(a, kind)
      PROVE  Promise!Next \/ UNCHANGED Promise!vars
  <2>1. policy' = [policy EXCEPT ![a] = @ \ {kind}] /\ UNCHANGED <<sessions, up>>
    BY <1>7 DEF Lift
  <2>2. Held' = Held /\ Gone' = Gone
    BY <2>1 DEF Held, Unexpired, Gone, Running
  <2>3. HardBarred' = HardBarred \/ HardBarred' = HardBarred \ {a}
    BY <2>1 DEF HardBarred, IInv, TypeOK
  <2>4. Promise!Unbar(a) \/ UNCHANGED Promise!vars
    BY <2>2, <2>3 DEF Promise!Unbar, Promise!vars, Held, HardBarred, Gone
  <2>5. QED
    BY <2>4 DEF Promise!Next
<1>8. ASSUME NEW a \in Account, NEW listed \in BOOLEAN, CompleteProfile(a, listed)
      PROVE  UNCHANGED Promise!vars
  <2>1. /\ policy[a] = {} /\ UNCHANGED <<sessions, up>>
        /\ policy' = [policy EXCEPT ![a] = IF listed THEN {"email_blocked"} ELSE {}]
    BY <1>8 DEF CompleteProfile
  <2>2. Held' = Held /\ Gone' = Gone
    BY <2>1 DEF Held, Unexpired, Gone, Running
  <2>3. HardBarred' = HardBarred
    BY <2>1 DEF HardBarred, IInv, TypeOK
  <2>4. QED
    BY <2>2, <2>3 DEF Promise!vars, Held, HardBarred, Gone
<1>9. ASSUME NEW x \in Process, Crash(x) PROVE Promise!Next
  <2>1. up' = up \ {x} /\ UNCHANGED <<sessions, policy>>
    BY <1>9 DEF Crash
  <2>2. Held' = Held /\ HardBarred' = HardBarred
    BY <2>1 DEF Held, Unexpired, HardBarred
  <2>3. Gone' \in SUBSET Connection /\ Gone \subseteq Gone'
    BY <2>1 DEF Gone, Running
  <2>4. Promise!Fail
    BY <2>2, <2>3 DEF Promise!Fail, Held, HardBarred, Gone
  <2>5. QED
    BY <2>4 DEF Promise!Next
<1>10. \/ sessions' \subseteq sessions /\ UNCHANGED <<policy, up>>
       \/ \E c \in Connection : Claim(c) \/ Touch(c) \/ \E p \in Persona : SwitchPersona(c, p)
       \/ Tick
       \/ \E a \in Account, kind \in Restriction : Restrict(a, kind) \/ Lift(a, kind)
       \/ \E a \in Account, listed \in BOOLEAN : CompleteProfile(a, listed)
       \/ \E x \in Process : Crash(x)
  BY DEF Next, vars, Lookup, Release, ReleaseAll, SessionFor, Unexpired, Kick,
         AddPersona, RemovePersona
<1>11. QED
  BY <1>1, <1>2, <1>3, <1>4, <1>5, <1>6, <1>7, <1>8, <1>9, <1>10

\* The two-server registry keeps the promise of SingleLogin: one connection an
\* account, one account a connection, no barred account ever granted.
THEOREM RegistryImplementsSingleLogin == Spec => ImplementsSingleLogin
<1>1. Init => Promise!Init
  <2> SUFFICES ASSUME Init PROVE Promise!Init
    OBVIOUS
  <2>1. Held = {}
    BY DEF Init, Held, Unexpired
  <2>2. HardBarred = {}
    BY DEF Init, HardBarred
  <2>3. Gone = {}
    BY ConstantsAssumption DEF Init, Gone, Running
  <2>4. QED
    BY <2>1, <2>2, <2>3 DEF Promise!Init, Held, HardBarred, Gone
<1>2. QED
  BY <1>1, StepImplementsPromise, Invariant, PTL DEF Spec, ImplementsSingleLogin, Promise!Spec
=============================================================================
