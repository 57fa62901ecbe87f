--------------------------- MODULE SessionLeases ---------------------------
(***************************************************************************)
(* The single-login registry of the shared account database                *)
(* (server/common/accounts.py: SQLiteSessionRegistry and the account       *)
(* policy operations of SQLiteAccountDatabase).                            *)
(*                                                                         *)
(* Both servers keep "who is logged in" in one SQLite table,               *)
(* active_sessions: a row is a lease that a connection holds on an account *)
(* and on one of its personas until expires_at.  Every operation is one    *)
(* BEGIN IMMEDIATE transaction, so every operation is one atomic action    *)
(* here, except claim, which resolves the identity in a transaction of its *)
(* own before the one that inserts the row (Lookup, then Claim).           *)
(*                                                                         *)
(* Abstractions.  A row keeps the columns the code reads back to decide:   *)
(* account_id, persona_id, connection_id and expires_at.  server_id and    *)
(* game are functions of the connection (a connection lives in one         *)
(* process and speaks one game).  expires_at is kept as the ticks that are *)
(* left, 0 meaning expires_at <= now.  An operation reads its clock just   *)
(* before its transaction; the two are one instant here.                   *)
(***************************************************************************)
EXTENDS Naturals

CONSTANTS
    Account, Persona, Connection,
    Server,          \* server ids, "game:pid:nonce": one per registry object
    Process,         \* operating-system processes that own registries
    Game,
    ServerOf,        \* [Connection -> Server]
    ProcessOf,       \* [Server -> Process]
    GameOf,          \* [Server -> Game]
    OwnerOf,         \* [Persona -> Account]: persona ids are never reused
    TakeoverGames,   \* games whose login may claim with replace_same_game
    LeaseTicks,      \* lease_seconds, in ticks
    None             \* in pending: the connection is not inside claim

ASSUME ConstantsAssumption ==
    /\ ServerOf \in [Connection -> Server]
    /\ ProcessOf \in [Server -> Process]
    /\ GameOf \in [Server -> Game]
    /\ OwnerOf \in [Persona -> Account]
    /\ TakeoverGames \subseteq Game
    /\ LeaseTicks \in Nat \ {0}

Restriction == {"banned", "disabled", "email_blocked"}

Row == [acct : Account, persona : Persona, conn : Connection,
        left : 0..LeaseTicks]

PendingClaim == [acct : Account, persona : Persona, replace : BOOLEAN]

\* No claim record is mistaken for the absence of one.
ASSUME NoneAssumption == None \notin PendingClaim

VARIABLES
    sessions,   \* the rows of active_sessions
    personas,   \* personas[p]: "unborn", "present" or "deleted"
    policy,     \* policy[a]: the restrictions in force on account a
    mailed,     \* the accounts that have an e-mail address
    pending,    \* pending[c]: the identity claim resolved before its insert
    up          \* the processes that are running

vars == <<sessions, personas, policy, mailed, pending, up>>

-----------------------------------------------------------------------------
(* Rows *)

Running(c) == ProcessOf[ServerOf[c]] \in up

GameOn(c) == GameOf[ServerOf[c]]

\* Faults.  A definition named X_Fault is X with a plausible bug in it; the
\* project checks that its properties notice.  Nothing else uses them.
Unexpired_AtTheBoundary(rows) == {r \in rows : r.left >= 0}

\* _prune: every operation first deletes what has expired.
Unexpired(rows) == {r \in rows : r.left > 0}

\* _discard_dead_owner: if the owner of row r is certainly dead, every row
\* of that server id goes.  "dead" is what the PID probe answers.
DiscardDead(rows, owner, dead) ==
    {r \in rows : \A o \in owner :
        ServerOf[o.conn] \in dead => ServerOf[r.conn] # ServerOf[o.conn]}

ProbeAnswers_DeniesLiving == SUBSET Server

\* os.kill(pid, 0) never denies a running process; a dead one may still look
\* alive, because its PID was reused or the probe was not permitted.
ProbeAnswers == SUBSET {s \in Server : ProcessOf[s] \notin up}

AccountRows(rows, a) == {r \in rows : r.acct = a}
PersonaRows(rows, p) == {r \in rows : r.persona = p}

Upsert_KeepsOwnRow(rows, c, a, p) ==
    {r \in rows : r.acct # a}
        \union {[acct |-> a, persona |-> p, conn |-> c, left |-> LeaseTicks]}

Upsert_AddsLeaseTwice(rows, c, a, p) ==
    {r \in rows : r.conn # c /\ r.acct # a}
        \union {[acct |-> a, persona |-> p, conn |-> c, left |-> 2 * LeaseTicks]}

\* The upsert: the connection's own row goes, the account's row is replaced.
Upsert(rows, c, a, p) ==
    {r \in rows : r.conn # c /\ r.acct # a}
        \union {[acct |-> a, persona |-> p, conn |-> c, left |-> LeaseTicks]}

AccountInUse_AnyGame(rows, c, q) ==
    \E r \in AccountRows(rows, q.acct) : r.conn # c /\ ~q.replace

\* "account_in_use" and "persona_in_use".
AccountInUse(rows, c, q) ==
    \E r \in AccountRows(rows, q.acct) :
        r.conn # c /\ ~(q.replace /\ GameOn(r.conn) = GameOn(c))

PersonaInUse(rows, c, q) ==
    ~q.replace /\ \E r \in PersonaRows(rows, q.persona) : r.conn # c

Barred_ForgetsEmail(a) == policy[a] \intersect {"banned", "disabled"} # {}

Barred(a) == policy[a] # {}

-----------------------------------------------------------------------------
Init ==
    /\ sessions = {}
    /\ personas \in [Persona -> {"unborn", "present"}]
    /\ \A a \in Account : \E p \in Persona :
           OwnerOf[p] = a /\ personas[p] = "present"
    /\ policy = [a \in Account |-> {}]
    /\ mailed \in SUBSET Account
    /\ pending = [c \in Connection |-> None]
    /\ up = Process

(* Registry operations, called by a connection of a running server *)

\* First transaction of claim: resolve the account and its persona.
Lookup(c, p, replace) ==
    /\ Running(c)
    /\ pending[c] = None
    /\ personas[p] = "present"
    /\ replace => GameOn(c) \in TakeoverGames
    /\ pending' = [pending EXCEPT ![c] =
           [acct |-> OwnerOf[p], persona |-> p, replace |-> replace]]
    /\ UNCHANGED <<sessions, personas, policy, mailed, up>>

\* Second transaction of claim.  A rejection still commits what the prune
\* and the dead-owner check deleted; a persona deleted since the lookup
\* fails the foreign key and rolls everything back.
ClaimRows(c, q, dead) ==
    LET live     == Unexpired(sessions)
        checked1 == DiscardDead(live, AccountRows(live, q.acct), dead)
        checked2 == DiscardDead(checked1, PersonaRows(checked1, q.persona), dead)
    IN  IF Barred(q.acct) THEN live
        ELSE IF AccountInUse(checked1, c, q) THEN checked1
        ELSE IF PersonaInUse(checked2, c, q) THEN checked2
        ELSE IF personas[q.persona] # "present" THEN sessions
        ELSE Upsert(checked2, c, q.acct, q.persona)

Claim(c) ==
    /\ Running(c)
    /\ pending[c] # None
    /\ \E dead \in ProbeAnswers : sessions' = ClaimRows(c, pending[c], dead)
    /\ pending' = [pending EXCEPT ![c] = None]
    /\ UNCHANGED <<personas, policy, mailed, up>>

OwnRows(rows, c) == {r \in rows : r.conn = c}

\* What touch and switch_persona leave of rows when c's lease becomes m.
Renew(rows, c, p) ==
    {r \in rows : r.conn # c}
        \union {[r EXCEPT !.persona = p, !.left = LeaseTicks] : r \in OwnRows(rows, c)}

Touch(c) ==
    LET live == Unexpired(sessions)
    IN  /\ Running(c)
        /\ pending[c] = None
        /\ \/ /\ OwnRows(live, c) = {}
              /\ sessions' = live
           \/ \E r \in OwnRows(live, c) :
                 sessions' = IF Barred(r.acct) THEN live \ OwnRows(live, c)
                             ELSE Renew(live, c, r.persona)
        /\ UNCHANGED <<personas, policy, mailed, pending, up>>

SwitchPersona(c, p) ==
    LET live == Unexpired(sessions)
    IN  /\ Running(c)
        /\ pending[c] = None
        /\ \/ /\ OwnRows(live, c) = {}                        \* not_authenticated
              /\ sessions' = live
           \/ \E r \in OwnRows(live, c) :
                 /\ Barred(r.acct)
                 /\ sessions' = live \ OwnRows(live, c)
           \/ \E r \in OwnRows(live, c) :
                 /\ ~Barred(r.acct)
                 /\ \/ OwnerOf[p] # r.acct                    \* persona_not_owned
                    \/ personas[p] # "present"
                    \/ \E o \in PersonaRows(live, p) : o.conn # c  \* persona_in_use
                 /\ sessions' = live
           \/ \E r \in OwnRows(live, c) :
                 /\ ~Barred(r.acct)
                 /\ OwnerOf[p] = r.acct /\ personas[p] = "present"
                 /\ \A o \in PersonaRows(live, p) : o.conn = c
                 /\ sessions' = Renew(live, c, p)
        /\ UNCHANGED <<personas, policy, mailed, pending, up>>

\* A connection lets go: the WHERE clause names the connection and the server.
Release(c) ==
    /\ Running(c)
    /\ pending[c] = None
    /\ sessions' = {r \in sessions : r.conn # c}
    /\ UNCHANGED <<personas, policy, mailed, pending, up>>

\* A registry lets go of everything when its server stops.
ReleaseAll(s) ==
    /\ ProcessOf[s] \in up
    /\ sessions' = {r \in sessions : ServerOf[r.conn] # s}
    /\ UNCHANGED <<personas, policy, mailed, pending, up>>

\* session_for: a read, which prunes.
SessionFor ==
    /\ sessions' = Unexpired(sessions)
    /\ UNCHANGED <<personas, policy, mailed, pending, up>>

-----------------------------------------------------------------------------
(* Account administration (the command line, or a login that fills a blank) *)

Restrict_KeepsLease(a, kind) ==
    /\ kind = "email_blocked" => a \in mailed
    /\ policy' = [policy EXCEPT ![a] = @ \union {kind}]
    /\ UNCHANGED <<sessions, personas, mailed, pending, up>>

\* set_banned, set_enabled and set_email_blocked with a restrictive value:
\* the flag and the deletion of the lease commit together.
Restrict(a, kind) ==
    /\ kind = "email_blocked" => a \in mailed
    /\ policy' = [policy EXCEPT ![a] = @ \union {kind}]
    /\ sessions' = {r \in sessions : r.acct # a}
    /\ UNCHANGED <<personas, mailed, pending, up>>

\* The same three with a lenient value leave the lease alone.
Lift(a, kind) ==
    /\ policy' = [policy EXCEPT ![a] = @ \ {kind}]
    /\ UNCHANGED <<sessions, personas, mailed, pending, up>>

Kick(a) ==
    /\ sessions' = {r \in sessions : r.acct # a}
    /\ UNCHANGED <<personas, policy, mailed, pending, up>>

\* complete_missing_profile gives an account its missing e-mail address, which
\* may already be on the block list; the account's lease is not deleted.
CompleteProfile(a, listed) ==
    /\ a \notin mailed
    /\ policy[a] = {}
    /\ mailed' = mailed \union {a}
    /\ policy' = [policy EXCEPT ![a] = IF listed THEN {"email_blocked"} ELSE {}]
    /\ UNCHANGED <<sessions, personas, pending, up>>

\* add_persona and remove_persona.  Deleting a persona cascades to its lease;
\* an account keeps at least one persona.
AddPersona(p) ==
    /\ personas[p] = "unborn"
    /\ personas' = [personas EXCEPT ![p] = "present"]
    /\ UNCHANGED <<sessions, policy, mailed, pending, up>>

RemovePersona_NoCascade(p) ==
    /\ personas[p] = "present"
    /\ \E other \in Persona \ {p} :
           OwnerOf[other] = OwnerOf[p] /\ personas[other] = "present"
    /\ personas' = [personas EXCEPT ![p] = "deleted"]
    /\ UNCHANGED <<sessions, policy, mailed, pending, up>>

RemovePersona(p) ==
    /\ personas[p] = "present"
    /\ \E other \in Persona \ {p} :
           OwnerOf[other] = OwnerOf[p] /\ personas[other] = "present"
    /\ personas' = [personas EXCEPT ![p] = "deleted"]
    /\ sessions' = {r \in sessions : r.persona # p}
    /\ UNCHANGED <<policy, mailed, pending, up>>

-----------------------------------------------------------------------------
(* The environment *)

\* A process ends without a word; its rows stay behind.
Crash(x) ==
    /\ x \in up
    /\ up' = up \ {x}
    /\ pending' = [c \in Connection |->
           IF ProcessOf[ServerOf[c]] = x THEN None ELSE pending[c]]
    /\ UNCHANGED <<sessions, personas, policy, mailed>>

Tick ==
    /\ \E r \in sessions : r.left > 0
    /\ sessions' = {[r EXCEPT !.left = IF @ > 0 THEN @ - 1 ELSE 0] : r \in sessions}
    /\ UNCHANGED <<personas, policy, mailed, pending, up>>

Next ==
    \/ \E c \in Connection :
          \/ \E p \in Persona, replace \in BOOLEAN : Lookup(c, p, replace)
          \/ Claim(c)
          \/ Touch(c)
          \/ \E p \in Persona : SwitchPersona(c, p)
          \/ Release(c)
    \/ \E s \in Server : ReleaseAll(s)
    \/ SessionFor
    \/ \E a \in Account :
          \/ \E kind \in Restriction : Restrict(a, kind) \/ Lift(a, kind)
          \/ Kick(a)
          \/ \E listed \in BOOLEAN : CompleteProfile(a, listed)
    \/ \E p \in Persona : AddPersona(p) \/ RemovePersona(p)
    \/ \E x \in Process : Crash(x)
    \/ Tick

Spec == Init /\ [][Next]_vars

\* Time passes; nothing else is owed.
FairSpec == Spec /\ WF_vars(Tick)

-----------------------------------------------------------------------------
(* Properties *)

TypeOK ==
    /\ sessions \subseteq Row
    /\ personas \in [Persona -> {"unborn", "present", "deleted"}]
    /\ policy \in [Account -> SUBSET Restriction]
    /\ mailed \subseteq Account
    /\ pending \in [Connection -> PendingClaim \union {None}]
    /\ up \subseteq Process

\* The checks of claim and switch_persona keep account, persona and connection
\* each a key of active_sessions, so its PRIMARY KEY and UNIQUE constraints
\* never reject an insert or an update half way through a login.
KeysUnique ==
    \A r, s \in sessions :
        r.acct = s.acct \/ r.persona = s.persona \/ r.conn = s.conn => r = s

\* A lease names an existing persona of the very account it is held on, though
\* the persona was resolved in an earlier transaction than the lease.
LeaseNamesOwnPersona ==
    \A r \in sessions :
        OwnerOf[r.persona] = r.acct /\ personas[r.persona] = "present"

\* A banned or disabled account holds no lease, whatever login was in flight
\* when the command line restricted it.
RestrictedHoldsNoLease ==
    \A r \in sessions : policy[r.acct] \intersect {"banned", "disabled"} = {}

\* No step gives or extends a lease on an account under any restriction, the
\* e-mail block list included.
GrantsRespectPolicy ==
    [][\A r \in sessions' \ sessions :
           r.left = LeaseTicks => policy[r.acct] = {}]_vars

\* While its process runs, an unexpired lease passes to another connection
\* only inside one game, and only if that game displaces duplicate logins.
TakeoverStaysInGame ==
    [][\A r \in Unexpired(sessions), n \in sessions' :
           r.acct = n.acct /\ r.conn # n.conn /\ Running(r.conn) =>
               GameOn(r.conn) = GameOn(n.conn) /\ GameOn(n.conn) \in TakeoverGames]_vars

\* A crashed process cannot keep an account locked: its leases run out,
\* whatever the surviving servers go on doing.
CrashedLeasesLapse ==
    \A x \in Process :
        x \notin up ~> \A r \in Unexpired(sessions) : ProcessOf[ServerOf[r.conn]] # x

\* The registry implements the promise of SingleLogin: a hold is an unexpired
\* row, a barred account is a banned or disabled one.
Promise == INSTANCE SingleLogin WITH
    PlaysOf <- [c \in Connection |-> GameOn(c)],
    held <- {[acct |-> r.acct, conn |-> r.conn] : r \in Unexpired(sessions)},
    barred <- {a \in Account : policy[a] \intersect {"banned", "disabled"} # {}},
    gone <- {c \in Connection : ~Running(c)}

ImplementsSingleLogin == Promise!Spec
=============================================================================
