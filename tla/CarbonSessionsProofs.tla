------------------------ MODULE CarbonSessionsProofs ------------------------
(***************************************************************************)
(* What CarbonSessions guarantees for every number of accounts,            *)
(* connections, policy events and logins.                                  *)
(***************************************************************************)
EXTENDS CarbonSessions, TLAPS

-----------------------------------------------------------------------------
(* Types *)

LEMMA InitType == Init => TypeOK
  BY ConstantsAssumption DEF Init, TypeOK, Conn

\* What a request leaves is a gate map, whatever the grace it asks for.
LEMMA RequestedType ==
  ASSUME TypeOK, NEW c \in Conn, NEW grace \in 0..Grace
  PROVE  Requested(c, grace) \in [Conn -> 0..Grace \union {None}]
  BY DEF TypeOK, Requested

\* The event that is enforced is in the log, after the cursor.
JobOpen == job # None => cursor < Len(log) /\ Pending.action \in Restrictive

LEMMA TypeInductive == TypeOK /\ JobOpen /\ [Next]_vars => TypeOK'
<1> SUFFICES ASSUME TypeOK, JobOpen, [Next]_vars PROVE TypeOK'
  OBVIOUS
<1> USE ConstantsAssumption
<1>1. CASE UNCHANGED vars
  BY <1>1 DEF TypeOK, vars, database, store, connections, monitor
<1>2. ASSUME NEW c \in Conn, Connect(c) PROVE TypeOK'
  BY <1>2 DEF TypeOK, Connect, database, store, monitor
<1>3. ASSUME NEW c \in Conn, Close(c) PROVE TypeOK'
  <2>1. ReleaseLeases(c) \in [Account -> Fesl \union {None}]
    BY DEF TypeOK, ReleaseLeases
  <2>2. lease' \in [Account -> Fesl \union {None}]
    BY <1>3, <2>1 DEF TypeOK, Close
  <2>3. phase' \in [Conn -> {"new", "open", "closing", "gone"}]
    <3>1. \E s \in {"closing", "gone"} : phase' = [phase EXCEPT ![c] = s]
      BY <1>3 DEF Close
    <3>2. phase \in [Conn -> {"new", "open", "closing", "gone"}]
      BY DEF TypeOK
    <3> QED
      BY <3>1, <3>2
  <2> QED
    BY <1>3, <2>2, <2>3 DEF TypeOK, Close, store, monitor
<1>4. ASSUME NEW c \in Fesl, NEW a \in Account, BeginLogin(c, a) PROVE TypeOK'
  <2>1. TakeLease(c, a) \in [Account -> Fesl \union {None}]
    BY DEF TypeOK, TakeLease, ReleaseLeases
  <2>2. \A step \in {"claimed", "conflict"} : [acct |-> a, step |-> step] \in Login
    BY DEF Login
  <2>3. lease' \in [Account -> Fesl \union {None}]
    BY <1>4, <2>1 DEF TypeOK, BeginLogin
  <2>4. login' \in [Fesl -> Login \union {None}]
    <3>1. \E step \in {"claimed", "conflict"} :
             login' = [login EXCEPT ![c] = [acct |-> a, step |-> step]]
      BY <1>4 DEF BeginLogin
    <3> QED
      BY <2>2, <3>1 DEF TypeOK
  <2> QED
    BY <1>4, <2>3, <2>4 DEF TypeOK, BeginLogin, store, monitor
<1>5. ASSUME NEW c \in Fesl, ReplaceClaim(c) PROVE TypeOK'
  <2>1. /\ login[c] \in Login
        /\ TakeLease(c, login[c].acct) \in [Account -> Fesl \union {None}]
    BY <1>5 DEF TypeOK, ReplaceClaim, TakeLease, ReleaseLeases, Login
  <2>2. [login[c] EXCEPT !.step = "takeover"] \in Login
    BY <2>1 DEF Login
  <2>3. [login EXCEPT ![c].step = "takeover"] \in [Fesl -> Login \union {None}]
    BY <2>2 DEF TypeOK
  <2> QED
    BY <1>5, <2>1, <2>3 DEF TypeOK, ReplaceClaim, store, monitor
<1>6. ASSUME NEW c \in Fesl, Establish(c) PROVE TypeOK'
  <2>1. login[c] \in Login
    BY <1>6 DEF TypeOK, Establish, Claimed
  <2>2. NewToken(c) \in Token /\ Displaced(c) \subseteq tokens
    BY <2>1 DEF TypeOK, NewToken, Token, Login, Displaced, TokensOf
  <2>3. TokensAfterLogin(c) \subseteq Token /\ forced \union Displaced(c) \subseteq Token
    BY <2>2 DEF TypeOK, TokensAfterLogin, WithoutToken
  <2>4. login[c].acct \in Account /\ Len(log) \in 0..MaxEvents /\ c \in Conn
    BY <2>1 DEF TypeOK, Login, Conn
  <2> QED
    BY <1>6, <2>3, <2>4 DEF TypeOK, Establish, database, monitor
<1>7. ASSUME NEW c \in Fesl, LoginFails(c) PROVE TypeOK'
  BY <1>7 DEF TypeOK, LoginFails, ReleaseLeases, store, monitor
<1>8. ASSUME NEW c \in Fesl, Revoke(c) PROVE TypeOK'
  BY <1>8 DEF TypeOK, Revoke, WithoutToken, database, monitor
<1>9. ASSUME NEW c \in Theater, NEW k \in 1..issued, User(c, k) PROVE TypeOK'
  <2>1. \A t \in tokens \union forced : t.acct \in Account
    BY DEF TypeOK, Token
  <2>2. Len(log) \in 0..MaxEvents /\ c \in Conn
    BY DEF TypeOK, Conn
  <2>3. PICK a \in Account : Identified(c, a)
    BY <1>9, <2>1 DEF User
  <2>4. ident' \in [Conn -> Account \union {None}] /\ since' \in [Conn -> 0..MaxEvents]
    BY <2>2, <2>3 DEF TypeOK, Identified
  <2>5. readOnly' \subseteq Theater
    BY <1>9 DEF TypeOK, User
  <2> QED
    BY <1>9, <2>4, <2>5 DEF TypeOK, User, database, store, monitor
<1>10. ASSUME NEW c \in Theater, EnterRoom(c) PROVE TypeOK'
  BY <1>10 DEF TypeOK, EnterRoom, database, store, connections, monitor, Conn
<1>11. ASSUME NEW a \in Account, LeaveRoom(a) PROVE TypeOK'
  BY <1>11 DEF TypeOK, LeaveRoom, database, store, connections, monitor
<1>12. ASSUME NEW a \in Account, NEW action \in Action, Administer(a, action) PROVE TypeOK'
  <2>1. [acct |-> a, action |-> action] \in Event /\ action \in AccountPolicyActions
    BY DEF Event
  <2>2. log' \in Seq(Event) /\ Len(log') <= MaxEvents
    BY <1>12, <2>1 DEF TypeOK, Administer
  <2>3. barred' \in [Account -> SUBSET {"banned", "disabled"}]
    <3>1. barred \in [Account -> SUBSET {"banned", "disabled"}]
      BY DEF TypeOK
    <3>2. FlagOf[action] \in {"banned", "disabled"} \/ action = "kick"
      BY <2>1 DEF FlagOf, AccountPolicyActions
    <3>3. \/ barred' = barred
          \/ action # "kick" /\ barred' = [barred EXCEPT ![a] = @ \union {FlagOf[action]}]
          \/ action # "kick" /\ barred' = [barred EXCEPT ![a] = @ \ {FlagOf[action]}]
      BY <1>12, <2>1 DEF Administer, AccountPolicyActions
    <3> QED
      BY <3>1, <3>2, <3>3
  <2>4. lease' \in [Account -> Fesl \union {None}]
    BY <1>12 DEF TypeOK, Administer
  <2> QED
    BY <1>12, <2>2, <2>3, <2>4 DEF TypeOK, Administer, store, connections, monitor
<1>13. CASE Poll
  <2>1. job' \in Job \union {None}
    <3>1. Snapshot \in SUBSET Conn /\ job \in Job \union {None}
      BY DEF TypeOK, Snapshot
    <3>2. \A step \in {"begin", "match"} :
             [step |-> step, todo |-> Snapshot, matched |-> {}, ok |-> TRUE] \in Job
      BY <3>1 DEF Job
    <3> QED
      BY <1>13, <3>1, <3>2 DEF Poll
  <2> QED
    BY <1>13, <2>1 DEF TypeOK, Poll, database, store, connections
<1>14. ASSUME NEW c \in Conn, Match(c) PROVE TypeOK'
  <2>1. job \in Job
    BY <1>14 DEF TypeOK, Match
  <2>2. job' \in Job
    BY <1>14, <2>1 DEF Match, Job
  <2> QED
    BY <1>14, <2>2 DEF TypeOK, Match, database, store, connections
<1>15. ASSUME NEW c \in Conn, BeginClose(c) PROVE TypeOK'
  <2>1. job' \in Job
    BY <1>15 DEF TypeOK, BeginClose, Job
  <2>2. gate' \in [Conn -> 0..Grace \union {None}]
    <3>1. \A grace \in 0..Grace : Requested(c, grace) \in [Conn -> 0..Grace \union {None}]
      BY RequestedType
    <3>2. 0 \in 0..Grace /\ Grace \in 0..Grace
      OBVIOUS
    <3>3. gate' = gate \/ \E grace \in 0..Grace : gate' = Requested(c, grace)
      BY <1>15, <3>2 DEF BeginClose
    <3> QED
      BY <3>1, <3>3 DEF TypeOK
  <2> QED
    BY <1>15, <2>1, <2>2 DEF TypeOK, BeginClose, database, store
<1>16. CASE Cleanup
  <2>1. job' \in Job
    BY <1>16 DEF TypeOK, Cleanup, Job
  <2> QED
    BY <1>16, <2>1 DEF TypeOK, Cleanup, database, store, connections
<1>17. CASE CleanupFails
  <2>1. job' \in Job
    BY <1>17 DEF TypeOK, CleanupFails, Job
  <2> QED
    BY <1>17, <2>1 DEF TypeOK, CleanupFails, database, store, connections
<1>18. ASSUME NEW c \in Conn, RequestClose(c) PROVE TypeOK'
  <2>1. job' \in Job
    BY <1>18 DEF TypeOK, RequestClose, Job
  <2>2. gate' \in [Conn -> 0..Grace \union {None}]
    BY <1>18, RequestedType, Grace \in 0..Grace DEF RequestClose
  <2> QED
    BY <1>18, <2>1, <2>2 DEF TypeOK, RequestClose, database, store
<1>19. CASE Finish
  BY <1>19 DEF TypeOK, JobOpen, Finish, database, store, connections
<1>20. CASE Tick
  <2>1. gate' \in [Conn -> 0..Grace \union {None}]
    BY <1>20 DEF TypeOK, Tick, Draining
  <2> QED
    BY <1>20, <2>1 DEF TypeOK, Tick, database, store, monitor
<1> QED
  BY <1>1, <1>2, <1>3, <1>4, <1>5, <1>6, <1>7, <1>8, <1>9, <1>10, <1>11, <1>12,
     <1>13, <1>14, <1>15, <1>16, <1>17, <1>18, <1>19, <1>20 DEF Next, Enforce
-----------------------------------------------------------------------------
(* Tokens *)

\* Token numbers are never used twice, and none is ahead of the counter.
TokenNumbers ==
    /\ \A t \in tokens \union forced : t.token <= issued
    /\ \A t, u \in tokens : t.token = u.token => t = u

\* A connection that dispatches a login is open, and a new one is nobody's.
LoginsOpen ==
    /\ \A c \in Fesl : login[c] # None => phase[c] = "open"
    /\ \A c \in Conn : phase[c] = "new" => ident[c] = None

TokenInv == TokenNumbers /\ LoginsOpen /\ TokensHaveOwners /\ DisplacedStaysDisplaced

LEMMA InitTokens == Init => TokenInv
  BY DEF Init, TokenInv, TokenNumbers, LoginsOpen, TokensHaveOwners,
         DisplacedStaysDisplaced

\* A new login keeps what the store holds in order: the displaced token moves
\* to the forced log-offs, the connection's old one goes, the new one is fresh.
LEMMA EstablishTokens ==
  ASSUME TypeOK, TokenInv, NEW c \in Fesl, Establish(c)
  PROVE  TokenInv'
<1> DEFINE a == login[c].acct
<1> USE DEF TokenInv
<1>1. /\ login[c] \in Login /\ a \in Account /\ c \in Conn
      /\ \A t \in tokens \union forced : t.token \in Nat /\ t.token # 0
      /\ issued \in Nat /\ key \in [Fesl -> Nat] /\ phase[c] = "open"
  BY DEF TypeOK, Establish, Claimed, Login, Token, Conn, LoginsOpen
<1>2. /\ NewToken(c).token = issued + 1 /\ NewToken(c).acct = a
      /\ Displaced(c) \subseteq tokens
  BY DEF NewToken, Displaced, TokensOf
<1>3. /\ tokens' = {t \in tokens \ Displaced(c) : t.token # key[c]} \union {NewToken(c)}
      /\ forced' = forced \union Displaced(c)
      /\ issued' = issued + 1
      /\ key' = [key EXCEPT ![c] = issued + 1]
      /\ ident' = [ident EXCEPT ![c] = a]
      /\ login' = [login EXCEPT ![c] = None]
      /\ phase' = phase
  BY DEF Establish, TokensAfterLogin, WithoutToken
<1> HIDE DEF a
<1>4. TokenNumbers'
  BY <1>1, <1>2, <1>3 DEF TokenNumbers
<1>5. LoginsOpen'
  BY <1>1, <1>3 DEF LoginsOpen, TypeOK
<1>6. TokensHaveOwners'
  <2> SUFFICES ASSUME NEW t \in tokens'
               PROVE  \E d \in Fesl : key'[d] = t.token /\ ident'[d] = t.acct
                                      /\ phase'[d] \in {"open", "closing"}
    BY DEF TokensHaveOwners
  <2>0. ident \in [Conn -> Account \union {None}] /\ Fesl \subseteq Conn
    BY DEF TypeOK, Conn
  <2>1. CASE t = NewToken(c)
    BY <1>1, <1>2, <1>3, <2>0, <2>1
  <2>2. CASE t \in tokens /\ t.token # key[c]
    <3>1. PICK d \in Fesl : key[d] = t.token /\ ident[d] = t.acct
                            /\ phase[d] \in {"open", "closing"}
      BY <2>2 DEF TokensHaveOwners
    <3>2. d # c
      BY <2>2, <3>1
    <3> QED
      BY <1>1, <1>3, <2>0, <3>1, <3>2
  <2> QED
    BY <1>3, <2>1, <2>2
<1>7. DisplacedStaysDisplaced'
  <2> SUFFICES ASSUME NEW f \in forced', NEW t \in tokens' PROVE f.token # t.token
    BY DEF DisplacedStaysDisplaced
  <2>1. CASE t = NewToken(c)
    BY <1>1, <1>2, <1>3, <2>1 DEF TokenNumbers
  <2>2. CASE t \in tokens \ Displaced(c)
    BY <1>2, <1>3, <2>2 DEF TokenNumbers, DisplacedStaysDisplaced
  <2> QED
    BY <1>3, <2>1, <2>2
<1> QED
  BY <1>4, <1>5, <1>6, <1>7

LEMMA TokensInductive == TypeOK /\ TokenInv /\ [Next]_vars => TokenInv'
<1> SUFFICES ASSUME TypeOK, TokenInv, [Next]_vars PROVE TokenInv'
  OBVIOUS
<1> USE DEF TokenInv
<1>0. Fesl \subseteq Conn /\ Fesl \intersect Theater = {} /\ Theater \subseteq Conn
  BY ConstantsAssumption DEF Conn
<1>1. ASSUME UNCHANGED <<tokens, forced, issued, phase, login, ident, key>> PROVE TokenInv'
  BY <1>1 DEF TokenNumbers, LoginsOpen, TokensHaveOwners, DisplacedStaysDisplaced
<1>2. ASSUME NEW c \in Conn, Connect(c) PROVE TokenInv'
  BY <1>0, <1>2 DEF Connect, TypeOK, database, store, monitor, TokenNumbers,
         LoginsOpen, TokensHaveOwners, DisplacedStaysDisplaced
<1>3. ASSUME NEW c \in Conn, Close(c) PROVE TokenInv'
  <2>1. /\ UNCHANGED <<tokens, forced, issued, login, ident, key>>
        /\ c \in Fesl => login[c] = None
    BY <1>3 DEF Close, LockFree, store
  <2>2. \A d \in Conn : \/ phase'[d] = phase[d]
                        \/ d = c /\ phase'[d] = (IF c \in Fesl THEN "closing" ELSE "gone")
    BY <1>3 DEF Close, TypeOK
  <2>3. TokensHaveOwners'
    BY <1>0, <2>1, <2>2 DEF TokensHaveOwners
  <2> QED
    BY <1>0, <2>1, <2>2, <2>3 DEF TokenNumbers, LoginsOpen, DisplacedStaysDisplaced
<1>4. ASSUME NEW c \in Fesl, NEW a \in Account, BeginLogin(c, a) PROVE TokenInv'
  BY <1>0, <1>4 DEF BeginLogin, Dispatching, TypeOK, store, monitor, TokenNumbers,
         LoginsOpen, TokensHaveOwners, DisplacedStaysDisplaced
<1>5. ASSUME NEW c \in Fesl, ReplaceClaim(c) PROVE TokenInv'
  BY <1>0, <1>5 DEF ReplaceClaim, TypeOK, store, monitor, TokenNumbers,
         LoginsOpen, TokensHaveOwners, DisplacedStaysDisplaced
<1>6. ASSUME NEW c \in Fesl, Establish(c) PROVE TokenInv'
  BY <1>6, EstablishTokens
<1>7. ASSUME NEW c \in Fesl, LoginFails(c) PROVE TokenInv'
  BY <1>0, <1>7 DEF LoginFails, TypeOK, store, monitor, TokenNumbers,
         LoginsOpen, TokensHaveOwners, DisplacedStaysDisplaced
<1>8. ASSUME NEW c \in Fesl, Revoke(c) PROVE TokenInv'
  <2>1. TokenNumbers' /\ LoginsOpen' /\ DisplacedStaysDisplaced'
    BY <1>0, <1>8 DEF Revoke, WithoutToken, TypeOK, database, monitor, TokenNumbers,
           LoginsOpen, DisplacedStaysDisplaced
  <2>2. TokensHaveOwners'
    BY <1>0, <1>8 DEF Revoke, WithoutToken, TypeOK, TokensHaveOwners
  <2> QED
    BY <2>1, <2>2
<1>9. ASSUME NEW c \in Theater, NEW k \in 1..issued, User(c, k) PROVE TokenInv'
  <2>1. UNCHANGED <<tokens, forced, issued, phase, login, key>>
    BY <1>9 DEF User, store
  <2>2. \A d \in Conn : ident'[d] = ident[d] \/ (d = c /\ phase[d] = "open")
    <3>1. phase[c] = "open" /\ \E a : ident' = [ident EXCEPT ![c] = a]
      BY <1>9 DEF User, Identified, Dispatching
    <3> QED
      BY <3>1 DEF TypeOK
  <2> QED
    BY <1>0, <2>1, <2>2 DEF TokenNumbers, LoginsOpen, TokensHaveOwners,
           DisplacedStaysDisplaced
<1>10. ASSUME NEW c \in Conn, Match(c) \/ BeginClose(c) \/ RequestClose(c) PROVE TokenInv'
  BY <1>1, <1>10 DEF Match, BeginClose, RequestClose, database, store, connections
<1>11. CASE Poll \/ Cleanup \/ CleanupFails \/ Finish \/ Tick
  BY <1>1, <1>11 DEF Poll, Cleanup, CleanupFails, Finish, Tick, database, store,
         connections
<1>12. ASSUME NEW c \in Theater, EnterRoom(c) PROVE TokenInv'
  BY <1>1, <1>12 DEF EnterRoom, store, connections
<1>13. ASSUME NEW a \in Account, LeaveRoom(a) \/ (\E action \in Action : Administer(a, action))
       PROVE  TokenInv'
  BY <1>1, <1>13 DEF LeaveRoom, Administer, store, connections
<1>14. CASE UNCHANGED vars
  BY <1>1, <1>14 DEF vars, store, connections
<1> QED
  BY <1>2, <1>3, <1>4, <1>5, <1>6, <1>7, <1>8, <1>9, <1>10, <1>11, <1>12, <1>13,
     <1>14 DEF Next, Enforce

-----------------------------------------------------------------------------
(* Enforcement *)

\* c plays on under account a.
Playing(c, a) == phase[c] = "open" /\ ident[c] = a /\ gate[c] = None

\* The monitor has not passed more events than there are, and a connection was
\* identified no later than now.
Bounds == cursor <= Len(log) /\ \A c \in Conn : since[c] <= Len(log)

\* While an event is enforced, every connection that plays on under its account
\* and was identified before it is still ahead of the monitor: it is to be
\* matched, or matched and to be gated.  When the close requests begin there is
\* none, and no room that such a connection obtained once the cleanup succeeded.
StillAhead(c) ==
    \/ job.step = "match" /\ c \in job.todo \union job.matched
    \/ job.step = "begin" /\ c \in job.todo

JobProgress ==
    job # None =>
        /\ \A c \in Conn :
              Playing(c, Pending.acct) /\ since[c] <= cursor => StillAhead(c)
        /\ job.step = "request" /\ job.ok /\ room[Pending.acct] # None
              => room[Pending.acct] > cursor

EnforceInv ==
    /\ Bounds /\ JobOpen /\ JobProgress
    /\ DeliveredReachesKnown /\ DeliveredClearsRooms

LEMMA InitEnforce == Init => EnforceInv
  BY DEF Init, EnforceInv, Bounds, JobOpen, JobProgress, DeliveredReachesKnown,
         DeliveredClearsRooms, Delivered

\* Steps that leave the log, the rooms and the monitor alone, and after which
\* a connection plays on only if it did before or was identified just now.
LEMMA ConnectionStep ==
  ASSUME TypeOK, TypeOK', EnforceInv,
         UNCHANGED <<log, cursor, job, room>>,
         \A c \in Conn : since'[c] <= Len(log),
         \A c \in Conn, a \in Account : Playing(c, a)' =>
             \/ Playing(c, a) /\ since'[c] = since[c]
             \/ since'[c] = Len(log)
  PROVE  EnforceInv'
<1> USE DEF EnforceInv
<1>1. Len(log) \in Nat /\ cursor \in Nat /\ cursor <= Len(log) /\ log' = log
      /\ cursor' = cursor /\ job' = job /\ room' = room
  BY ConstantsAssumption DEF TypeOK, Bounds
<1>2. Bounds' /\ JobOpen'
  BY <1>1 DEF Bounds, JobOpen, Pending
<1>3. JobProgress'
  <2>1. job # None => Pending.acct \in Account /\ Pending' = Pending
    <3>1. ASSUME job # None PROVE Pending \in Event
      <4>1. cursor + 1 \in 1..Len(log) /\ log \in Seq(Event)
        BY <1>1, <3>1 DEF TypeOK, JobOpen
      <4> QED
        BY <4>1 DEF Pending
    <3> QED
      BY <1>1, <3>1 DEF Pending, Event
  <2>2. ASSUME job # None, NEW c \in Conn, Playing(c, Pending.acct)', since'[c] <= cursor
        PROVE  StillAhead(c)'
    BY <1>1, <2>1, <2>2 DEF JobProgress, JobOpen, StillAhead
  <2> QED
    BY <1>1, <2>1, <2>2 DEF JobProgress
<1>4. DeliveredReachesKnown'
  <2> SUFFICES ASSUME NEW c \in Conn, phase'[c] = "open", ident'[c] # None,
                      gate'[c] = None, NEW i \in Delivered(ident[c])'
               PROVE  since'[c] >= i
    BY DEF DeliveredReachesKnown
  <2>1. /\ ident'[c] \in Account /\ since'[c] \in Nat
        /\ i \in 1..cursor /\ log[i].acct = ident'[c] /\ log[i].action \in Restrictive
    BY <1>1 DEF Delivered, TypeOK
  <2>2. CASE Playing(c, ident'[c]) /\ since'[c] = since[c]
    BY <2>1, <2>2 DEF DeliveredReachesKnown, Delivered, Playing
  <2>3. CASE since'[c] = Len(log)
    BY <1>1, <2>1, <2>3
  <2>4. \A a \in Account : Playing(c, a)' => \/ Playing(c, a) /\ since'[c] = since[c]
                                            \/ since'[c] = Len(log)
    OBVIOUS
  <2> QED
    BY <2>1, <2>2, <2>3, <2>4 DEF Playing
<1>5. DeliveredClearsRooms'
  BY <1>1 DEF DeliveredClearsRooms, Delivered
<1> QED
  BY <1>2, <1>3, <1>4, <1>5

LEMMA EnforceInductive ==
  TypeOK /\ TypeOK' /\ TokenInv /\ EnforceInv /\ [Next]_vars => EnforceInv'
<1> SUFFICES ASSUME TypeOK, TypeOK', TokenInv, EnforceInv, [Next]_vars PROVE EnforceInv'
  OBVIOUS
<1> USE DEF EnforceInv
<1>0. /\ Fesl \subseteq Conn /\ Theater \subseteq Conn /\ Fesl \intersect Theater = {}
      /\ Len(log) \in Nat /\ cursor \in Nat /\ cursor <= Len(log)
      /\ \A c \in Conn : since[c] \in Nat /\ since[c] <= Len(log)
      /\ None \notin Account
  BY ConstantsAssumption DEF Conn, TypeOK, Bounds
<1>a. job # None => /\ Pending \in Event /\ Pending.acct \in Account
                    /\ cursor + 1 \in 1..Len(log) /\ job \in Job
  <2> SUFFICES ASSUME job # None
               PROVE  Pending \in Event /\ cursor + 1 \in 1..Len(log) /\ job \in Job
    BY DEF Event
  <2>1. cursor + 1 \in 1..Len(log) /\ log \in Seq(Event)
    BY <1>0 DEF TypeOK, JobOpen
  <2> QED
    BY <2>1 DEF Pending, TypeOK
<1>1. ASSUME UNCHANGED <<log, room, monitor>>,
             UNCHANGED <<phase, ident, since>>,
             \A c \in Conn : gate'[c] = None => gate[c] = None
      PROVE  EnforceInv'
  BY <1>0, <1>1, ConnectionStep DEF Playing, monitor
<1>2. ASSUME NEW c \in Conn, Connect(c) PROVE EnforceInv'
  <2>1. \A d \in Conn : phase'[d] = IF d = c THEN "open" ELSE phase[d]
    BY <1>2 DEF Connect, TypeOK
  <2>2. ident[c] = None
    BY <1>2 DEF Connect, TokenInv, LoginsOpen
  <2> QED
    BY <1>0, <1>2, <2>1, <2>2, ConnectionStep DEF Connect, Playing, database, monitor
<1>3. ASSUME NEW c \in Conn, Close(c) PROVE EnforceInv'
  <2>1. \A d \in Conn : phase'[d] = "open" => phase[d] = "open"
    BY <1>3 DEF Close, TypeOK
  <2> QED
    BY <1>0, <1>3, <2>1, ConnectionStep DEF Close, Playing, monitor
<1>4. ASSUME NEW c \in Fesl, Revoke(c) PROVE EnforceInv'
  <2>1. \A d \in Conn : phase'[d] = "open" => phase[d] = "open" /\ d # c
    BY <1>4 DEF Revoke, TypeOK
  <2>2. \A d \in Conn : d # c => ident'[d] = ident[d]
    BY <1>4 DEF Revoke, TypeOK
  <2> QED
    BY <1>0, <1>4, <2>1, <2>2, ConnectionStep DEF Revoke, Playing, database, monitor
<1>5. ASSUME NEW c \in Conn, NEW a \in Account, Identified(c, a),
             UNCHANGED <<log, room, monitor, phase, gate>>
      PROVE  EnforceInv'
  <2>1. \A d \in Conn : \/ since'[d] = Len(log)
                        \/ since'[d] = since[d] /\ ident'[d] = ident[d]
    <3>1. /\ ident' = [ident EXCEPT ![c] = a] /\ ident \in [Conn -> Account \union {None}]
          /\ since' = [since EXCEPT ![c] = IF ident[c] = a THEN since[c] ELSE Len(log)]
          /\ since \in [Conn -> 0..MaxEvents]
      BY <1>5 DEF Identified, TypeOK
    <3>2. CASE ident[c] = a
      BY <3>1, <3>2
    <3>3. CASE ident[c] # a
      BY <3>1, <3>3
    <3> QED
      BY <3>2, <3>3
  <2> QED
    BY <1>0, <1>5, <2>1, ConnectionStep DEF Playing, monitor
<1>6. ASSUME NEW c \in Fesl, Establish(c) PROVE EnforceInv'
  <2>1. Identified(c, login[c].acct) /\ login[c].acct \in Account /\ c \in Conn
    BY <1>0, <1>6 DEF Establish, Identified, Claimed, TypeOK, Login
  <2> QED
    BY <1>5, <1>6, <2>1 DEF Establish, database
<1>7. ASSUME NEW c \in Theater, NEW k \in 1..issued, User(c, k) PROVE EnforceInv'
  <2>1. PICK a \in Account : Identified(c, a)
    BY <1>7 DEF User, TypeOK, Token
  <2> QED
    BY <1>0, <1>5, <1>7, <2>1 DEF User, database
<1>8. ASSUME NEW c \in Fesl,
             (\E a \in Account : BeginLogin(c, a)) \/ ReplaceClaim(c) \/ LoginFails(c)
      PROVE  EnforceInv'
  BY <1>1, <1>8 DEF BeginLogin, ReplaceClaim, LoginFails
<1>9. CASE Tick
  <2>1. \A c \in Conn : gate'[c] = None => gate[c] = None
    <3>1. \A c \in Conn : gate'[c] = IF c \in Draining /\ gate[c] > 0 THEN gate[c] - 1 ELSE gate[c]
      BY <1>9 DEF Tick
    <3>2. \A c \in Draining : gate[c] # None
      BY DEF Draining
    <3>3. \A c \in Conn : gate[c] # None => gate[c] \in 0..Grace
      BY DEF TypeOK
    <3>4. \A n \in 0..Grace : n > 0 => n - 1 \in 0..Grace
      BY ConstantsAssumption
    <3>5. None \notin 0..Grace
      BY ConstantsAssumption
    <3> QED
      BY <3>1, <3>2, <3>3, <3>4, <3>5
  <2> QED
    BY <1>1, <1>9, <2>1 DEF Tick, database
<1>10. CASE UNCHANGED vars
  BY <1>1, <1>10 DEF vars, database, connections, monitor
<1>11. ASSUME NEW c \in Theater, EnterRoom(c) PROVE EnforceInv'
  <2> DEFINE a == ident[c]
  <2>1. /\ a \in Account /\ Playing(c, a) /\ c \in Conn
        /\ \A b \in Account : room'[b] = IF b = a THEN since[c] ELSE room[b]
        /\ UNCHANGED <<log, cursor, job, phase, ident, gate, since>>
    BY <1>0, <1>11 DEF EnterRoom, Dispatching, Playing, TypeOK, database, connections, monitor
  <2> HIDE DEF a
  <2>2. Bounds' /\ JobOpen'
    BY <2>1 DEF Bounds, JobOpen, Pending
  <2>3. JobProgress'
    <3> SUFFICES ASSUME job # None
                 PROVE  /\ \A d \in Conn : Playing(d, Pending.acct) /\ since[d] <= cursor
                              => StillAhead(d)
                        /\ job.step = "request" /\ job.ok /\ room'[Pending.acct] # None
                              => room'[Pending.acct] > cursor
      BY <2>1 DEF JobProgress, Pending, Playing, StillAhead
    <3>1. ASSUME Pending.acct = a, job.step = "request" PROVE since[c] > cursor
      BY <1>0, <2>1, <3>1 DEF JobProgress, StillAhead
    <3> QED
      BY <1>a, <2>1, <3>1 DEF JobProgress
  <2>4. DeliveredReachesKnown'
    BY <2>1 DEF DeliveredReachesKnown, Delivered
  <2>5. \A i \in Delivered(a) : since[c] >= i
    <3>1. ident[c] = a
      BY DEF a
    <3> QED
      BY <1>0, <2>1, <3>1 DEF DeliveredReachesKnown, Playing
  <2>6. DeliveredClearsRooms'
    BY <2>1, <2>5 DEF DeliveredClearsRooms, Delivered
  <2> QED
    BY <2>2, <2>3, <2>4, <2>6
<1>12. ASSUME NEW a \in Account, LeaveRoom(a) PROVE EnforceInv'
  <2>1. /\ \A b \in Account : room'[b] = None \/ room'[b] = room[b]
        /\ UNCHANGED <<log, cursor, job, phase, ident, gate, since>>
    BY <1>12 DEF LeaveRoom, TypeOK, database, connections, monitor
  <2> QED
    BY <1>a, <2>1 DEF Bounds, JobOpen, JobProgress, Pending, Playing, StillAhead,
           DeliveredReachesKnown, DeliveredClearsRooms, Delivered
<1>13. ASSUME NEW a \in Account, NEW action \in Action, Administer(a, action) PROVE EnforceInv'
  <2>1. /\ log' = Append(log, [acct |-> a, action |-> action])
        /\ UNCHANGED <<room, cursor, job, phase, ident, gate, since>>
    BY <1>13 DEF Administer, connections, monitor
  <2>2. /\ Len(log') = Len(log) + 1
        /\ \A i \in 1..Len(log) : log'[i] = log[i]
    BY <2>1 DEF TypeOK
  <2>3. job # None => Pending' = Pending
    BY <1>a, <2>1, <2>2 DEF Pending
  <2>4. Bounds' /\ JobOpen' /\ JobProgress'
    BY <1>0, <2>1, <2>2, <2>3 DEF Bounds, JobOpen, JobProgress, Playing, StillAhead
  <2>5. \A b : Delivered(b)' = Delivered(b)
    BY <1>0, <2>1, <2>2 DEF Delivered
  <2>6. DeliveredReachesKnown' /\ DeliveredClearsRooms'
    BY <2>1, <2>5 DEF DeliveredReachesKnown, DeliveredClearsRooms
  <2> QED
    BY <2>4, <2>6
<1>14. ASSUME UNCHANGED <<log, cursor, phase, ident, since>>,
              \A c \in Conn : gate'[c] = None => gate[c] = None,
              \A a \in Account : room'[a] = None \/ room'[a] = room[a],
              job # None, JobProgress'
       PROVE  EnforceInv'
  <2>1. Bounds' /\ JobOpen'
    BY <1>14 DEF Bounds, JobOpen, Pending
  <2>2. DeliveredReachesKnown' /\ DeliveredClearsRooms'
    BY <1>14 DEF DeliveredReachesKnown, DeliveredClearsRooms, Delivered
  <2> QED
    BY <1>14, <2>1, <2>2
<1>15. CASE Poll
  <2>1. /\ UNCHANGED <<log, phase, ident, gate, since, room>>
        /\ job = None /\ cursor < Len(log) /\ Pending' = log[cursor' + 1]
    BY <1>15 DEF Poll, database, connections, Pending
  <2>2. CASE Pending.action \in Restrictive
    <3>1. /\ cursor' = cursor
          /\ job' = [step |-> IF Snapshot = {} THEN "begin" ELSE "match",
                     todo |-> Snapshot, matched |-> {}, ok |-> TRUE]
      BY <1>15, <2>2 DEF Poll
    <3>2. /\ job'.step = (IF Snapshot = {} THEN "begin" ELSE "match")
          /\ job'.todo = Snapshot
      BY <3>1
    <3>3. JobProgress'
      BY <2>1, <3>2 DEF JobProgress, Playing, StillAhead, Snapshot
    <3>4. Bounds' /\ JobOpen'
      BY <2>1, <2>2, <3>1 DEF Bounds, JobOpen, Pending
    <3>5. DeliveredReachesKnown' /\ DeliveredClearsRooms'
      BY <2>1, <3>1 DEF DeliveredReachesKnown, DeliveredClearsRooms, Delivered
    <3> QED
      BY <3>3, <3>4, <3>5
  <2>3. CASE Pending.action \notin Restrictive
    <3>1. cursor' = cursor + 1 /\ job' = None
      BY <1>15, <2>1, <2>3 DEF Poll
    <3>2. \A a \in Account : Delivered(a)' = Delivered(a)
      BY <1>0, <2>1, <2>3, <3>1 DEF Delivered, Pending
    <3>3. Bounds' /\ JobOpen' /\ JobProgress'
      BY <1>0, <2>1, <3>1 DEF Bounds, JobOpen, JobProgress
    <3>4. DeliveredReachesKnown' /\ DeliveredClearsRooms'
      BY <2>1, <3>2 DEF DeliveredReachesKnown, DeliveredClearsRooms, TypeOK
    <3> QED
      BY <3>3, <3>4
  <2> QED
    BY <2>2, <2>3
<1>16. ASSUME NEW c \in Conn, Match(c) PROVE EnforceInv'
  <2> DEFINE matched == IF ident[c] = Pending.acct THEN job.matched \union {c} ELSE job.matched
  <2>1. /\ UNCHANGED <<log, phase, ident, gate, since, room, cursor>>
        /\ job # None /\ job.step = "match" /\ c \in job.todo
        /\ job' = IF job.todo \ {c} = {}
                  THEN [job EXCEPT !.step = "begin", !.todo = matched, !.matched = matched]
                  ELSE [job EXCEPT !.todo = job.todo \ {c}, !.matched = matched]
    BY <1>16 DEF Match, database, connections
  <2>2. \/ job'.step = "begin" /\ job'.todo = matched /\ job.todo \ {c} = {}
        \/ job'.step = "match" /\ job'.todo = job.todo \ {c} /\ job'.matched = matched
    BY <1>a, <2>1 DEF Job
  <2>3. JobProgress'
    <3>1. job'.step # "request" /\ Pending' = Pending
      BY <2>1, <2>2 DEF Pending
    <3>2. ASSUME NEW d \in Conn, Playing(d, Pending.acct), since[d] <= cursor
          PROVE  StillAhead(d)'
      <4>1. d \in job.todo \union job.matched
        BY <2>1, <3>2 DEF JobProgress, StillAhead
      <4>2. d = c => d \in matched
        BY <3>2 DEF Playing
      <4>3. job.matched \subseteq matched /\ (d # c /\ d \in job.todo => d \in job.todo \ {c})
        OBVIOUS
      <4> HIDE DEF matched
      <4>4. CASE job'.step = "begin" /\ job'.todo = matched /\ job.todo \ {c} = {}
        BY <4>1, <4>2, <4>3, <4>4 DEF StillAhead
      <4>5. CASE job'.step = "match" /\ job'.todo = job.todo \ {c} /\ job'.matched = matched
        BY <4>1, <4>2, <4>3, <4>5 DEF StillAhead
      <4> QED
        BY <2>2, <4>4, <4>5
    <3> QED
      BY <2>1, <3>1, <3>2 DEF JobProgress, Playing
  <2> QED
    BY <1>14, <2>1, <2>3
<1>17. ASSUME NEW c \in Conn, BeginClose(c) PROVE EnforceInv'
  <2>1. /\ UNCHANGED <<log, phase, ident, since, room, cursor>>
        /\ job # None /\ job.step = "begin"
        /\ job'.step = "begin" /\ job'.todo = job.todo \ {c}
    BY <1>a, <1>17 DEF BeginClose, database, Job
  <2>2. \A d \in Conn : gate'[d] = None => gate[d] = None /\ d # c
    <3>1. \A grace \in 0..Grace, d \in Conn :
             Requested(c, grace)[d] = None => gate[d] = None /\ d # c
      BY ConstantsAssumption DEF Requested, TypeOK
    <3>2. 0 \in 0..Grace /\ Grace \in 0..Grace
      BY ConstantsAssumption
    <3>3. \/ gate' = gate /\ gate[c] # None
          \/ \E grace \in 0..Grace : gate' = Requested(c, grace)
      BY <1>17, <3>2 DEF BeginClose
    <3> QED
      BY <3>1, <3>3
  <2>3. JobProgress'
    <3>1. Pending' = Pending /\ job'.step # "request"
      BY <2>1 DEF Pending
    <3>2. ASSUME NEW d \in Conn, Playing(d, Pending.acct)', since[d] <= cursor
          PROVE  StillAhead(d)'
      <4>1. Playing(d, Pending.acct) /\ d # c
        BY <2>1, <2>2, <3>1, <3>2 DEF Playing
      <4> QED
        BY <2>1, <3>2, <4>1 DEF JobProgress, StillAhead
    <3> QED
      BY <2>1, <3>1, <3>2 DEF JobProgress
  <2> QED
    BY <1>14, <2>1, <2>2, <2>3
<1>18. CASE Cleanup \/ CleanupFails
  <2>1. /\ UNCHANGED <<log, phase, ident, gate, since, cursor>>
        /\ job # None /\ job.step = "begin" /\ job.todo = {}
        /\ \A a \in Account : room'[a] = None \/ room'[a] = room[a]
        /\ job'.ok => room'[Pending.acct] = None
    BY <1>a, <1>18 DEF Cleanup, CleanupFails, database, connections, Job, TypeOK
  <2>2. \A d \in Conn : ~(Playing(d, Pending.acct) /\ since[d] <= cursor)
    BY <2>1 DEF JobProgress, StillAhead
  <2>3. JobProgress'
    BY <2>1, <2>2 DEF JobProgress, Playing, Pending
  <2> QED
    BY <1>14, <2>1, <2>3
<1>19. ASSUME NEW c \in Conn, RequestClose(c) PROVE EnforceInv'
  <2>1. /\ UNCHANGED <<log, phase, ident, since, room, cursor>>
        /\ job # None /\ job.step = "request" /\ job'.step = "request" /\ job'.ok = job.ok
    BY <1>a, <1>19 DEF RequestClose, database, Job
  <2>2. \A d \in Conn : gate'[d] = None => gate[d] = None
    BY <1>19, ConstantsAssumption DEF RequestClose, Requested, TypeOK
  <2>3. JobProgress'
    BY <2>1, <2>2 DEF JobProgress, Playing, Pending, StillAhead
  <2> QED
    BY <1>14, <2>1, <2>2, <2>3
<1>20. CASE Finish
  <2>1. /\ UNCHANGED <<log, phase, ident, gate, since, room>> /\ job' = None
        /\ job # None /\ job.step = "request"
        /\ cursor' = IF job.ok THEN cursor + 1 ELSE cursor
    BY <1>20 DEF Finish, database, connections
  <2>2. Bounds' /\ JobOpen' /\ JobProgress'
    BY <1>0, <1>a, <2>1 DEF Bounds, JobOpen, JobProgress
  <2>3. DeliveredReachesKnown'
    <3> SUFFICES ASSUME NEW d \in Conn, NEW i \in Delivered(ident[d])',
                        ident[d] # None, Playing(d, ident[d])
                 PROVE  since[d] >= i
      BY <2>1 DEF DeliveredReachesKnown, Playing
    <3>1. /\ i \in 1..cursor' /\ i \in Nat
          /\ log[i].acct = ident[d] /\ log[i].action \in Restrictive
      BY <2>1 DEF Delivered
    <3>2. CASE i <= cursor
      BY <3>1, <3>2, <1>0 DEF DeliveredReachesKnown, Delivered, Playing
    <3>3. CASE i = cursor + 1
      BY <1>0, <2>1, <3>1, <3>3 DEF JobProgress, StillAhead, Pending
    <3> QED
      BY <1>0, <2>1, <3>1, <3>2, <3>3
  <2>4. DeliveredClearsRooms'
    <3> SUFFICES ASSUME NEW a \in Account, NEW i \in Delivered(a)', room[a] # None
                 PROVE  room[a] >= i
      BY <2>1 DEF DeliveredClearsRooms
    <3>1. /\ i \in 1..cursor' /\ i \in Nat
          /\ log[i].acct = a /\ log[i].action \in Restrictive /\ room[a] \in Nat
      BY <2>1 DEF Delivered, TypeOK
    <3>2. CASE i <= cursor
      BY <3>1, <3>2, <1>0 DEF DeliveredClearsRooms, Delivered
    <3>3. CASE i = cursor + 1 /\ job.ok
      BY <1>0, <2>1, <3>1, <3>3 DEF JobProgress, Pending
    <3> QED
      BY <1>0, <2>1, <3>1, <3>2, <3>3
  <2> QED
    BY <2>2, <2>3, <2>4
<1> QED
  BY <1>2, <1>3, <1>4, <1>6, <1>7, <1>8, <1>9, <1>10, <1>11, <1>12, <1>13, <1>15,
     <1>16, <1>17, <1>18, <1>19, <1>20 DEF Next, Enforce

-----------------------------------------------------------------------------
(* Theorems *)

\* The inductive invariant: types, what the tokens are, how far the monitor is.
THEOREM Invariant == Spec => [](TypeOK /\ TokenInv /\ EnforceInv)
<1> DEFINE Inv == TypeOK /\ TokenInv /\ EnforceInv
<1>1. Init => Inv
  BY InitType, InitTokens, InitEnforce
<1>2. Inv /\ [Next]_vars => Inv'
  <2> SUFFICES ASSUME Inv, [Next]_vars PROVE Inv'
    OBVIOUS
  <2>1. TypeOK'
    BY TypeInductive DEF EnforceInv
  <2> QED
    BY <2>1, TokensInductive, EnforceInductive
<1> QED
  BY <1>1, <1>2, PTL DEF Spec

\* The state of the Carbon server's logins and of its policy monitor keeps its types.
THEOREM TypeCorrectness == Spec => []TypeOK
  BY Invariant, PTL

\* A policy event that was delivered has reached every connection that was
\* identified before it: enforcement.py's matching without the dispatch lock
\* misses none of those.
THEOREM DeliveryReachesEveryKnownConnection == Spec => []DeliveredReachesKnown
  BY Invariant, PTL DEF EnforceInv

\* And it has cleared the rooms such connections were in: begin_close before
\* the cleanup keeps them from coming back.
THEOREM DeliveryClearsTheRooms == Spec => []DeliveredClearsRooms
  BY Invariant, PTL DEF EnforceInv

\* A live session token belongs to a connection that has not ended.
THEOREM TokensDieWithTheirConnections == Spec => []TokensHaveOwners
  BY Invariant, PTL DEF TokenInv

\* A token that a duplicate login displaced is not a live session again.
THEOREM DisplacedTokensStayOut == Spec => []DisplacedStaysDisplaced
  BY Invariant, PTL DEF TokenInv
=============================================================================
