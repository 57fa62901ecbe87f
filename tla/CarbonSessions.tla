--------------------------- MODULE CarbonSessions ---------------------------
(***************************************************************************)
(* Carbon's FESL logins, its session tokens, its Theater connections and   *)
(* the account-policy monitor that closes them                             *)
(* (server/common/enforcement.py, server/carbon/runtime/fesl.py and        *)
(* theater.py, server/carbon/fesl/service.py, theater/service.py,          *)
(* accounts/sqlite_backend.py, app.py).                                    *)
(*                                                                         *)
(* Every connection has a thread, the monitor has one, the command line is *)
(* another process.  A FESL login is several transactions under the        *)
(* connection's dispatch_lock; the monitor takes that lock to close a      *)
(* connection but not to read whose it is.                                 *)
(*                                                                         *)
(* Abstracted: the registry of leases is the map lease (SessionLeases has  *)
(* the whole of it; a lease is renewed while its connection lives); an     *)
(* account has one persona; a room is "the account is in some room".       *)
(***************************************************************************)
EXTENDS Naturals, Sequences, FiniteSets

CONSTANTS
    Account,
    Fesl,           \* FESL connections (a connection id is used once)
    Theater,        \* Theater connections
    Action,         \* the policy actions an administrator uses
    Grace,          \* ACCOUNT_POLICY_CLOSE_GRACE_SECONDS, in ticks
    MaxEvents,      \* bound: policy events
    MaxTokens,      \* bound: logins
    None

Conn == Fesl \union Theater

AccountPolicyActions == {"ban", "unban", "disable", "enable", "kick"}
Restrictive == {"ban", "disable", "kick"}

ASSUME ConstantsAssumption ==
    /\ Fesl \intersect Theater = {}
    /\ None \notin Account \union Conn \union Nat
    /\ Action \subseteq AccountPolicyActions
    /\ Grace \in Nat /\ MaxEvents \in Nat /\ MaxTokens \in Nat

VARIABLES
    (* the database *)
    log,        \* account_policy_events
    barred,     \* account -> the flags "banned" and "disabled" that are set
    lease,      \* account -> the FESL connection that holds it in active_sessions
    (* the identity store *)
    tokens,     \* _sessions; a dict, so in the order of the token numbers
    forced,     \* _forced_logoffs
    issued,     \* tokens made so far
    (* the connections *)
    phase,      \* "new", "open", "closing" (unregistered, lease released), "gone"
    login,      \* FESL connection -> the login it is dispatching
    ident,      \* context.identity
    key,        \* FESL connection -> context.session_key, 0 when empty
    readOnly,   \* the Theater connections with a forced_logoff_reason
    gate,       \* policy_close: ticks left of the drain window
    since,      \* history: length of log when ident was assigned
    room,       \* account -> since of the connection that entered its room
    (* the account-policy monitor *)
    cursor,     \* _cursor
    job         \* the event being enforced

database == <<log, barred, lease>>
store == <<tokens, forced, issued>>
connections == <<phase, login, ident, key, readOnly, gate, since>>
monitor == <<cursor, job>>
vars == <<database, store, connections, room, monitor>>

Event == [acct : Account, action : AccountPolicyActions]
Token == [token : Nat \ {0}, acct : Account]
Login == [acct : Account, step : {"conflict", "claimed", "takeover"}]
Job == [step : {"match", "begin", "request"},
        todo : SUBSET Conn, matched : SUBSET Conn, ok : BOOLEAN]

Init ==
    /\ log = <<>>
    /\ barred = [a \in Account |-> {}]
    /\ lease = [a \in Account |-> None]
    /\ tokens = {} /\ forced = {} /\ issued = 0
    /\ phase = [c \in Conn |-> "new"]
    /\ login = [c \in Fesl |-> None]
    /\ ident = [c \in Conn |-> None]
    /\ key = [c \in Fesl |-> 0]
    /\ readOnly = {}
    /\ gate = [c \in Conn |-> None]
    /\ since = [c \in Conn |-> 0]
    /\ room = [a \in Account |-> None]
    /\ cursor = 0 /\ job = None

-----------------------------------------------------------------------------
(* FESL: connection, login, disconnection *)

Connect(c) ==
    /\ phase[c] = "new"
    /\ phase' = [phase EXCEPT ![c] = "open"]
    /\ UNCHANGED <<database, store, login, ident, key, readOnly, gate, since, room, monitor>>

\* The loop dispatches a frame only while the connection is not closing.
Dispatching(c) == phase[c] = "open" /\ gate[c] = None

\* No FESL login holds the dispatch_lock of c.
LockFree(c) == c \in Fesl => login[c] = None

TokensOf(a) == {t \in tokens : t.acct = a}

ReleaseLeases(c) == [a \in Account |-> IF lease[a] = c THEN None ELSE lease[a]]

\* A successful claim: the connection's other lease goes, as in the registry.
TakeLease(c, a) == [ReleaseLeases(c) EXCEPT ![a] = c]

InFlight == Cardinality({c \in Fesl : login[c] # None})

\* authenticate and the first claim.  A duplicate of an established session
\* goes on to the takeover; the rejections change nothing.
BeginLogin(c, a) ==
    /\ Dispatching(c)
    /\ login[c] = None
    /\ issued + InFlight < MaxTokens
    /\ barred[a] = {}
    /\ \/ /\ lease[a] \in {None, c}
          /\ lease' = TakeLease(c, a)
          /\ login' = [login EXCEPT ![c] = [acct |-> a, step |-> "claimed"]]
       \/ /\ lease[a] \notin {None, c}
          /\ TokensOf(a) # {}
          /\ login' = [login EXCEPT ![c] = [acct |-> a, step |-> "conflict"]]
          /\ UNCHANGED lease
    /\ UNCHANGED <<log, barred, store, phase, ident, key, readOnly, gate, since, room, monitor>>

\* The second claim, with replace_same_game; a restriction since rejects it.
ReplaceClaim(c) ==
    /\ login[c] # None /\ login[c].step = "conflict"
    /\ IF barred[login[c].acct] = {}
       THEN /\ lease' = TakeLease(c, login[c].acct)
            /\ login' = [login EXCEPT ![c].step = "takeover"]
       ELSE /\ login' = [login EXCEPT ![c] = None]
            /\ UNCHANGED lease
    /\ UNCHANGED <<log, barred, store, phase, ident, key, readOnly, gate, since, room, monitor>>

Claimed(c) == login[c] # None /\ login[c].step # "conflict"

WithoutToken(toks, k) == {t \in toks : t.token # k}

\* next(...) over _sessions: a takeover displaces the account's oldest token.
Displaced(c) ==
    IF login[c].step = "takeover"
    THEN {t \in TokensOf(login[c].acct) : \A u \in TokensOf(login[c].acct) : t.token <= u.token}
    ELSE {}

NewToken(c) == [token |-> issued + 1, acct |-> login[c].acct]

TokensAfterLogin_KeepsOld(c) == (tokens \ Displaced(c)) \union {NewToken(c)}

TokensAfterLogin_KeepsDisplaced(c) == WithoutToken(tokens, key[c]) \union {NewToken(c)}

\* The displaced token goes, and the one that the connection had before.
TokensAfterLogin(c) ==
    WithoutToken(tokens \ Displaced(c), key[c]) \union {NewToken(c)}

\* identities.login and the assignments after it.
Establish(c) ==
    LET a == login[c].acct
    IN  /\ Claimed(c)
        /\ login[c].step = "takeover" => TokensOf(a) # {}
        /\ issued' = issued + 1
        /\ forced' = forced \union Displaced(c)
        /\ tokens' = TokensAfterLogin(c)
        /\ key' = [key EXCEPT ![c] = issued + 1]
        /\ ident' = [ident EXCEPT ![c] = a]
        /\ since' = [since EXCEPT ![c] = IF ident[c] = a THEN @ ELSE Len(log)]
        /\ login' = [login EXCEPT ![c] = None]
        /\ UNCHANGED <<database, phase, readOnly, gate, room, monitor>>

\* identities.login raises: nothing to displace any more, or the database
\* failed.  The lease is released; the connection loop survives the exception.
LoginFails(c) ==
    /\ Claimed(c)
    /\ lease' = ReleaseLeases(c)
    /\ login' = [login EXCEPT ![c] = None]
    /\ UNCHANGED <<log, barred, store, phase, ident, key, readOnly, gate, since, room, monitor>>

\* The finally clause of the FESL loop: unregister and release the lease,
\* then revoke the token.
Close(c) ==
    /\ phase[c] = "open"
    /\ LockFree(c)
    /\ IF c \in Fesl
       THEN /\ phase' = [phase EXCEPT ![c] = "closing"]
            /\ lease' = ReleaseLeases(c)
       ELSE /\ phase' = [phase EXCEPT ![c] = "gone"]
            /\ UNCHANGED lease
    /\ UNCHANGED <<log, barred, store, login, ident, key, readOnly, gate, since, room, monitor>>

Revoke(c) ==
    /\ phase[c] = "closing"
    /\ phase' = [phase EXCEPT ![c] = "gone"]
    /\ tokens' = WithoutToken(tokens, key[c])
    /\ key' = [key EXCEPT ![c] = 0]
    /\ ident' = [ident EXCEPT ![c] = None]
    /\ UNCHANGED <<database, forced, issued, login, readOnly, gate, since, room, monitor>>

-----------------------------------------------------------------------------
(* Theater *)

Identified(c, a) ==
    /\ ident' = [ident EXCEPT ![c] = a]
    /\ since' = [since EXCEPT ![c] = IF ident[c] = a THEN @ ELSE Len(log)]

\* USER presents a token: a live one, or one kept for a displaced client.
User(c, k) ==
    /\ Dispatching(c)
    /\ \/ \E t \in tokens :
             /\ t.token = k
             /\ Identified(c, t.acct)
             /\ UNCHANGED readOnly
       \/ \E f \in forced :
             /\ f.token = k
             /\ \A t \in tokens : t.token # k
             /\ Identified(c, f.acct)
             /\ readOnly' = readOnly \union {c}
    /\ UNCHANGED <<database, store, phase, login, key, gate, room, monitor>>

\* CGAM or EGAM puts the connection's account in a room.
EnterRoom(c) ==
    /\ Dispatching(c)
    /\ ident[c] # None
    /\ room' = [room EXCEPT ![ident[c]] = since[c]]
    /\ UNCHANGED <<database, store, connections, monitor>>

\* ECNL, or the race transport noticing that the player went away.
LeaveRoom(a) ==
    /\ room[a] # None
    /\ room' = [room EXCEPT ![a] = None]
    /\ UNCHANGED <<database, store, connections, monitor>>

-----------------------------------------------------------------------------
(* Account administration: flag, lease and event in one transaction *)

FlagOf == [ban |-> "banned", unban |-> "banned", disable |-> "disabled", enable |-> "disabled"]

\* set_banned and set_enabled append an event only for a change; kick always.
Administer(a, action) ==
    /\ Len(log) < MaxEvents
    /\ CASE action = "kick" -> UNCHANGED barred
         [] action \in {"ban", "disable"} ->
              /\ FlagOf[action] \notin barred[a]
              /\ barred' = [barred EXCEPT ![a] = @ \union {FlagOf[action]}]
         [] action \in {"unban", "enable"} ->
              /\ FlagOf[action] \in barred[a]
              /\ barred' = [barred EXCEPT ![a] = @ \ {FlagOf[action]}]
    /\ log' = Append(log, [acct |-> a, action |-> action])
    /\ lease' = IF action \in Restrictive THEN [lease EXCEPT ![a] = None] ELSE lease
    /\ UNCHANGED <<store, connections, room, monitor>>

-----------------------------------------------------------------------------
(* AccountPolicyMonitor and LiveAccountConnectionRegistry.enforce *)

Pending == log[cursor + 1]

Snapshot_OnlyIdle == {c \in Conn : phase[c] = "open" /\ LockFree(c)}

\* What live_connections holds: registered when open, unregistered first.
Snapshot == {c \in Conn : phase[c] = "open"}

\* poll_once takes the next event; enforce snapshots the registered connections.
Poll ==
    /\ job = None
    /\ cursor < Len(log)
    /\ IF Pending.action \in Restrictive
       THEN /\ job' = [step |-> IF Snapshot = {} THEN "begin" ELSE "match",
                       todo |-> Snapshot, matched |-> {}, ok |-> TRUE]
            /\ UNCHANGED cursor
       ELSE /\ cursor' = cursor + 1
            /\ UNCHANGED job
    /\ UNCHANGED <<database, store, connections, room>>

\* connection.account_name() of one connection of the snapshot; no lock.
Match(c) ==
    LET matched == IF ident[c] = Pending.acct THEN job.matched \union {c} ELSE job.matched
        rest    == job.todo \ {c}
    IN  /\ job # None /\ job.step = "match" /\ c \in job.todo
        /\ job' = IF rest = {}
                  THEN [job EXCEPT !.step = "begin", !.todo = matched, !.matched = matched]
                  ELSE [job EXCEPT !.todo = rest, !.matched = matched]
        /\ UNCHANGED <<database, store, connections, room, cursor>>

\* A request never moves a deadline later.
Requested_Extends(c, grace) == [gate EXCEPT ![c] = grace]

Requested(c, grace) ==
    [gate EXCEPT ![c] = IF gate[c] = None \/ grace < gate[c] THEN grace ELSE @]

BeginClose_NeedsOpenGate(c) ==
    /\ job # None /\ job.step = "begin" /\ c \in job.todo
    /\ LockFree(c)
    /\ gate[c] = None
    /\ \E grace \in (IF c \in Fesl THEN {0, Grace} ELSE {Grace}) : gate' = Requested(c, grace)
    /\ job' = [job EXCEPT !.todo = @ \ {c}]
    /\ UNCHANGED <<database, store, phase, login, ident, key, readOnly, since, room, cursor>>

BeginClose_OnlyNotifies(c) ==
    /\ job # None /\ job.step = "begin" /\ c \in job.todo
    /\ LockFree(c)
    /\ job' = [job EXCEPT !.todo = @ \ {c}]
    /\ UNCHANGED <<database, store, connections, room, cursor>>

\* begin_close.  A FESL notification that cannot be sent forces the close.
BeginClose(c) ==
    /\ job # None /\ job.step = "begin" /\ c \in job.todo
    /\ LockFree(c)
    /\ \/ /\ gate[c] = None
          /\ \E grace \in (IF c \in Fesl THEN {0, Grace} ELSE {Grace}) :
                gate' = Requested(c, grace)
       \/ /\ gate[c] # None
          /\ UNCHANGED gate
    /\ job' = [job EXCEPT !.todo = @ \ {c}]
    /\ UNCHANGED <<database, store, phase, login, ident, key, readOnly, since, room, cursor>>

\* before_close: the account leaves every room, or the cleanup fails.
Cleanup ==
    /\ job # None /\ job.step = "begin" /\ job.todo = {}
    /\ job' = [job EXCEPT !.step = "request", !.todo = job.matched]
    /\ room' = [room EXCEPT ![Pending.acct] = None]
    /\ UNCHANGED <<database, store, connections, cursor>>

CleanupFails ==
    /\ job # None /\ job.step = "begin" /\ job.todo = {}
    /\ job' = [job EXCEPT !.step = "request", !.todo = job.matched, !.ok = FALSE]
    /\ UNCHANGED <<database, store, connections, room, cursor>>

RequestClose(c) ==
    /\ job # None /\ job.step = "request" /\ c \in job.todo
    /\ LockFree(c)
    /\ gate' = Requested(c, Grace)
    /\ job' = [job EXCEPT !.todo = @ \ {c}]
    /\ UNCHANGED <<database, store, phase, login, ident, key, readOnly, since, room, cursor>>

\* A failed event is not passed; a later poll retries it.
Finish ==
    /\ job # None /\ job.step = "request" /\ job.todo = {}
    /\ cursor' = IF job.ok THEN cursor + 1 ELSE cursor
    /\ job' = None
    /\ UNCHANGED <<database, store, connections, room>>

-----------------------------------------------------------------------------
Draining == {c \in Conn : phase[c] = "open" /\ gate[c] # None}

Tick_PastZero ==
    /\ \E c \in Draining : gate[c] > 0
    /\ gate' = [c \in Conn |-> IF c \in Draining THEN gate[c] - 1 ELSE gate[c]]
    /\ UNCHANGED <<database, store, phase, login, ident, key, readOnly, since, room, monitor>>

\* The monotonic clock that drain windows are measured on.
Tick ==
    /\ \E c \in Draining : gate[c] > 0
    /\ gate' = [c \in Conn |-> IF c \in Draining /\ gate[c] > 0 THEN gate[c] - 1 ELSE gate[c]]
    /\ UNCHANGED <<database, store, phase, login, ident, key, readOnly, since, room, monitor>>

\* The loop closes a connection whose window is over.
Expire(c) == gate[c] = 0 /\ Close(c)

Enforce ==
    \/ Poll \/ Cleanup \/ CleanupFails \/ Finish
    \/ \E c \in Conn : Match(c) \/ BeginClose(c) \/ RequestClose(c)

Next ==
    \/ \E c \in Conn : Connect(c) \/ Close(c)
    \/ \E c \in Fesl :
          \/ \E a \in Account : BeginLogin(c, a)
          \/ ReplaceClaim(c) \/ Establish(c) \/ LoginFails(c) \/ Revoke(c)
    \/ \E c \in Theater :
          \/ \E k \in 1..issued : User(c, k)
          \/ EnterRoom(c)
    \/ \E a \in Account : LeaveRoom(a) \/ \E action \in Action : Administer(a, action)
    \/ Enforce
    \/ Tick

Spec == Init /\ [][Next]_vars

\* Time passes, the monitor thread runs, and so does every connection thread:
\* it ends the frame it dispatches and closes when its window is over.
FairSpec ==
    /\ Spec
    /\ WF_vars(Tick)
    /\ WF_vars(Enforce)
    /\ \A c \in Conn : WF_vars(Expire(c))
    /\ \A c \in Fesl :
          WF_vars(ReplaceClaim(c) \/ Establish(c) \/ LoginFails(c)) /\ WF_vars(Revoke(c))

-----------------------------------------------------------------------------
(* Properties *)

TypeOK ==
    /\ log \in Seq(Event) /\ Len(log) <= MaxEvents
    /\ barred \in [Account -> SUBSET {"banned", "disabled"}]
    /\ lease \in [Account -> Fesl \union {None}]
    /\ tokens \subseteq Token /\ forced \subseteq Token /\ issued \in Nat
    /\ phase \in [Conn -> {"new", "open", "closing", "gone"}]
    /\ login \in [Fesl -> Login \union {None}]
    /\ ident \in [Conn -> Account \union {None}]
    /\ key \in [Fesl -> Nat]
    /\ readOnly \subseteq Theater
    /\ gate \in [Conn -> 0..Grace \union {None}]
    /\ since \in [Conn -> 0..MaxEvents]
    /\ room \in [Account -> 0..MaxEvents \union {None}]
    /\ cursor \in 0..MaxEvents
    /\ job \in Job \union {None}

\* The restrictive events about a that the monitor has passed.
Delivered(a) ==
    {i \in 1..cursor : log[i].acct = a /\ log[i].action \in Restrictive}

\* Once the monitor has passed a restrictive event, every connection that was
\* identified as the account before the event was committed is draining or
\* closed, whatever the connection was dispatching and however often the
\* cleanup failed in between.
DeliveredReachesKnown ==
    \A c \in Conn :
        phase[c] = "open" /\ ident[c] # None /\ gate[c] = None =>
            \A i \in Delivered(ident[c]) : since[c] >= i

\* And no room membership is left that such a connection obtained: the gate
\* goes up before the rooms are cleaned, so that it cannot enter one again.
DeliveredClearsRooms ==
    \A a \in Account : room[a] # None => \A i \in Delivered(a) : room[a] >= i

\* A session token is live only while the connection it was made for has it
\* as its session key; it dies with the connection and with the next login.
TokensHaveOwners ==
    \A t \in tokens :
        \E c \in Fesl : key[c] = t.token /\ ident[c] = t.acct
                        /\ phase[c] \in {"open", "closing"}

\* A displaced token is never accepted as a live session again.
DisplacedStaysDisplaced ==
    \A f \in forced, t \in tokens : f.token # t.token

\* A drain window ends, even when the event is retried for ever.
DrainingConnectionsClose ==
    \A c \in Conn : c \in Draining ~> phase[c] = "gone"

\* Unless cleanups fail for ever, or clients keep logging in for ever, each time
\* taking their dispatch_lock before the monitor does, the monitor passes every
\* event; a login that holds a lock or a connection that is closed already does not
\* stop it.
EveryEventDelivered ==
    <>[][~CleanupFails /\ \A c \in Fesl, a \in Account : ~BeginLogin(c, a)]_vars =>
        \A n \in 1..MaxEvents : Len(log) >= n ~> cursor >= n

-----------------------------------------------------------------------------
(* What comments and docstrings say, and the code does not keep *)

\* enforcement.py: "Every running service follows the same append-only event
\* stream and applies a restrictive policy to its own in-memory protocol
\* state."  So when the stream is followed to its end, no connection plays on
\* under an account that is banned or disabled.
BarredAreOffline ==
    cursor = Len(log) =>
        \A c \in Conn :
            phase[c] = "open" /\ ident[c] # None /\ gate[c] = None /\ LockFree(c) =>
                barred[ident[c]] = {}
=============================================================================
