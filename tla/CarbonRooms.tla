---------------------------- MODULE CarbonRooms ----------------------------
(***************************************************************************)
(* Carbon's rooms: the game directory that PlayNow and Theater fill, and   *)
(* the UDP rebroadcaster's endpoints that its players race through         *)
(* (server/carbon/theater/directory.py and service.py, ea/directory.py,    *)
(* rebroadcaster/endpoint_lifecycle.py, room_lifecycle.py, service.py).    *)
(*                                                                         *)
(* A Theater or FESL thread works on the directory under its lock.  The    *)
(* UDP listener, its poll and the account policy hold the rebroadcaster's  *)
(* lock, and a handler of theirs is one action.  ECNL is two: the          *)
(* rebroadcaster is asked first, the directory is changed later.           *)
(*                                                                         *)
(* Abstracted: a time-out is an action enabled whenever its condition      *)
(* other than the clock holds; a race's five stages between its countdown  *)
(* and its end are "loading" and "racing"; what travels in the reliable    *)
(* windows is left out but for PlayerLeft; a ReadyEpoch is "seeded" until   *)
(* its native bundle; a player has one Theater connection; a retired room  *)
(* forgets its members; invites that wait for their EGEG batch, and the    *)
(* choice PlayNow makes among the rooms it may list, are left out.         *)
(***************************************************************************)
EXTENDS Naturals, FiniteSets

CONSTANTS
    Users,
    Gids,               \* rooms; a number is used once
    Addrs,              \* UDP endpoints
    Kinds,              \* the kinds of room players ask for
    MinCapacity,        \* 2 in the code
    MaxCapacity,        \* 8 in the code
    BeforeReady,        \* challenge_quick_join_before_ready
    AfterReady,         \* challenge_quick_join_after_ready
    Unset

Keys == Gids \X Users

ASSUME ConstantsAssumption ==
    /\ IsFiniteSet(Users)
    /\ Kinds \subseteq {"client", "dedicated", "challenge"}
    /\ MinCapacity \in Nat \ {0} /\ MaxCapacity \in Nat /\ MinCapacity <= MaxCapacity
    /\ BeforeReady \in BOOLEAN /\ AfterReady \in BOOLEAN
    /\ Unset \notin Users \union Gids \union Addrs \union Keys

VARIABLES
    rooms,      \* gid -> CarbonGame and its GameSession
    theater,    \* user -> TheaterConnection
    client,     \* user -> "online", "gone" (crashed), "forced" (by account policy)
    binding,    \* _bindings: address -> <<gid, user>>
    index,      \* _participant_endpoints: <<gid, user>> -> address
    wire,       \* _wire: what address is still to be told
    race,       \* gid -> GameRaceState and ReadyEpoch
    reconnect   \* _reconnect_pending

directory == <<rooms, theater, client>>
transport == <<binding, index, wire, race, reconnect>>
vars == <<directory, transport>>

Room == [status : {"unused", "live", "retired"},
         kind : {"client", "dedicated", "challenge"},
         owner : Users \union {Unset},  \* host of a client's room, else allocator
         members : SUBSET Users,        \* participants
         seats : SUBSET Users,          \* participants of the GameSession
         capacity : 0 .. MaxCapacity,
         locked : BOOLEAN,              \* quick_join_locked
         ready : BOOLEAN]               \* challenge_ready

Connection == [invite : Gids \union {Unset},    \* announced_gdet_gid, by an invite
               leaving : Gids \union {Unset}]   \* ECNL between its two halves

Phases == {"none", "setup", "countdown", "loading", "racing", "finished"}
Race == [phase : Phases, access : {"open", "locked"},
         epoch : {"none", "seeded", "active"}]      \* ReadyEpoch.stage

Wire == [leaves : SUBSET Users,                 \* pending_player_leaves
         exit : {"none", "queued", "sent"}]     \* host_exit_queued_at, ..._left_sent

NoRoom == [status |-> "unused", kind |-> "client", owner |-> Unset,
           members |-> {}, seats |-> {}, capacity |-> 0,
           locked |-> FALSE, ready |-> FALSE]
NewConnection == [invite |-> Unset, leaving |-> Unset]
NoRace == [phase |-> "none", access |-> "open", epoch |-> "none"]
NewRace == [NoRace EXCEPT !.phase = "setup"]
NewWire == [leaves |-> {}, exit |-> "none"]

Init ==
    /\ rooms = [g \in Gids |-> NoRoom]
    /\ theater = [u \in Users |-> NewConnection]
    /\ client = [u \in Users |-> "online"]
    /\ binding = [a \in Addrs |-> Unset]
    /\ index = [k \in Keys |-> Unset]
    /\ wire = [a \in Addrs |-> NewWire]
    /\ race = [g \in Gids |-> NoRace]
    /\ reconnect = {}

Live(g) == rooms[g].status = "live"
Member(g, u) == Live(g) /\ u \in rooms[g].members
RoomOf(a) == binding[a][1]
UserOf(a) == binding[a][2]
Bound(a) == binding[a] # Unset
Endpoints(g) == {a \in Addrs : Bound(a) /\ RoomOf(a) = g}
Hosts(a) == UserOf(a) = rooms[RoomOf(a)].owner

(***************************************************************************)
(* The directory.                                                          *)
(***************************************************************************)
Retired(r) ==
    [status |-> "retired", kind |-> r.kind, owner |-> r.owner, members |-> {},
     seats |-> {}, capacity |-> 0, locked |-> FALSE, ready |-> FALSE]

\* leave: the coordinator takes the room with it, and so does the last member.
LeftRoom(r, u) ==
    IF r.status # "live" \/ u \notin r.members THEN r
    ELSE IF u = r.owner \/ r.members = {u} THEN Retired(r)
    ELSE [r EXCEPT !.members = @ \ {u}, !.seats = @ \ {u}]

\* Mutants of MovedOut: the game session is not told; nobody moves out.
MovedOutButSeated(r, u) ==
    IF r.status # "live" \/ u \notin r.members THEN r
    ELSE IF r.members = {u} THEN Retired(r)
    ELSE [r EXCEPT !.members = @ \ {u}]
StaysBehind(r, u) == r

\* enter, in the rooms the player comes from: only an empty one is retired.
MovedOut(r, u) ==
    IF r.status # "live" \/ u \notin r.members THEN r
    ELSE IF r.members = {u} THEN Retired(r)
    ELSE [r EXCEPT !.members = @ \ {u}, !.seats = @ \ {u}]

Seated(r, u) == [r EXCEPT !.members = @ \union {u}, !.seats = @ \union {u}]

\* Mutant of CanJoin: one player too many.
CanSqueezeIn(r, u) ==
    \/ u \in r.seats
    \/ r.kind = "client" /\ u = r.owner
    \/ Cardinality(r.seats) <= r.capacity

\* GameSession.can_join; a dedicated room's session is owned by the server.
CanJoin(r, u) ==
    \/ u \in r.seats
    \/ r.kind = "client" /\ u = r.owner
    \/ Cardinality(r.seats) < r.capacity

\* The PlayNow gate, which an invited player and the allocator pass.
PassesGate(r, u, invited) ==
    ~r.locked \/ invited \/ (r.kind # "client" /\ u = r.owner)

EnteredRooms(u, g, invited) ==
    [h \in Gids |->
        IF h # g THEN MovedOut(rooms[h], u)
        ELSE IF u \in rooms[g].members \/ ~PassesGate(rooms[g], u, invited)
                \/ ~CanJoin(rooms[g], u)
             THEN rooms[g]
             ELSE Seated(rooms[g], u)]

\* set_challenge_ready; set_quick_join_locked(FALSE) for the other kinds.
Readied(r, ready) ==
    IF r.kind = "challenge"
    THEN [r EXCEPT !.ready = ready,
                   !.locked = ~(IF ready THEN AfterReady ELSE BeforeReady)]
    ELSE [r EXCEPT !.locked = FALSE]

(***************************************************************************)
(* PlayNow and Theater.  A connection serves one request at a time.        *)
(***************************************************************************)
Online(u) == client[u] = "online"
Serving(u) == Online(u) /\ theater[u].leaving = Unset

\* create: CGAM and PlayNow's "create" seat the client, PlayNow's "resetServer"
\* allocates a room nobody is in yet.
Create(u, g, kind, capacity) ==
    /\ Online(u) /\ rooms[g].status = "unused"
    /\ LET first == IF kind = "client" THEN {u} ELSE {}
       IN rooms' = [rooms EXCEPT ![g] =
            [status |-> "live", kind |-> kind, owner |-> u,
             members |-> first, seats |-> first, capacity |-> capacity, ready |-> FALSE,
             locked |-> kind = "challenge" /\ ~BeforeReady]]
    /\ UNCHANGED <<theater, client, transport>>

\* GDAT with USER: the preview of an invite.
PreviewInvite(u, g) ==
    /\ Serving(u) /\ Live(g)
    /\ theater' = [theater EXCEPT ![u].invite = g]
    /\ UNCHANGED <<rooms, client, transport>>

\* EGAM; a connection that entered forgets the invite it previewed.
EnterGame(u, g) ==
    /\ Serving(u) /\ Live(g)
    /\ LET entered == EnteredRooms(u, g, theater[u].invite = g)
       IN /\ rooms' = entered
          /\ theater' = IF u \in entered[g].members
                        THEN [theater EXCEPT ![u] = NewConnection]
                        ELSE theater
    /\ UNCHANGED <<client, transport>>

\* A Theater connection ends; the player stays in its room.
Disconnected(u) ==
    /\ theater[u] # NewConnection /\ theater[u].leaving = Unset
    /\ theater' = [theater EXCEPT ![u] = NewConnection]
    /\ UNCHANGED <<rooms, client, transport>>

(***************************************************************************)
(* Dropping endpoints.  D is dropped, T is its part that is announced.     *)
(***************************************************************************)
Announced(b, T) ==
    {u \in Users : \E a \in T : binding[a] = <<RoomOf(b), u>>}

Told(b, T) ==
    [leaves |-> wire[b].leaves \union Announced(b, T),
     exit |-> IF rooms[RoomOf(b)].owner \in Announced(b, T) THEN "queued"
              ELSE wire[b].exit]

\* Mutant of Aborted: the access of the race stays locked.
AbortedLocked(r) ==
    IF r.phase \in {"setup", "countdown"} THEN [NewRace EXCEPT !.access = r.access]
    ELSE [r EXCEPT !.epoch = "none"]

\* abort_ready_epoch on a room's race ...
Aborted(r) ==
    IF r.phase \in {"setup", "countdown"} THEN NewRace ELSE [r EXCEPT !.epoch = "none"]

\* Mutant of RaceWithout: the race of a room nobody is bound to is kept.
RaceKept(g, D) ==
    IF Endpoints(g) \intersect D = {} THEN race[g] ELSE Aborted(race[g])

RaceWithout(g, D) ==
    IF Endpoints(g) \intersect D = {} THEN race[g]
    ELSE IF Endpoints(g) \subseteq D THEN NoRace
    ELSE Aborted(race[g])

DropEndpoints(D, T) ==
    /\ binding' = [a \in Addrs |-> IF a \in D THEN Unset ELSE binding[a]]
    /\ index' = [k \in Keys |-> IF index[k] \in D THEN Unset ELSE index[k]]
    /\ wire' = [b \in Addrs |->
                    IF b \in D THEN NewWire
                    ELSE IF Bound(b) THEN Told(b, T) ELSE wire[b]]
    /\ race' = [g \in Gids |-> RaceWithout(g, D)]

\* ... and on its gate in the directory.
Reopened(D) ==
    [g \in Gids |->
        IF Live(g) /\ race[g].phase \in {"setup", "countdown"}
           /\ Endpoints(g) \intersect D # {}
        THEN Readied(rooms[g], FALSE)
        ELSE rooms[g]]

\* The last endpoint of a room is dropped: retire_transport_state when it follows
\* its coordinator, else clear_unbound_transport_state keeps the intents.
ForgetWith(D, T) ==
    IF D # {} /\ \A b \in D : Endpoints(RoomOf(b)) \subseteq D
    THEN \E last \in D :
            /\ last \in T => D = {last}
            /\ LET forgets == wire[last].exit # "none" \/ \E b \in T : Hosts(b)
               IN reconnect' = IF forgets THEN {k \in reconnect : k[1] # RoomOf(last)}
                               ELSE reconnect
    ELSE UNCHANGED reconnect

\* retire_transport_state.
Forget(G) == reconnect' = {k \in reconnect : k[1] \notin G}

LeftIn(rs, g, u) == [rs EXCEPT ![g] = LeftRoom(rs[g], u)]
RetiredIn(rs, G) ==
    [g \in Gids |-> IF g \in G /\ rs[g].status = "live" THEN Retired(rs[g]) ELSE rs[g]]

(***************************************************************************)
(* ECNL: the rebroadcaster first, the directory in a second step.          *)
(***************************************************************************)
Deferred(g) == race[g].epoch # "none" \/ race[g].phase \in {"countdown", "racing"}

\* The coordinator has no endpoint of its own, its peers are told all the same.
AnnounceUnbound(g, u) ==
    /\ wire' = [b \in Addrs |->
                    IF b \in Endpoints(g)
                    THEN [leaves |-> wire[b].leaves \union {u}, exit |-> "queued"]
                    ELSE wire[b]]
    /\ UNCHANGED <<binding, index, race>>

BeginLeave(u, g) ==
    /\ Serving(u) /\ rooms[g].status # "unused" /\ ~Deferred(g)
    /\ theater' = [theater EXCEPT ![u].leaving = g]
    /\ LET a == index[<<g, u>>]
           coordinator == Live(g) /\ rooms[g].owner = u
       IN \/ /\ a # Unset
             /\ DropEndpoints({a}, {a})
             /\ rooms' = Reopened({a})
             /\ ForgetWith({a}, {a})
          \/ /\ a = Unset /\ coordinator
             /\ IF Member(g, u) THEN AnnounceUnbound(g, u)
                ELSE UNCHANGED <<binding, index, wire, race>>
             /\ Forget(IF Endpoints(g) = {} THEN {g} ELSE {})
             /\ UNCHANGED rooms
          \/ /\ a = Unset /\ ~coordinator
             /\ UNCHANGED <<rooms, transport>>
    /\ UNCHANGED client

FinishLeave(u) ==
    /\ theater[u].leaving # Unset
    /\ rooms' = LeftIn(rooms, theater[u].leaving, u)
    /\ theater' = [theater EXCEPT ![u].leaving = Unset]
    /\ UNCHANGED <<client, transport>>

(***************************************************************************)
(* The UDP listener.                                                       *)
(***************************************************************************)
Playing(u) == client[u] # "gone"

\* Mutant of Rebound: the player's earlier address stays bound.
ReboundTwice(a, k) == [binding EXCEPT ![a] = k]

\* bind moves the player to its new address.
Rebound(a, k) ==
    [b \in Addrs |-> IF b = a THEN k ELSE IF b = index[k] THEN Unset ELSE binding[b]]

\* A ticket datagram: resolve_ticket knows members only.
Bind(a, g, u) ==
    /\ Playing(u) /\ Member(g, u) /\ ~Bound(a)
    /\ binding' = Rebound(a, <<g, u>>)
    /\ index' = [index EXCEPT ![<<g, u>>] = a]
    /\ wire' = [b \in Addrs |-> IF b \in {a, index[<<g, u>>]} THEN NewWire ELSE wire[b]]
    /\ race' = [race EXCEPT ![g] = IF race[g].phase = "none" THEN NewRace ELSE race[g]]
    /\ reconnect' = reconnect \ {<<g, u>>}
    /\ UNCHANGED directory

\* DISCONNECT.
HangUp(a) ==
    /\ Bound(a) /\ Playing(UserOf(a))
    /\ DropEndpoints({a}, {a}) /\ ForgetWith({a}, {a})
    /\ rooms' = LeftIn(Reopened({a}), RoomOf(a), UserOf(a))
    /\ UNCHANGED <<theater, client>>

\* CONNECT on a bound address: a fresh transport for the same player.
Redial(a) ==
    /\ Bound(a) /\ Playing(UserOf(a))
    /\ DropEndpoints({a}, {})
    /\ reconnect' = {k \in reconnect \union {binding[a]} :
                        k[1] = RoomOf(a) /\ Endpoints(k[1]) = {a} => wire[a].exit = "none"}
    /\ rooms' = Reopened({a})
    /\ UNCHANGED <<theater, client>>

(***************************************************************************)
(* The poll.                                                               *)
(***************************************************************************)
\* Mutant of Published: the terminal PlayerLeft is not noted.
PublishedUnnoted(w) == [w EXCEPT !.leaves = {}]

Published(w) ==
    [leaves |-> {}, exit |-> IF w.exit = "queued" THEN "sent" ELSE w.exit]

PublishLeaves(a) ==
    /\ Bound(a) /\ wire[a].leaves # {}
    /\ wire' = [wire EXCEPT ![a] = Published(wire[a])]
    /\ UNCHANGED <<directory, binding, index, race, reconnect>>

\* The terminal PlayerLeft is acknowledged, or five seconds have passed.
Drain(a) ==
    /\ Bound(a) /\ wire[a].exit = "sent"
    /\ DropEndpoints({a}, {})
    /\ Forget({g \in {RoomOf(a)} : Endpoints(g) = {a}})
    /\ rooms' = Reopened({a})
    /\ UNCHANGED <<theater, client>>

\* expire_endpoint: the room's other endpoints go with it when the room does.
Expire(a) ==
    LET g == RoomOf(a)
        left == LeftIn(Reopened({a}), g, UserOf(a))
        dropped == IF left[g].status = "live" THEN {a} ELSE Endpoints(g)
    IN /\ DropEndpoints(dropped, {a}) /\ ForgetWith(dropped, {a})
       /\ rooms' = left
       /\ UNCHANGED <<theater, client>>

\* The bootstrap or an AI registration is not confirmed in time.
ExpireUnconfirmed(a) == Bound(a) /\ wire[a].exit = "none" /\ Expire(a)

\* FESL has no session for the player and its socket has been silent.
ExpireOffline(a) ==
    Bound(a) /\ Live(RoomOf(a)) /\ ~Online(UserOf(a)) /\ Expire(a)

DropRoom(g) == DropEndpoints(Endpoints(g), {}) /\ ForgetWith(Endpoints(g), {})

\* retire_room.
RetireRoom(g) ==
    /\ DropRoom(g)
    /\ rooms' = RetiredIn(rooms, {g})
    /\ UNCHANGED <<theater, client>>

\* allocation-without-egam-timeout
ExpireAllocation(g) ==
    Live(g) /\ rooms[g].kind # "client" /\ rooms[g].members = {} /\ RetireRoom(g)

\* race-transport-idle-timeout
ExpireRace(g) ==
    /\ Live(g) /\ Endpoints(g) # {}
    /\ race[g].phase \in {"countdown", "loading", "racing"}
    /\ RetireRoom(g)

\* Mutant of Unbound: the coordinator is trusted to come.
UnboundGuest(g, u) == Member(g, u) /\ index[<<g, u>>] = Unset /\ rooms[g].owner # u

Unbound(g, u) == Member(g, u) /\ index[<<g, u>>] = Unset

\* gamemanager-bind-timeout
ExpireJoin(g, u) ==
    /\ Unbound(g, u)
    /\ rooms' = LeftIn(rooms, g, u)
    /\ IF rooms'[g].status = "live" THEN UNCHANGED transport ELSE DropRoom(g)
    /\ UNCHANGED <<theater, client>>

(***************************************************************************)
(* The race, as far as it locks the room.  A bound endpoint drives it.     *)
(***************************************************************************)
Advance(g, from, to) ==
    /\ Endpoints(g) # {} /\ race[g].phase = from
    /\ race' = [race EXCEPT ![g].phase = to]
    /\ UNCHANGED <<directory, binding, index, wire, reconnect>>

BeginCountdown(g) == Advance(g, "setup", "countdown")
StartLoading(g) == Advance(g, "countdown", "loading")
StartRacing(g) == Advance(g, "loading", "racing")
FinishRace(g) == Advance(g, "racing", "finished")

LockedGate(r) ==
    [r EXCEPT !.locked = ~(r.kind = "challenge" /\ r.ready /\ AfterReady)]

Gate(g, r) == rooms' = [rooms EXCEPT ![g] = IF Live(g) THEN r ELSE rooms[g]]

\* lock_room_access, when everybody is ready or a helper's room is committed.
LockAccess(g) ==
    /\ Cardinality(Endpoints(g)) >= 2
    /\ race' = [race EXCEPT ![g].access = "locked"]
    /\ Gate(g, LockedGate(rooms[g]))
    /\ UNCHANGED <<theater, client, binding, index, wire, reconnect>>

\* MATCHMAKING_OFF in a Challenge room.
ReadyControl(g) ==
    /\ Endpoints(g) # {} /\ Live(g) /\ rooms[g].kind = "challenge"
    /\ rooms' = [rooms EXCEPT ![g] = Readied(rooms[g], TRUE)]
    /\ UNCHANGED <<theater, client, transport>>

\* relay_retail_ready_seed: an earlier epoch is aborted after the room is ready.
ReadySeed(g) ==
    /\ rooms[g].kind = "challenge" /\ Cardinality(Endpoints(g)) >= 2
    /\ \E a \in Endpoints(g) : Hosts(a)
    /\ race[g].phase \in {"setup", "finished"} \/ race[g].epoch # "none"
    /\ LET again == race[g].epoch # "none"
           kept == IF again THEN Aborted(race[g]) ELSE race[g]
           reset == IF kept.phase = "finished" THEN NewRace ELSE kept
           undone == again /\ race[g].phase \in {"setup", "countdown"}
       IN /\ race' = [race EXCEPT ![g] = [reset EXCEPT !.epoch = "seeded"]]
          /\ Gate(g, Readied(rooms[g], ~undone))
    /\ UNCHANGED <<theater, client, binding, index, wire, reconnect>>

\* relay_native_ready_bundle: the coordinator's countdown begins and locks.
NativeBundle(g) ==
    /\ race[g].epoch = "seeded"
    /\ \E a \in Endpoints(g) : Hosts(a)
    /\ race' = [race EXCEPT
                    ![g].phase = IF @ = "setup" THEN "countdown" ELSE @,
                    ![g].access = "locked", ![g].epoch = "active"]
    /\ Gate(g, LockedGate(rooms[g]))
    /\ UNCHANGED <<theater, client, binding, index, wire, reconnect>>

\* reopen_finished_room.
ReopenRoom(g) ==
    /\ Endpoints(g) # {} /\ race[g].phase = "finished"
    /\ race' = [race EXCEPT ![g] = NewRace]
    /\ Gate(g, Readied(rooms[g], FALSE))
    /\ UNCHANGED <<theater, client, binding, index, wire, reconnect>>

Larger(m, n) == IF m > n THEN m ELSE n
Smaller(m, n) == IF m < n THEN m ELSE n

\* Mutant of Applied: one seat is kept free, after the limit.
AppliedPlusOne(g, requested) ==
    Larger(Cardinality(rooms[g].members) + 1,
           Smaller(MaxCapacity, Larger(MinCapacity, requested)))

Applied(g, requested) ==
    Smaller(MaxCapacity,
            Larger(MinCapacity, Larger(Cardinality(rooms[g].members), requested)))

\* set_authoritative_capacity, published by a Challenge room's coordinator.
SetCapacity(g, requested) ==
    /\ Live(g) /\ rooms[g].kind = "challenge"
    /\ \E a \in Endpoints(g) : Hosts(a)
    /\ Applied(g, requested) >= Cardinality(rooms[g].seats)
    /\ rooms' = [rooms EXCEPT ![g].capacity = Applied(g, requested)]
    /\ UNCHANGED <<theater, client, transport>>

(***************************************************************************)
(* Players who vanish, and players put out.                                *)
(***************************************************************************)
Crash(u) ==
    /\ Online(u)
    /\ client' = [client EXCEPT ![u] = "gone"]
    /\ UNCHANGED <<rooms, theater, transport>>

Return(u) ==
    /\ ~Online(u) /\ theater[u] = NewConnection
    /\ client' = [client EXCEPT ![u] = "online"]
    /\ UNCHANGED <<rooms, theater, transport>>

OwnEndpoints(u) == {a \in Addrs : Bound(a) /\ UserOf(a) = u}

\* Mutant of Affected: only the rooms the player is bound to.
AffectedBound(u) == {g \in Gids : \E a \in OwnEndpoints(u) : RoomOf(a) = g}

Affected(u) ==
    {g \in Gids :
        \/ \E a \in OwnEndpoints(u) : RoomOf(a) = g
        \/ Live(g) /\ (u \in rooms[g].members \/ u = rooms[g].owner)}

\* force_disconnect_user, after the policy has closed the Theater gate.
ForceDisconnect(u) ==
    /\ client[u] # "forced"
    /\ client' = [client EXCEPT ![u] = "forced"]
    /\ theater' = [theater EXCEPT ![u].invite = Unset]
    /\ LET own == OwnEndpoints(u)
           affected == Affected(u)
           retired == {g \in affected :
                            ~Live(g) \/ u = rooms[g].owner \/ rooms[g].members = {u}}
           swept == own \union {a \in Addrs : Bound(a) /\ RoomOf(a) \in retired}
           opened == Reopened(swept)
           alone == {g \in affected :
                        \E a \in own : Endpoints(g) = {a} /\ wire[a].exit # "none"}
       IN /\ DropEndpoints(swept, own)
          /\ Forget(retired \union alone)
          /\ rooms' = [g \in Gids |->
                        IF g \notin affected THEN opened[g]
                        ELSE IF g \in retired /\ Live(g) THEN Retired(opened[g])
                        ELSE LeftRoom(opened[g], u)]

Next ==
    \/ \E u \in Users, g \in Gids, kind \in Kinds, c \in MinCapacity .. MaxCapacity :
            Create(u, g, kind, c)
    \/ \E u \in Users, g \in Gids :
            PreviewInvite(u, g) \/ EnterGame(u, g) \/ BeginLeave(u, g) \/ ExpireJoin(g, u)
    \/ \E u \in Users :
            \/ Disconnected(u) \/ FinishLeave(u)
            \/ Crash(u) \/ Return(u) \/ ForceDisconnect(u)
    \/ \E a \in Addrs, g \in Gids, u \in Users : Bind(a, g, u)
    \/ \E a \in Addrs :
            \/ HangUp(a) \/ Redial(a) \/ PublishLeaves(a) \/ Drain(a)
            \/ ExpireUnconfirmed(a) \/ ExpireOffline(a)
    \/ \E g \in Gids :
            \/ ExpireAllocation(g) \/ ExpireRace(g)
            \/ BeginCountdown(g) \/ StartLoading(g) \/ StartRacing(g) \/ FinishRace(g)
            \/ LockAccess(g) \/ ReadyControl(g) \/ ReadySeed(g) \/ NativeBundle(g)
            \/ ReopenRoom(g)
    \/ \E g \in Gids, c \in MinCapacity .. MaxCapacity : SetCapacity(g, c)

Spec == Init /\ [][Next]_vars

(***************************************************************************)
(* The listener polls as long as the process runs, and every time-out of   *)
(* the poll falls due; the clients are not obliged to do anything.         *)
(***************************************************************************)
Fairness ==
    /\ \A a \in Addrs : WF_vars(PublishLeaves(a)) /\ WF_vars(Drain(a)) /\ WF_vars(ExpireOffline(a))
    /\ \A g \in Gids, u \in Users : WF_vars(ExpireJoin(g, u))

FairSpec == Spec /\ Fairness

(***************************************************************************)
(* Properties.                                                             *)
(***************************************************************************)

\* Every variable has its type.
TypeOK ==
    /\ rooms \in [Gids -> Room]
    /\ theater \in [Users -> Connection]
    /\ client \in [Users -> {"online", "gone", "forced"}]
    /\ binding \in [Addrs -> Keys \union {Unset}]
    /\ index \in [Keys -> Addrs \union {Unset}]
    /\ wire \in [Addrs -> Wire]
    /\ race \in [Gids -> Race]
    /\ reconnect \subseteq Keys

\* The neutral session of a room seats exactly its participants, and none once
\* the room is retired: no path forgets one of the two lists.
SeatsMirrorMembers ==
    \A g \in Gids : rooms[g].seats = rooms[g].members

\* No way in fills a room past its capacity, whatever is resized meanwhile; the
\* host of a client's room, who may always come back, is not counted.
CapacityHolds ==
    \A g \in Gids : Live(g) =>
        LET counted == IF rooms[g].kind = "client"
                       THEN rooms[g].members \ {rooms[g].owner}
                       ELSE rooms[g].members
        IN Cardinality(counted) <= rooms[g].capacity

\* _bindings and _participant_endpoints are inverse: one player of a room never
\* has two endpoints, and no key names an endpoint that is gone or reused.
IndexMatchesBindings ==
    \A a \in Addrs, k \in Keys : index[k] = a <=> binding[a] = k

\* A room has race state exactly as long as it has endpoints.
RaceFollowsEndpoints ==
    \A g \in Gids : race[g].phase = "none" <=> Endpoints(g) = {}

\* A player is in two rooms only as long as one of them is its own CGAM room.
OneEnteredRoom ==
    \A u \in Users, g, h \in Gids :
        g # h /\ Member(g, u) /\ Member(h, u) =>
            \E own \in {g, h} : rooms[own].kind = "client" /\ rooms[own].owner = u

\* PlayNow never lists a room whose GameManager has locked its access, but for
\* the Challenge rooms that may be joined after Ready.
LockedRoomsAreUnlisted ==
    \A g \in Gids : Live(g) /\ race[g].access = "locked" =>
        \/ rooms[g].locked
        \/ rooms[g].kind = "challenge" /\ rooms[g].ready /\ AfterReady

\* A player the account policy has put out is in no room and has no endpoint,
\* whatever its game goes on sending, until it logs in again.
ForcedStayOut ==
    \A u \in Users : client[u] = "forced" =>
        /\ \A g \in Gids : ~Member(g, u)
        /\ \A a \in Addrs : Bound(a) => UserOf(a) # u

\* An endpoint that is to hear of the coordinator's exit is let go.
HostExitDrains ==
    \A a \in Addrs : wire[a].exit # "none" ~> wire[a].exit = "none"

\* A player who vanished leaves its rooms, bound or not.
GoneMembersLeave ==
    \A u \in Users, g \in Gids :
        client[u] = "gone" /\ Member(g, u) ~> client[u] # "gone" \/ ~Member(g, u)

\* The join time-out is for members who never reached the transport.
JoinTimeoutSparesReconnects ==
    [][\A g \in Gids, u \in Users : ExpireJoin(g, u) => <<g, u>> \notin reconnect]_vars
=============================================================================
