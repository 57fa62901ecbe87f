------------------------------ MODULE RaceRelay ------------------------------
(***************************************************************************)
(* The classic race relay, src/server/classic/protocols/race.py: one relay *)
(* token, the game it is registered for, and the packets its players send  *)
(* through the shared port.  Most Wanted packets name only the destination *)
(* and the relay infers the sender from the source address and the room;   *)
(* Underground 2 packets (U2I1) name the sender too.                       *)
(*                                                                         *)
(* A client opens a socket toward each peer in every generation of its     *)
(* transport; the socket stands for its token in the CommUDP handshake.    *)
(* Lobby and clients are external: how games are created, joined, left,    *)
(* started and recreated after a race follows lobby/lifecycle.py and       *)
(* lobby/game_commands.py.  Listener channels per player, wire aliases and *)
(* the public route are not modelled.                                      *)
(***************************************************************************)
EXTENDS Integers, Sequences, FiniteSets, SequencesExt, Functions

CONSTANTS
    None,       \* no value
    Owner,      \* the owner of the game
    Guests,     \* the players who may join it
    Ip,         \* the address of each player
    MaxGen,     \* bound: generations of a client's sockets
    MaxWaiting, \* bound: packets waiting for one recipient
    MaxStrays   \* bound: packets sent from sockets given up, or by players who left

Users == Guests \union {Owner}

\* Assumed where the module is instantiated.
UsersAssumption == Owner \notin Guests /\ DOMAIN Ip = Users

VARIABLES
    game,       \* the game the token stands for: its family, state, players in order, and
                \* the players of its last race who are not back
    gen,        \* the generation of each client's sockets
    relay,      \* what the relay keeps of the token
    out,        \* the packets delivered by the last step
    past        \* what happened to the room: packets guessed, strays, spokes assumed,
                \* guests lost while others were not back from a race

vars == <<game, gen, relay, out, past>>

Socket(u, v) == [user |-> u, gen |-> gen[u], peer |-> v]
Commands == {"1", "5", "2", "data"}
Edges == Users \X Users

At(f, x) == IF x \in DOMAIN f THEN f[x] ELSE None
Only(f, S) == Restrict(f, DOMAIN f \intersect S)
Without(f, S) == Restrict(f, DOMAIN f \ S)
With(f, x, v) == [y \in DOMAIN f \union {x} |-> IF y = x THEN v ELSE f[y]]
WithDefaults(f, g) == [y \in DOMAIN f \union DOMAIN g |-> IF y \in DOMAIN f THEN f[y] ELSE g[y]]

NoRelay ==
    [order |-> <<>>, virtual |-> {}, endpoint |-> <<>>, identity |-> <<>>,
     edge |-> <<>>, waiting |-> <<>>, edgeWaiting |-> <<>>,
     guestToken |-> <<>>, ownerToken |-> <<>>, hinted |-> {},
     candidates |-> {}, queue |-> <<>>, hints |-> <<>>]

NoGame == [mw |-> TRUE, state |-> "none", members |-> <<>>, away |-> {}]
NoPast == [guessed |-> FALSE, strays |-> 0, assumed |-> FALSE, early |-> FALSE]

Init ==
    /\ game = NoGame
    /\ gen = [u \in Users |-> 0]
    /\ relay = NoRelay
    /\ out = {}
    /\ past = NoPast

Members == ToSet(game.members)
GuestsOf(r) == ToSet(r.order) \ {Owner}

---------------------------------------------------------------------------
(* Purging, registering and handing over. *)

\* Forget the sockets, edges, waiting packets and tokens of some players; keep is a
\* socket that stays bound.
Purged(r, gone, keep) ==
    LET among(e) == e[1] \in gone \/ e[2] \in gone
        others(q) == SelectSeq(q, LAMBDA p : p.from \notin gone)
        left == [t \in DOMAIN r.waiting \ gone |-> others(r.waiting[t])]
    IN  [r EXCEPT
            !.endpoint = Without(@, {u \in gone \intersect DOMAIN @ : @[u] # keep}),
            !.identity = Without(@, {s \in DOMAIN @ : @[s] \in gone /\ s # keep}),
            !.waiting = Without(left, {t \in DOMAIN left : left[t] = <<>>}),
            !.edge = Without(@, {e \in Edges : among(e)}),
            !.edgeWaiting = Without(@, {e \in Edges : among(e)}),
            !.guestToken = Without(@, gone),
            !.ownerToken = Without(@, gone),
            !.hinted = @ \ gone]

\* Their virtual addresses go too.
Retired(r, gone) == [Purged(r, gone, None) EXCEPT !.virtual = @ \ gone]

HandoffOver(r, members) ==
    [Retired(r, ToSet(r.order) \ ToSet(members)) EXCEPT
        !.order = members, !.candidates = {}, !.queue = <<>>, !.hints = <<>>]

\* Old guests who are not in the race that starts.
AbsentDropped(r, absent) ==
    [Retired(r, absent) EXCEPT
        !.candidates = @ \ absent,
        !.queue = SelectSeq(@, LAMBDA u : u \notin absent),
        !.hints = Without(@, absent),
        !.order = SelectSeq(@, LAMBDA u : u \notin absent)]

\* During a handoff the old players stay in the transport, and guests who are back
\* queue in the order of their joins.
HandoffRegistered(r, members) ==
    LET here == ToSet(members)
        queued == SelectSeq(r.queue, LAMBDA u : u \in r.candidates \intersect here)
        known == SelectSeq(r.order, LAMBDA u : u \in here \union r.candidates \union {Owner})
    IN  [r EXCEPT
            !.queue = queued \o SelectSeq(members, LAMBDA u :
                                  u \in r.candidates /\ u \notin ToSet(queued)),
            !.order = known \o SelectSeq(members, LAMBDA u : u \notin ToSet(known))]

Registered(r, g) ==
    LET here == ToSet(g.members)
        departed == (ToSet(r.order) \union r.virtual) \ here
        present == IF r.candidates = {} THEN Retired(r, departed)
                   ELSE IF g.state = "open" THEN r
                   ELSE AbsentDropped(r, r.candidates \ here)
        listed == [present EXCEPT !.virtual = @ \union here]
    IN  IF listed.candidates # {} THEN HandoffRegistered(listed, g.members)
        ELSE IF r.candidates # {} THEN HandoffOver(listed, g.members)
        ELSE [listed EXCEPT !.order = g.members]

\* Most Wanted spokes already there are kept once a third player comes.
SpokesKept(r) ==
    LET bound == {u \in GuestsOf(r) : u \in DOMAIN r.endpoint}
        spokes == {e \in Edges : \E g \in bound : e \in {<<Owner, g>>, <<g, Owner>>}}
    IN  IF Owner \in DOMAIN r.endpoint /\ Len(r.order) > 2
        THEN [r EXCEPT !.edge = WithDefaults(@, [e \in spokes |-> r.endpoint[e[1]]])]
        ELSE r

RegisterGame(r, g) == IF g.mw THEN SpokesKept(Registered(r, g)) ELSE Registered(r, g)

\* The room recreated after a race takes the transport over: queued packets are lost,
\* sockets and edges stay until their guests are back.
HandedOff(r) ==
    LET guests == GuestsOf(r)
    IN  [r EXCEPT !.waiting = <<>>, !.edgeWaiting = <<>>,
                  !.candidates = guests, !.queue = <<>>,
                  !.hints = Only(r.endpoint, guests)]

Unregistered(r) ==
    LET all == ToSet(r.order) \union r.virtual \union r.candidates
        mine(s) == \E u \in all : At(r.endpoint, u) = s /\ r.identity[s] = u
    IN  [NoRelay EXCEPT
            !.endpoint = Without(r.endpoint, all),
            !.identity = Without(r.identity, {s \in DOMAIN r.identity : mine(s)}),
            !.guestToken = Without(r.guestToken, all),
            !.ownerToken = Without(r.ownerToken, all)]

---------------------------------------------------------------------------
(* Who sent a packet. *)

\* A plausible bug: any awaited guest is taken for the sender.
Claimed_Awaited(r, s, cmd) ==
    IF r.candidates = {} \/ cmd # "1" THEN None ELSE CHOOSE u \in r.candidates : TRUE

\* The guest who is back and opened a socket: by its old socket, then by its address,
\* then by the order of the joins.
Claimed(r, s, cmd) ==
    LET exact == {u \in ToSet(r.queue) : At(r.hints, u) = s}
        near == {u \in ToSet(r.queue) : u \in DOMAIN r.hints /\ Ip[r.hints[u].user] = Ip[s.user]}
        only(S) == CHOOSE u \in S : TRUE
    IN  IF r.queue = <<>> \/ cmd # "1" THEN None
        ELSE IF Cardinality(exact) = 1 THEN only(exact)
        ELSE IF Cardinality(near) = 1 THEN only(near)
        ELSE Head(r.queue)

Unbound(r) == SelectSeq(r.order, LAMBDA u : u # Owner /\ u \notin DOMAIN r.endpoint)

\* A room of two: whoever writes to one of them is the other, but after a race only a
\* known guest, or one who is back, may speak.
SenderOfTwo(r, s, to, cmd) ==
    LET known == At(r.identity, s)
    IN  IF to = Owner /\ r.candidates # {}
        THEN IF known \in GuestsOf(r) THEN known ELSE Claimed(r, s, cmd)
        ELSE IF Len(r.order) = 2 THEN CHOOSE u \in ToSet(r.order) : u # to
        ELSE None

\* A larger room is a star around its owner; an unknown socket is claimed for a guest
\* who is back, for the only guest without one, or by a command 1 for the newest.
SenderInStar(r, s, to, cmd) ==
    LET known == At(r.identity, s)
        claimed == Claimed(r, s, cmd)
        unbound == Unbound(r)
    IN  IF to # Owner
        THEN IF known \in GuestsOf(r) THEN None ELSE Owner
        ELSE IF known \in ToSet(r.order)
        THEN IF known = Owner THEN None ELSE known
        ELSE IF claimed # None THEN claimed
        ELSE IF Len(unbound) = 1 THEN unbound[1]
        ELSE IF unbound # <<>> /\ cmd = "1" THEN Last(unbound)
        ELSE None

\* An Underground 2 packet names its sender; a command 1 a guest addresses to itself
\* is meant for the owner.
MeantFor(u, to, cmd) == IF u = to /\ cmd = "1" /\ u # Owner THEN Owner ELSE to

SenderNamed(r, u, to) ==
    IF u \in ToSet(r.order) /\ u \in r.virtual /\ u # to THEN u ELSE None

Sender(r, mw, s, to, cmd) ==
    IF to \notin r.virtual \/ to \notin ToSet(r.order) THEN None
    ELSE IF ~mw THEN SenderNamed(r, s.user, to)
    ELSE IF Len(r.order) <= 2 THEN SenderOfTwo(r, s, to, cmd)
    ELSE SenderInStar(r, s, to, cmd)

---------------------------------------------------------------------------
(* Handling a packet. *)

\* A guest who is back and sent command 1 changes its side of the spoke; the owner's
\* side stays.
GuestConfirmed(r, members, u, s, cmd) ==
    LET spoke == Only(r.edge, {<<Owner, u>>})
        clean == Purged(r, {u}, s)
        kept == [clean EXCEPT
                    !.edge = WithDefaults(@, spoke),
                    !.candidates = @ \ {u},
                    !.queue = SelectSeq(@, LAMBDA v : v # u),
                    !.hints = Without(@, {u})]
    IN  IF u \notin r.candidates \/ u \notin ToSet(r.queue) \/ cmd # "1" THEN r
        ELSE IF kept.candidates = {} THEN HandoffOver(kept, members)
        ELSE kept

Bound(r, u, s) ==
    LET old == At(r.endpoint, u)
        stale == {x \in {old} : x # s /\ At(r.identity, x) = u}
    IN  [r EXCEPT !.identity = With(Without(@, stale), s, u),
                  !.endpoint = With(@, u, s)]

Directed(r) == Len(r.order) > 2

TokensLearned(r, u, to, p) ==
    [r EXCEPT
        !.guestToken = IF p.cmd = "1" /\ u # Owner THEN With(@, u, p.token) ELSE @,
        !.ownerToken = IF p.cmd = "5" /\ u = Owner THEN With(@, to, p.token) ELSE @]

\* The token the recipient expects in a control packet.
Demangled(r, mw, from, to, p) ==
    LET expected == IF ~mw THEN None
                    ELSE IF to = Owner /\ p.cmd = "1" THEN At(r.ownerToken, from)
                    ELSE IF to # Owner /\ p.cmd \in {"2", "5"} THEN At(r.guestToken, to)
                    ELSE None
    IN  IF expected = None THEN p.token ELSE expected

Delivery(r, mw, from, to, p, s) ==
    [from |-> from, to |-> to, cmd |-> p.cmd, socket |-> s, token |-> Demangled(r, mw, from, to, p)]

\* To the socket the recipient opened toward the sender in a larger room, to its last
\* socket in a room of two.
Target(r, u, to) == IF Directed(r) THEN At(r.edge, <<to, u>>) ELSE At(r.endpoint, to)

Relayed(r, u, to, p) ==
    IF Target(r, u, to) # None THEN r
    ELSE IF Directed(r)
    THEN [r EXCEPT !.edgeWaiting = With(@, <<to, u>>,
              (IF <<to, u>> \in DOMAIN @ THEN @[<<to, u>>] ELSE <<>>) \o <<p>>)]
    ELSE [r EXCEPT !.waiting = With(@, to, (IF to \in DOMAIN @ THEN @[to] ELSE <<>>) \o <<p>>)]

\* What waited for the socket the packet came from.
Flushable(r, u, to) ==
    IF Directed(r)
    THEN IF <<u, to>> \in DOMAIN r.edgeWaiting THEN ToSet(r.edgeWaiting[<<u, to>>]) ELSE {}
    ELSE IF u \in DOMAIN r.waiting THEN ToSet(r.waiting[u]) ELSE {}

Flushed(r, u, to) ==
    IF Directed(r) THEN [r EXCEPT !.edgeWaiting = Without(@, {<<u, to>>})]
    ELSE [r EXCEPT !.waiting = Without(@, {u})]

Routed(r, u, to, s) == IF Directed(r) THEN [r EXCEPT !.edge = With(@, <<u, to>>, s)] ELSE r

Learned(r, u, to, p) ==
    IF game.mw THEN TokensLearned(r, u, to, p) ELSE [r EXCEPT !.hinted = @ \union {u}]

\* The packet goes out or waits, and so does what waited for its sender's socket.
Forward(r, u, to, p) ==
    LET goal == Target(r, u, to)
        now == IF goal = None THEN {} ELSE {Delivery(r, game.mw, u, to, p, goal)}
        waited == Flushable(Relayed(r, u, to, p), u, to)
    IN  /\ relay' = Flushed(Relayed(r, u, to, p), u, to)
        /\ out' = now \union {Delivery(r, game.mw, q.from, u, q, p.token) : q \in waited}

HandlePacket(u, s, to, cmd) ==
    LET p == [from |-> u, cmd |-> cmd, token |-> s]
        bound == Bound(GuestConfirmed(relay, game.members, u, s, cmd), u, s)
    IN  Forward(Learned(Routed(bound, u, to, s), u, to, p), u, to, p)

\* A player of the room, or one who is not back from the race yet.
Playing(u) == u \in Members \union game.away

\* Guests who may be behind a socket the relay does not know: it guesses when there is
\* more than one.
Suspects == {u \in Guests : Playing(u) /\ At(relay.identity, Socket(u, Owner)) # u}
Guess(s, to) ==
    /\ game.mw /\ to = Owner
    /\ At(relay.identity, s) \notin ToSet(relay.order)
    /\ Cardinality(Suspects) > 1

Packet(s, to, cmd) ==
    LET meant == IF game.mw THEN to ELSE MeantFor(s.user, to, cmd)
        u == Sender(relay, game.mw, s, meant, cmd)
    IN  /\ u # None
        /\ \A x \in DOMAIN relay.waiting : Len(relay.waiting[x]) < MaxWaiting
        /\ \A e \in DOMAIN relay.edgeWaiting : Len(relay.edgeWaiting[e]) < MaxWaiting
        /\ HandlePacket(u, s, meant, cmd)

---------------------------------------------------------------------------
(* Steps. *)

\* A player writes to a peer from the socket it has open toward that peer.
SendPacket(u, v, to, cmd) ==
    /\ IF game.mw
       THEN to = v /\ Owner \in {u, v} /\ (cmd = "1" => u # Owner) /\ (cmd \in {"2", "5"} => u = Owner)
       ELSE cmd # "2" /\ (to = u => cmd = "1" /\ v = Owner)
    /\ Playing(u)
    /\ Packet(Socket(u, v), to, cmd)
    /\ past' = [past EXCEPT !.guessed = @ \/ Guess(Socket(u, v), to)]
    /\ UNCHANGED <<game, gen>>

\* A late packet of a player who left, or from a socket given up for a new one.
StrayPacket(u, g, to, cmd) ==
    /\ past.strays < MaxStrays
    /\ Owner \in {u, to} /\ (cmd = "1" => u # Owner)
    /\ g < gen[u] \/ ~Playing(u)
    /\ Packet([user |-> u, gen |-> g, peer |-> to], to, cmd)
    /\ past' = [past EXCEPT !.strays = @ + 1]
    /\ UNCHANGED <<game, gen>>

\* Registration took the owner's socket toward another guest for a spoke.
Assuming ==
    [past EXCEPT !.assumed =
        @ \/ \E e \in DOMAIN relay'.edge \ DOMAIN relay.edge : relay'.edge[e].peer # e[2]]

Opens(u) == gen[u] < MaxGen /\ gen' = [gen EXCEPT ![u] = @ + 1]

CreateGame(mw) ==
    /\ game.state = "none"
    /\ Opens(Owner)
    /\ game' = [mw |-> mw, state |-> "open", members |-> <<Owner>>, away |-> {}]
    /\ UNCHANGED <<relay, past>> /\ out' = {}

\* A Most Wanted room is registered with every guest who joins.
JoinGame(g) ==
    LET joined == [game EXCEPT !.members = Append(@, g), !.away = @ \ {g}]
    IN  /\ game.state = "open" /\ g \notin Members
        /\ Opens(g)
        /\ game' = joined
        /\ relay' = IF game.mw THEN RegisterGame(relay, joined) ELSE relay
        /\ past' = Assuming /\ out' = {}

LeaveGame(g) ==
    LET rest == [game EXCEPT !.members = SelectSeq(@, LAMBDA u : u # g)]
    IN  /\ g \in Members
        /\ game' = rest
        /\ relay' = IF game.mw \/ game.state = "active" THEN RegisterGame(relay, rest)
                    ELSE Unregistered(relay)
        /\ past' = [Assuming EXCEPT !.early = @ \/ relay.candidates # {}]
        /\ UNCHANGED gen /\ out' = {}

StartRace ==
    LET started == [game EXCEPT !.state = "active", !.away = {}]
    IN  /\ game.state = "open" /\ Len(game.members) > 1
        /\ game' = started
        /\ relay' = RegisterGame(relay, started)
        /\ past' = Assuming
        /\ UNCHANGED gen /\ out' = {}

\* The fields of a Most Wanted game are shown, which registers it again.
ShowGame ==
    /\ game.mw /\ game.state # "none" /\ Len(game.members) > 1
    /\ relay' = RegisterGame(relay, game)
    /\ relay' # relay
    /\ past' = Assuming
    /\ UNCHANGED <<game, gen>> /\ out' = {}

\* The owner of a Most Wanted race is back first and creates the next room.
RecreateGame ==
    /\ game.mw /\ game.state = "active"
    /\ game' = [game EXCEPT !.state = "open", !.members = <<Owner>>,
                            !.away = Members \ {Owner}]
    /\ relay' = HandedOff(relay)
    /\ UNCHANGED <<gen, past>> /\ out' = {}

CloseGame ==
    /\ game.state # "none"
    /\ game' = NoGame
    /\ relay' = Unregistered(relay)
    /\ past' = [NoPast EXCEPT !.strays = past.strays]
    /\ UNCHANGED gen /\ out' = {}

Next ==
    \/ \E u \in Users : \E v \in Users \ {u} :
          \/ \E to \in {u, v}, cmd \in Commands : SendPacket(u, v, to, cmd)
          \/ \E g \in 1..gen[u], cmd \in {"1", "data"} : StrayPacket(u, g, v, cmd)
    \/ \E mw \in BOOLEAN : CreateGame(mw)
    \/ \E g \in Guests : JoinGame(g) \/ LeaveGame(g)
    \/ StartRace
    \/ ShowGame
    \/ RecreateGame
    \/ CloseGame

Spec == Init /\ [][Next]_vars

---------------------------------------------------------------------------
(* Properties. *)

TypeOK ==
    /\ gen \in [Users -> 0..MaxGen]
    /\ game.state \in {"none", "open", "active"}
    /\ Members \subseteq Users
    /\ relay.virtual \subseteq Users
    /\ DOMAIN relay.edge \subseteq Edges
    /\ relay.candidates \subseteq Guests
    /\ ToSet(relay.queue) \subseteq relay.candidates
    /\ IsInjective(relay.order) /\ IsInjective(relay.queue)

\* The socket of a guest who departed does not survive the change of membership, nor
\* does anything else the relay knows of it (the comment race.py:151-155).
NothingOfTheDeparted ==
    LET here == ToSet(relay.order)
    IN  /\ DOMAIN relay.endpoint \union Range(relay.identity) \union relay.virtual
             \union DOMAIN relay.guestToken \union DOMAIN relay.ownerToken
             \union DOMAIN relay.waiting \union relay.hinted \subseteq here
        /\ DOMAIN relay.edge \union DOMAIN relay.edgeWaiting \subseteq here \X here
        /\ \A t \in DOMAIN relay.waiting : \A p \in ToSet(relay.waiting[t]) : p.from \in here

\* A player who left and did not come back is nowhere in the relay, unless it left
\* while others were still awaited from a race: no socket, edge, waiting packet, token
\* or virtual address of it can be met by the player who comes next; and a closed game
\* leaves nothing at all (register_game, unregister_game, _purge_identity_transport).
NothingStaysBehind ==
    /\ ~past.early =>
          /\ NothingOfTheDeparted
          /\ relay.candidates = {} /\ relay.order # <<>> => ToSet(relay.order) = Members
    /\ game.state = "none" => relay = NoRelay

\* A socket is taken for a player only while it is that player's last one: no older
\* socket speaks for it (_bind, _purge_identity_transport).
OneSocketSpeaks == \A s \in DOMAIN relay.identity : At(relay.endpoint, relay.identity[s]) = s

\* Nothing confused the relay: it never had to guess, met no stray packet, and lost no
\* guest in the middle of a handoff.
Certain == ~past.guessed /\ past.strays = 0 /\ ~past.early

\* A packet reaches its addressee, and in a room of three or more the very socket the
\* addressee opened toward the sender, although senders are inferred and sockets
\* change after a race: as long as registration did not take another spoke for it
\* (_shared_mw_route, _bind_directed_routes, _relay_current_payload).
DeliveredToTheirSocket ==
    Certain => \A d \in out :
        /\ d.socket.user = d.to
        /\ ~past.assumed /\ Len(relay.order) > 2 => d.socket.peer = d.from

\* A control packet carries the token its recipient gave that spoke: a guest finds its
\* own token, the owner the token of its record for that guest, and never one of a
\* player who held the slot before (_demangle_mw_control_payload).
ControlTokensFit ==
    Certain /\ game.mw => \A d \in out :
        /\ d.to # Owner /\ d.cmd \in {"2", "5"} =>
              d.token.user = Owner \/ d.token = d.socket
        /\ d.to = Owner /\ d.cmd = "1" =>
              d.token.user = d.from \/ d.token = [user |-> Owner, gen |-> gen[Owner], peer |-> d.from]

\* While a guest is not back from the race its socket and its spoke to the owner stay
\* as they were: nobody who joins meanwhile takes them (handoff_game,
\* _claim_mw_handoff_guest).
RoutesStay ==
    \A u \in relay.candidates \intersect relay'.candidates :
       Certain' /\ relay.virtual \subseteq relay'.virtual
       => /\ u \in DOMAIN relay.endpoint => At(relay'.endpoint, u).user = u
          /\ <<u, Owner>> \in DOMAIN relay.edge => At(relay'.edge, <<u, Owner>>).user = u

\* Every step keeps the routes that are in use.
OldRoutesStay == [][RoutesStay]_vars
=============================================================================
