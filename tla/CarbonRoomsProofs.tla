------------------------- MODULE CarbonRoomsProofs -------------------------
(***************************************************************************)
(* Theorems of CarbonRooms, for any number of players, rooms and addresses *)
(* and any capacity.                                                       *)
(***************************************************************************)
EXTENDS CarbonRooms, FiniteSetTheorems, TLAPS

(***************************************************************************)
(* What becomes of one room.                                               *)
(***************************************************************************)

\* A retired room is a room, empty and with its owner.
LEMMA RetiredRoom ==
    ASSUME NEW r \in Room
    PROVE  /\ Retired(r) \in Room
           /\ Retired(r).status = "retired"
           /\ Retired(r).members = {} /\ Retired(r).seats = {}
           /\ Retired(r).owner = r.owner
  <1>1. r.kind \in {"client", "dedicated", "challenge"} /\ r.owner \in Users \union {Unset}
    BY DEF Room
  <1> QED BY <1>1, ConstantsAssumption DEF Retired, Room

\* leave keeps the two lists of a room alike and the player out of a live room.
LEMMA LeftRoomIsRoom ==
    ASSUME NEW r \in Room, NEW u \in Users
    PROVE  /\ LeftRoom(r, u) \in Room
           /\ r.seats = r.members => LeftRoom(r, u).seats = LeftRoom(r, u).members
           /\ LeftRoom(r, u).members \subseteq r.members
           /\ LeftRoom(r, u).status = "live" =>
                /\ r.status = "live" /\ u \notin LeftRoom(r, u).members
                /\ LeftRoom(r, u).locked = r.locked /\ LeftRoom(r, u).ready = r.ready
           /\ LeftRoom(r, u).kind = r.kind /\ LeftRoom(r, u).owner = r.owner
           /\ LeftRoom(r, u).status = "unused" => r.status = "unused"
  <1>1. CASE r.status # "live" \/ u \notin r.members
    BY <1>1 DEF LeftRoom
  <1>2. CASE ~(r.status # "live" \/ u \notin r.members) /\ (u = r.owner \/ r.members = {u})
    BY <1>2, RetiredRoom, ConstantsAssumption DEF LeftRoom, Retired, Room
  <1>3. CASE ~(r.status # "live" \/ u \notin r.members) /\ ~(u = r.owner \/ r.members = {u})
    <2>1. LeftRoom(r, u) =
                [status |-> r.status, kind |-> r.kind, owner |-> r.owner,
                 members |-> r.members \ {u}, seats |-> r.seats \ {u},
                 capacity |-> r.capacity, locked |-> r.locked, ready |-> r.ready]
      BY <1>3 DEF LeftRoom, Room
    <2> QED BY <1>3, <2>1 DEF Room
  <1> QED BY <1>1, <1>2, <1>3

\* enter keeps the two lists of every room it moves the player out of alike.
LEMMA MovedOutIsRoom ==
    ASSUME NEW r \in Room, NEW u \in Users
    PROVE  /\ MovedOut(r, u) \in Room
           /\ r.seats = r.members => MovedOut(r, u).seats = MovedOut(r, u).members
           /\ MovedOut(r, u).members \subseteq r.members
           /\ MovedOut(r, u).status = "live" =>
                /\ r.status = "live"
                /\ MovedOut(r, u).locked = r.locked /\ MovedOut(r, u).ready = r.ready
           /\ MovedOut(r, u).kind = r.kind /\ MovedOut(r, u).owner = r.owner
           /\ MovedOut(r, u).status = "unused" => r.status = "unused"
  <1>1. CASE r.status # "live" \/ u \notin r.members
    BY <1>1 DEF MovedOut
  <1>2. CASE ~(r.status # "live" \/ u \notin r.members) /\ r.members = {u}
    BY <1>2, RetiredRoom, ConstantsAssumption DEF MovedOut, Retired, Room
  <1>3. CASE ~(r.status # "live" \/ u \notin r.members) /\ r.members # {u}
    <2>1. MovedOut(r, u) =
                [status |-> r.status, kind |-> r.kind, owner |-> r.owner,
                 members |-> r.members \ {u}, seats |-> r.seats \ {u},
                 capacity |-> r.capacity, locked |-> r.locked, ready |-> r.ready]
      BY <1>3 DEF MovedOut, Room
    <2> QED BY <1>3, <2>1 DEF Room
  <1> QED BY <1>1, <1>2, <1>3

\* A seat is taken in both lists.
LEMMA SeatedRoom ==
    ASSUME NEW r \in Room, NEW u \in Users
    PROVE  /\ Seated(r, u) \in Room
           /\ r.seats = r.members => Seated(r, u).seats = Seated(r, u).members
           /\ Seated(r, u).members = r.members \union {u}
           /\ Seated(r, u).status = r.status
           /\ Seated(r, u).kind = r.kind /\ Seated(r, u).owner = r.owner
           /\ Seated(r, u).locked = r.locked /\ Seated(r, u).ready = r.ready
  BY DEF Seated, Room

\* The gate of PlayNow is all that set_challenge_ready changes.
LEMMA ReadiedRoom ==
    ASSUME NEW r \in Room, NEW b \in BOOLEAN
    PROVE  /\ Readied(r, b) \in Room
           /\ Readied(r, b).seats = r.seats /\ Readied(r, b).members = r.members
           /\ Readied(r, b).status = r.status
           /\ Readied(r, b).kind = r.kind /\ Readied(r, b).owner = r.owner
  BY ConstantsAssumption DEF Readied, Room

\* lock_room_access changes the gate and nothing else.
LEMMA LockedGateRoom ==
    ASSUME NEW r \in Room
    PROVE  /\ LockedGate(r) \in Room
           /\ LockedGate(r).seats = r.seats /\ LockedGate(r).members = r.members
           /\ LockedGate(r).status = r.status
           /\ LockedGate(r).kind = r.kind /\ LockedGate(r).owner = r.owner
  BY ConstantsAssumption DEF LockedGate, Room

\* A room is unlisted by lock_room_access, or it is a Challenge room to be joined.
LEMMA LockedGateUnlists ==
    ASSUME NEW r \in Room
    PROVE  \/ LockedGate(r).locked
           \/ LockedGate(r).kind = "challenge" /\ LockedGate(r).ready /\ AfterReady
<1> DEFINE P == r.kind = "challenge" /\ r.ready /\ AfterReady
<1>1. LockedGate(r) = [r EXCEPT !.locked = ~P]
  BY DEF LockedGate
<1>2. LockedGate(r).ready = r.ready /\ LockedGate(r).kind = r.kind
  BY DEF LockedGate, Room
<1>3. CASE P
  BY <1>2, <1>3, Zenon
<1>4. CASE ~P
  <2>1. (~P) = TRUE
    BY <1>4
  <2> HIDE DEF P
  <2>2. LockedGate(r).locked = TRUE
    BY <1>1, <2>1 DEF Room
  <2> QED BY <2>2, Zenon
<1> QED BY <1>3, <1>4

\* A Challenge room is unlisted by its Ready, or it is one to be joined after it.
LEMMA ReadyUnlists ==
    ASSUME NEW r \in Room, r.kind = "challenge"
    PROVE  Readied(r, TRUE).locked \/ (Readied(r, TRUE).ready /\ AfterReady)
<1>1. Readied(r, TRUE).ready = TRUE /\ Readied(r, TRUE).locked = ~AfterReady
  BY DEF Readied, Room
<1> QED BY <1>1, Zenon

(***************************************************************************)
(* The inductive invariant.                                                *)
(***************************************************************************)

\* A room without a race has no trace of one: its access is open.
NoRaceIsOpen == \A g \in Gids : race[g].phase = "none" => race[g] = NoRace

\* Endpoints are bound to rooms that were created.
BoundRoomsExist == \A a \in Addrs : Bound(a) => rooms[RoomOf(a)].status # "unused"

IInv ==
    /\ TypeOK
    /\ SeatsMirrorMembers
    /\ IndexMatchesBindings
    /\ RaceFollowsEndpoints
    /\ LockedRoomsAreUnlisted
    /\ ForcedStayOut
    /\ NoRaceIsOpen
    /\ BoundRoomsExist

\* The invariant holds at the start.
LEMMA InitIInv == Init => IInv
<1> SUFFICES ASSUME Init PROVE IInv
  OBVIOUS
<1>1. \A g \in Gids : rooms[g] = NoRoom /\ race[g] = NoRace
  BY DEF Init
<1>2. \A a \in Addrs : ~Bound(a)
  BY DEF Init, Bound
<1>3. NoRoom \in Room /\ NoRace \in Race /\ NewConnection \in Connection /\ NewWire \in Wire
  BY ConstantsAssumption DEF NoRoom, Room, NoRace, Race, Phases, NewConnection, Connection,
     NewWire, Wire
<1>4. TypeOK
  BY <1>3 DEF Init, TypeOK
<1>5. SeatsMirrorMembers /\ LockedRoomsAreUnlisted /\ NoRaceIsOpen
  BY <1>1 DEF SeatsMirrorMembers, LockedRoomsAreUnlisted, NoRaceIsOpen, Live, NoRoom, NoRace
<1>6. IndexMatchesBindings
  BY ConstantsAssumption DEF Init, IndexMatchesBindings
<1>7. RaceFollowsEndpoints /\ BoundRoomsExist
  BY <1>1, <1>2 DEF RaceFollowsEndpoints, BoundRoomsExist, Endpoints, NoRace
<1>8. ForcedStayOut
  BY DEF Init, ForcedStayOut
<1> QED BY <1>4, <1>5, <1>6, <1>7, <1>8 DEF IInv

(***************************************************************************)
(* What drop_endpoint does to the endpoints and their race.                *)
(***************************************************************************)

\* abort_ready_epoch leaves a race that is still one.
LEMMA AbortedRace ==
    ASSUME NEW r \in Race
    PROVE  /\ Aborted(r) \in Race
           /\ r.phase # "none" => Aborted(r).phase # "none"
           /\ Aborted(r).access = "locked" =>
                r.access = "locked" /\ r.phase \notin {"setup", "countdown"}
<1>1. NewRace \in Race /\ NewRace.phase = "setup" /\ NewRace.access = "open"
  BY DEF NewRace, NoRace, Race, Phases
<1>2. CASE r.phase \in {"setup", "countdown"}
  BY <1>1, <1>2 DEF Aborted
<1>3. CASE r.phase \notin {"setup", "countdown"}
  <2>1. Aborted(r) = [r EXCEPT !.epoch = "none"]
    BY <1>3 DEF Aborted
  <2> QED BY <1>3, <2>1 DEF Race
<1> QED BY <1>2, <1>3

\* Dropping endpoints keeps the types of the transport.
LEMMA DropTypes ==
    ASSUME TypeOK, NEW D \in SUBSET Addrs, NEW T \in SUBSET Addrs, DropEndpoints(D, T)
    PROVE  /\ binding' \in [Addrs -> Keys \union {Unset}]
           /\ index' \in [Keys -> Addrs \union {Unset}]
           /\ wire' \in [Addrs -> Wire]
           /\ race' \in [Gids -> Race]
<1>1. binding' \in [Addrs -> Keys \union {Unset}]
  BY DEF DropEndpoints, TypeOK
<1>2. index' \in [Keys -> Addrs \union {Unset}]
  BY DEF DropEndpoints, TypeOK
<1>3. wire' \in [Addrs -> Wire]
  <2>1. NewWire \in Wire
    BY DEF NewWire, Wire
  <2>2. \A b \in Addrs : wire[b] \in Wire
    BY DEF TypeOK
  <2>3. \A b \in Addrs : Told(b, T) \in Wire
    BY <2>2 DEF Told, Announced, Wire
  <2> QED BY <2>1, <2>2, <2>3 DEF DropEndpoints
<1>4. race' \in [Gids -> Race]
  <2>1. \A g \in Gids : RaceWithout(g, D) \in Race
    BY AbortedRace DEF RaceWithout, TypeOK, NoRace, Race, Phases
  <2> QED BY <2>1 DEF DropEndpoints
<1> QED BY <1>1, <1>2, <1>3, <1>4

\* Dropping endpoints takes them out of both maps.
LEMMA DropKeepsIndex ==
    ASSUME TypeOK, IndexMatchesBindings, NEW D \in SUBSET Addrs, NEW T \in SUBSET Addrs,
           DropEndpoints(D, T)
    PROVE  IndexMatchesBindings'
<1> SUFFICES ASSUME NEW a \in Addrs, NEW k \in Keys
             PROVE  index'[k] = a <=> binding'[a] = k
  BY DEF IndexMatchesBindings
<1>1. binding'[a] = IF a \in D THEN Unset ELSE binding[a]
  BY DEF DropEndpoints
<1>2. index'[k] = IF index[k] \in D THEN Unset ELSE index[k]
  BY DEF DropEndpoints
<1>3. index[k] = a <=> binding[a] = k
  BY DEF IndexMatchesBindings
<1> QED BY <1>1, <1>2, <1>3, ConstantsAssumption

\* The race goes with the last endpoint of its room.
LEMMA DropKeepsRace ==
    ASSUME TypeOK, RaceFollowsEndpoints, NoRaceIsOpen,
           NEW D \in SUBSET Addrs, NEW T \in SUBSET Addrs, DropEndpoints(D, T)
    PROVE  RaceFollowsEndpoints' /\ NoRaceIsOpen'
<1> SUFFICES ASSUME NEW g \in Gids
             PROVE  /\ race'[g].phase = "none" <=> Endpoints(g)' = {}
                    /\ race'[g].phase = "none" => race'[g] = NoRace
  BY DEF RaceFollowsEndpoints, NoRaceIsOpen
<1>1. Endpoints(g)' = Endpoints(g) \ D
  BY ConstantsAssumption DEF Endpoints, Bound, RoomOf, DropEndpoints
<1>2. race'[g] = RaceWithout(g, D)
  BY DEF DropEndpoints
<1>3. race[g] \in Race
  BY DEF TypeOK
<1>4. race[g].phase = "none" <=> Endpoints(g) = {}
  BY DEF RaceFollowsEndpoints
<1>5. race[g].phase = "none" => race[g] = NoRace
  BY DEF NoRaceIsOpen
<1>6. NoRace.phase = "none"
  BY DEF NoRace
<1>7. CASE Endpoints(g) \intersect D = {}
  BY <1>1, <1>2, <1>4, <1>5, <1>7 DEF RaceWithout
<1>8. CASE Endpoints(g) \intersect D # {} /\ Endpoints(g) \subseteq D
  BY <1>1, <1>2, <1>6, <1>8 DEF RaceWithout
<1>9. CASE ~(Endpoints(g) \subseteq D) /\ Endpoints(g) \intersect D # {}
  BY <1>1, <1>2, <1>3, <1>4, <1>9, AbortedRace DEF RaceWithout
<1> QED BY <1>7, <1>8, <1>9

(***************************************************************************)
(* Steps that only take players and endpoints out.                         *)
(***************************************************************************)

\* What such a step makes of the room r, whose gate it reopens as in o.
Follows(r, o, s) ==
    /\ s.members \subseteq r.members
    /\ r.seats = r.members => s.seats = s.members
    /\ s.kind = r.kind /\ s.owner = r.owner
    /\ s.status = "unused" => r.status = "unused"
    /\ s.status = "live" => r.status = "live" /\ s.locked = o.locked /\ s.ready = o.ready

AllFollow(D) == \A g \in Gids : Follows(rooms[g], Reopened(D)[g], rooms'[g])

\* The gates that drop_endpoint reopens belong to rooms that follow.
LEMMA ReopenedRoom ==
    ASSUME TypeOK, NEW D \in SUBSET Addrs, NEW g \in Gids
    PROVE  /\ Reopened(D)[g] \in Room
           /\ Reopened(D)[g].seats = rooms[g].seats
           /\ Reopened(D)[g].members = rooms[g].members
           /\ Reopened(D)[g].status = rooms[g].status
           /\ Reopened(D)[g].kind = rooms[g].kind /\ Reopened(D)[g].owner = rooms[g].owner
           /\ Endpoints(g) \intersect D = {} => Reopened(D)[g] = rooms[g]
<1>1. rooms[g] \in Room
  BY DEF TypeOK
<1>2. CASE Live(g) /\ race[g].phase \in {"setup", "countdown"} /\ Endpoints(g) \intersect D # {}
  <2> DEFINE r == Readied(rooms[g], FALSE)
  <2>1. Reopened(D)[g] = r
    BY <1>2 DEF Reopened
  <2>2. /\ r \in Room /\ r.seats = rooms[g].seats /\ r.members = rooms[g].members
        /\ r.status = rooms[g].status /\ r.kind = rooms[g].kind /\ r.owner = rooms[g].owner
    BY <1>1, ReadiedRoom
  <2> HIDE DEF r
  <2> QED BY <1>2, <2>1, <2>2
<1>3. CASE ~(Live(g) /\ race[g].phase \in {"setup", "countdown"} /\ Endpoints(g) \intersect D # {})
  <2>1. Reopened(D)[g] = rooms[g]
    BY <1>3 DEF Reopened
  <2> QED BY <1>1, <2>1
<1> QED BY <1>2, <1>3

\* A step that drops endpoints and takes players out keeps the invariant, but for
\* the types of what it does not touch; nobody comes in with it.
LEMMA SweepKeeps ==
    ASSUME IInv, NEW D \in SUBSET Addrs, NEW T \in SUBSET Addrs,
           DropEndpoints(D, T), AllFollow(D)
    PROVE  /\ SeatsMirrorMembers' /\ IndexMatchesBindings' /\ RaceFollowsEndpoints'
           /\ LockedRoomsAreUnlisted' /\ NoRaceIsOpen' /\ BoundRoomsExist'
           /\ \A g \in Gids, u \in Users : Member(g, u)' => Member(g, u)
           /\ \A a \in Addrs : Bound(a)' => Bound(a) /\ UserOf(a)' = UserOf(a)
<1> USE DEF IInv
<1>1. \A g \in Gids : Follows(rooms[g], Reopened(D)[g], rooms'[g])
  BY DEF AllFollow
<1>2. SeatsMirrorMembers'
  BY <1>1 DEF Follows, SeatsMirrorMembers
<1>3. IndexMatchesBindings'
  BY DropKeepsIndex
<1>4. RaceFollowsEndpoints' /\ NoRaceIsOpen'
  BY DropKeepsRace
<1>5. \A a \in Addrs : Bound(a)' => Bound(a) /\ binding'[a] = binding[a]
  BY DEF Bound, DropEndpoints
<1>6. BoundRoomsExist'
  <2> SUFFICES ASSUME NEW a \in Addrs, Bound(a)'
               PROVE  rooms'[RoomOf(a)'].status # "unused"
    BY DEF BoundRoomsExist
  <2>1. Bound(a) /\ binding'[a] = binding[a] /\ RoomOf(a)' = RoomOf(a)
    BY <1>5 DEF RoomOf
  <2>2. binding[a] \in Keys
    BY <2>1 DEF TypeOK, Bound
  <2>3. RoomOf(a) \in Gids
    BY <2>2 DEF RoomOf, Keys
  <2>4. rooms[RoomOf(a)].status # "unused"
    BY <2>1 DEF BoundRoomsExist
  <2> QED BY <1>1, <2>1, <2>3, <2>4 DEF Follows
<1>7. LockedRoomsAreUnlisted'
  <2> SUFFICES ASSUME NEW g \in Gids, rooms'[g].status = "live", race'[g].access = "locked"
               PROVE  \/ rooms'[g].locked
                      \/ rooms'[g].kind = "challenge" /\ rooms'[g].ready /\ AfterReady
    BY DEF LockedRoomsAreUnlisted, Live
  <2>1. race'[g] = RaceWithout(g, D) /\ race[g] \in Race
    BY DEF DropEndpoints, TypeOK
  <2>2. /\ rooms[g].status = "live"
        /\ rooms'[g].locked = Reopened(D)[g].locked /\ rooms'[g].ready = Reopened(D)[g].ready
        /\ rooms'[g].kind = rooms[g].kind
    BY <1>1 DEF Follows
  <2>3. race[g].access = "locked" /\ Reopened(D)[g] = rooms[g]
    <3>1. CASE Endpoints(g) \intersect D = {}
      BY <2>1, <3>1, ReopenedRoom DEF RaceWithout
    <3>2. CASE Endpoints(g) \intersect D # {}
      <4>1. race'[g] = Aborted(race[g])
        BY <2>1, <3>2 DEF RaceWithout, NoRace
      <4>2. race[g].access = "locked" /\ race[g].phase \notin {"setup", "countdown"}
        BY <2>1, <4>1, AbortedRace
      <4> QED BY <4>2 DEF Reopened
    <3> QED BY <3>1, <3>2
  <2>4. \/ rooms[g].locked
        \/ rooms[g].kind = "challenge" /\ rooms[g].ready /\ AfterReady
    BY <2>2, <2>3 DEF LockedRoomsAreUnlisted, Live
  <2> QED BY <2>2, <2>3, <2>4
<1>8. \A g \in Gids, u \in Users : Member(g, u)' => Member(g, u)
  BY <1>1 DEF Follows, Member, Live
<1>9. \A a \in Addrs : Bound(a)' => Bound(a) /\ UserOf(a)' = UserOf(a)
  BY <1>5 DEF UserOf
<1> QED BY <1>2, <1>3, <1>4, <1>6, <1>7, <1>8, <1>9

\* Players put out stay out when nobody comes in and nobody else is put out.
LEMMA ForcedKept ==
    ASSUME IInv,
           \A u \in Users : client'[u] = "forced" => client[u] = "forced",
           \A g \in Gids, u \in Users : Member(g, u)' => Member(g, u),
           \A a \in Addrs : Bound(a)' => Bound(a) /\ UserOf(a)' = UserOf(a)
    PROVE  ForcedStayOut'
  BY DEF IInv, ForcedStayOut

\* A bound endpoint has a room and a player.
LEMMA BoundTypes ==
    ASSUME TypeOK, NEW a \in Addrs, Bound(a)
    PROVE  binding[a] \in Keys /\ RoomOf(a) \in Gids /\ UserOf(a) \in Users
<1>1. binding[a] \in Keys
  BY DEF TypeOK, Bound
<1> QED BY <1>1 DEF Keys, RoomOf, UserOf

\* Rooms that are reopened, left or retired follow.
LEMMA RoomsFollow ==
    ASSUME TypeOK, NEW D \in SUBSET Addrs, NEW g \in Gids, NEW u \in Users
    PROVE  /\ Follows(rooms[g], Reopened(D)[g], Reopened(D)[g])
           /\ Follows(rooms[g], Reopened(D)[g], LeftRoom(Reopened(D)[g], u))
           /\ LeftRoom(Reopened(D)[g], u) \in Room
           /\ Retired(Reopened(D)[g]) \in Room /\ Retired(rooms[g]) \in Room
           /\ \A o : Follows(rooms[g], o, Retired(Reopened(D)[g]))
           /\ \A o : Follows(rooms[g], o, Retired(rooms[g]))
<1> DEFINE r == rooms[g]
           o == Reopened(D)[g]
<1>1. r \in Room
  BY DEF TypeOK
<1>2. /\ o \in Room /\ o.seats = r.seats /\ o.members = r.members /\ o.status = r.status
      /\ o.kind = r.kind /\ o.owner = r.owner
  BY ReopenedRoom
<1> HIDE DEF r, o
<1>3. Follows(r, o, o)
  BY <1>2 DEF Follows
<1>4. Follows(r, o, LeftRoom(o, u)) /\ LeftRoom(o, u) \in Room
  BY <1>2, LeftRoomIsRoom DEF Follows
<1>5. /\ Retired(o) \in Room /\ Retired(r) \in Room
      /\ \A p : Follows(r, p, Retired(o)) /\ Follows(r, p, Retired(r))
  <2>1. Retired(o).kind = o.kind /\ Retired(r).kind = r.kind
    BY DEF Retired
  <2> QED BY <1>1, <1>2, <2>1, RetiredRoom DEF Follows
<1> QED BY <1>3, <1>4, <1>5 DEF r, o

\* Intents are only forgotten.
LEMMA ForgetTypes ==
    ASSUME TypeOK, NEW D, NEW T, NEW G, ForgetWith(D, T) \/ Forget(G)
    PROVE  reconnect' \subseteq Keys
<1>1. CASE ForgetWith(D, T)
  <2>1. reconnect' \subseteq reconnect
    BY <1>1 DEF ForgetWith
  <2> QED BY <2>1 DEF TypeOK
<1>2. CASE Forget(G)
  BY <1>2 DEF Forget, TypeOK
<1> QED BY <1>1, <1>2

\* The invariant after a step that only takes out, put together.
LEMMA SweepIInv ==
    ASSUME IInv, NEW D \in SUBSET Addrs, NEW T \in SUBSET Addrs,
           DropEndpoints(D, T), AllFollow(D),
           rooms' \in [Gids -> Room], theater' \in [Users -> Connection],
           UNCHANGED client, reconnect' \subseteq Keys
    PROVE  IInv'
<1>1. TypeOK
  BY DEF IInv
<1>2. TypeOK'
  BY <1>1, DropTypes DEF TypeOK
<1>3. /\ SeatsMirrorMembers' /\ IndexMatchesBindings' /\ RaceFollowsEndpoints'
      /\ LockedRoomsAreUnlisted' /\ NoRaceIsOpen' /\ BoundRoomsExist'
      /\ \A g \in Gids, u \in Users : Member(g, u)' => Member(g, u)
      /\ \A a \in Addrs : Bound(a)' => Bound(a) /\ UserOf(a)' = UserOf(a)
  BY SweepKeeps
<1>4. ForcedStayOut'
  BY <1>3, ForcedKept
<1> QED BY <1>2, <1>3, <1>4 DEF IInv

\* rooms' are the reopened rooms, and one of them is left.
LEMMA LeftInFollows ==
    ASSUME TypeOK, NEW D \in SUBSET Addrs, NEW g \in Gids, NEW u \in Users,
           rooms' = Reopened(D) \/ rooms' = LeftIn(Reopened(D), g, u)
    PROVE  rooms' \in [Gids -> Room] /\ AllFollow(D)
<1>0. Reopened(D) \in [Gids -> Room]
  <2>1. \A h \in Gids : Reopened(D)[h] \in Room
    BY ReopenedRoom
  <2>2. Reopened(D) = [h \in Gids |-> Reopened(D)[h]]
    BY DEF Reopened
  <2> QED BY <2>1, <2>2
<1>1. CASE rooms' = Reopened(D)
  BY <1>0, <1>1, RoomsFollow DEF AllFollow
<1>2. CASE rooms' = LeftIn(Reopened(D), g, u)
  <2>1. rooms' = [Reopened(D) EXCEPT ![g] = LeftRoom(Reopened(D)[g], u)]
    BY <1>2 DEF LeftIn
  <2>2. LeftRoom(Reopened(D)[g], u) \in Room
    BY RoomsFollow
  <2>3. rooms' \in [Gids -> Room]
    BY <1>0, <2>1, <2>2
  <2>4. ASSUME NEW h \in Gids
        PROVE  Follows(rooms[h], Reopened(D)[h], rooms'[h])
    <3>1. CASE h = g
      BY <1>0, <2>1, <3>1, RoomsFollow
    <3>2. CASE h # g
      BY <1>0, <2>1, <3>2, RoomsFollow
    <3> QED BY <3>1, <3>2
  <2> QED BY <2>3, <2>4 DEF AllFollow
<1> QED BY <1>1, <1>2

(***************************************************************************)
(* The steps of the listener and the poll that drop endpoints.             *)
(***************************************************************************)

\* DISCONNECT: the endpoint goes and its player leaves the room.
LEMMA HangUpStep ==
    ASSUME IInv, NEW a \in Addrs, HangUp(a)
    PROVE  IInv'
<1>1. TypeOK /\ RoomOf(a) \in Gids /\ UserOf(a) \in Users
  BY BoundTypes DEF IInv, HangUp
<1>2. rooms' \in [Gids -> Room] /\ AllFollow({a})
  BY <1>1, LeftInFollows DEF HangUp
<1>3. DropEndpoints({a}, {a}) /\ theater' \in [Users -> Connection] /\ UNCHANGED client
  BY <1>1 DEF HangUp, TypeOK
<1>4. reconnect' \subseteq Keys
  BY <1>1, ForgetTypes DEF HangUp
<1> QED BY <1>2, <1>3, <1>4, SweepIInv

\* CONNECT: the endpoint goes, the player stays in the room.
LEMMA RedialStep ==
    ASSUME IInv, NEW a \in Addrs, Redial(a)
    PROVE  IInv'
<1>1. TypeOK /\ RoomOf(a) \in Gids /\ UserOf(a) \in Users /\ binding[a] \in Keys
  BY BoundTypes DEF IInv, Redial
<1>2. rooms' \in [Gids -> Room] /\ AllFollow({a})
  BY <1>1, LeftInFollows DEF Redial
<1>3. DropEndpoints({a}, {}) /\ theater' \in [Users -> Connection] /\ UNCHANGED client
  BY <1>1 DEF Redial, TypeOK
<1>4. reconnect' \subseteq Keys
  BY <1>1 DEF Redial, TypeOK
<1> QED BY <1>2, <1>3, <1>4, SweepIInv

\* A peer that heard of the coordinator's exit goes.
LEMMA DrainStep ==
    ASSUME IInv, NEW a \in Addrs, Drain(a)
    PROVE  IInv'
<1>1. TypeOK /\ RoomOf(a) \in Gids /\ UserOf(a) \in Users
  BY BoundTypes DEF IInv, Drain
<1>2. rooms' \in [Gids -> Room] /\ AllFollow({a})
  BY <1>1, LeftInFollows DEF Drain
<1>3. DropEndpoints({a}, {}) /\ theater' \in [Users -> Connection] /\ UNCHANGED client
  BY <1>1 DEF Drain, TypeOK
<1>4. reconnect' \subseteq Keys
  BY <1>1, ForgetTypes DEF Drain
<1> QED BY <1>2, <1>3, <1>4, SweepIInv

\* An expired endpoint: the whole room is dropped when leave retired it.
LEMMA ExpireStep ==
    ASSUME IInv, NEW a \in Addrs, Bound(a), Expire(a)
    PROVE  IInv'
<1> DEFINE g == RoomOf(a)
           left == LeftIn(Reopened({a}), g, UserOf(a))
           dropped == IF left[g].status = "live" THEN {a} ELSE Endpoints(g)
<1>1. TypeOK /\ g \in Gids /\ UserOf(a) \in Users
  BY BoundTypes DEF IInv
<1>2. /\ DropEndpoints(dropped, {a}) /\ ForgetWith(dropped, {a}) /\ rooms' = left
      /\ UNCHANGED <<theater, client>>
  BY DEF Expire
<1>3. dropped \in SUBSET Addrs
  BY DEF Endpoints
<1>4. rooms' \in [Gids -> Room] /\ AllFollow({a})
  BY <1>1, <1>2, LeftInFollows
<1>5. AllFollow(dropped)
  <2>1. CASE left[g].status = "live"
    BY <1>4, <2>1
  <2>2. CASE left[g].status # "live"
    <3> SUFFICES ASSUME NEW h \in Gids
                 PROVE  Follows(rooms[h], Reopened(dropped)[h], rooms'[h])
      BY DEF AllFollow
    <3>1. Follows(rooms[h], Reopened({a})[h], rooms'[h])
      BY <1>4 DEF AllFollow
    <3>2. CASE h = g
      BY <1>2, <2>2, <3>1, <3>2 DEF Follows
    <3>3. CASE h # g
      <4>1. Endpoints(h) \intersect {a} = {} /\ Endpoints(h) \intersect dropped = {}
        BY <2>2, <3>3 DEF Endpoints
      <4>2. Reopened({a})[h] = rooms[h]
        <5>1. {a} \in SUBSET Addrs
          OBVIOUS
        <5> HIDE DEF g, left, dropped
        <5> QED BY <1>1, <4>1, <5>1, ReopenedRoom
      <4>3. Reopened(dropped)[h] = rooms[h]
        <5> HIDE DEF g, left, dropped
        <5> QED BY <1>1, <1>3, <4>1, ReopenedRoom
      <4> QED BY <3>1, <4>2, <4>3
    <3> QED BY <3>2, <3>3
  <2> QED BY <2>1, <2>2
<1>6. reconnect' \subseteq Keys
  BY <1>1, <1>2, ForgetTypes
<1>7. theater' \in [Users -> Connection]
  BY <1>1, <1>2 DEF TypeOK
<1> HIDE DEF dropped, left, g
<1> QED BY <1>2, <1>3, <1>4, <1>5, <1>6, <1>7, SweepIInv

\* retire_room: every endpoint of the room goes with it.
LEMMA RetireRoomStep ==
    ASSUME IInv, NEW g \in Gids, RetireRoom(g)
    PROVE  IInv'
<1> DEFINE D == Endpoints(g)
<1>1. TypeOK /\ D \in SUBSET Addrs
  BY DEF IInv, Endpoints
<1>2. /\ DropEndpoints(D, {}) /\ ForgetWith(D, {})
      /\ rooms' = RetiredIn(rooms, {g}) /\ UNCHANGED <<theater, client>>
  BY DEF RetireRoom, DropRoom
<1>3. \A h \in Gids : rooms'[h] = IF h = g /\ rooms[g].status = "live"
                                  THEN Retired(rooms[g]) ELSE rooms[h]
  BY <1>2 DEF RetiredIn
<1>4. rooms' \in [Gids -> Room]
  <2>1. \A h \in Gids : rooms[h] \in Room
    BY <1>1 DEF TypeOK
  <2>2. \A h \in Gids : rooms'[h] \in Room
    BY <1>3, <2>1, RetiredRoom
  <2>3. rooms' = [h \in Gids |-> rooms'[h]]
    BY <1>2 DEF RetiredIn
  <2> QED BY <2>2, <2>3
<1>5. AllFollow(D)
  <2> SUFFICES ASSUME NEW h \in Gids
               PROVE  Follows(rooms[h], Reopened(D)[h], rooms'[h])
    BY DEF AllFollow
  <2>1. CASE h = g /\ rooms[g].status = "live"
    <3>1. rooms'[h] = Retired(rooms[g]) /\ rooms[g] \in Room
      BY <1>1, <1>3, <2>1 DEF TypeOK
    <3>2. Retired(rooms[g]).kind = rooms[g].kind
      BY DEF Retired
    <3> QED BY <2>1, <3>1, <3>2, RetiredRoom DEF Follows
  <2>2. CASE h = g /\ rooms[g].status # "live"
    BY <1>3, <2>2 DEF Follows
  <2>3. CASE h # g
    <3>1. Endpoints(h) \intersect D = {}
      BY <2>3 DEF Endpoints
    <3>2. Reopened(D)[h] = rooms[h] /\ rooms'[h] = rooms[h]
      BY <1>1, <1>3, <2>3, <3>1, ReopenedRoom
    <3> QED BY <3>2 DEF Follows
  <2> QED BY <2>1, <2>2, <2>3
<1>6. reconnect' \subseteq Keys
  BY <1>1, <1>2, ForgetTypes
<1>7. theater' \in [Users -> Connection]
  BY <1>1, <1>2 DEF TypeOK
<1> HIDE DEF D
<1> QED BY <1>1, <1>2, <1>4, <1>5, <1>6, <1>7, SweepIInv

(***************************************************************************)
(* Steps that leave the endpoints alone.                                   *)
(***************************************************************************)

\* What a step must respect that changes rooms and races only: nobody who was put
\* out comes in, and a room is unlisted as long as its race is locked.
QuietRoom(g) ==
    /\ rooms'[g].seats = rooms'[g].members
    /\ rooms'[g].status = "unused" => rooms[g].status = "unused"
    /\ race'[g].phase = "none" <=> race[g].phase = "none"
    /\ race'[g].phase = "none" => race'[g] = NoRace
    /\ rooms'[g].status = "live" /\ race'[g].access = "locked" =>
          \/ rooms'[g].locked
          \/ rooms'[g].kind = "challenge" /\ rooms'[g].ready /\ AfterReady
    /\ rooms'[g].status = "live" =>
          \A u \in rooms'[g].members : Member(g, u) \/ client[u] # "forced"

\* A room and a race that no step touches are quiet.
LEMMA UntouchedIsQuiet ==
    ASSUME IInv, NEW g \in Gids, rooms'[g] = rooms[g], race'[g] = race[g]
    PROVE  QuietRoom(g)
<1> USE DEF IInv
<1>1. rooms[g].seats = rooms[g].members
  BY DEF SeatsMirrorMembers
<1>2. race[g].phase = "none" => race[g] = NoRace
  BY DEF NoRaceIsOpen
<1>3. rooms[g].status = "live" /\ race[g].access = "locked" =>
          \/ rooms[g].locked
          \/ rooms[g].kind = "challenge" /\ rooms[g].ready /\ AfterReady
  BY DEF LockedRoomsAreUnlisted, Live
<1> QED BY <1>1, <1>2, <1>3 DEF QuietRoom, Member, Live

\* A quiet step keeps the invariant.
LEMMA QuietStep ==
    ASSUME IInv, UNCHANGED <<client, binding, index>>,
           rooms' \in [Gids -> Room], theater' \in [Users -> Connection],
           wire' \in [Addrs -> Wire], race' \in [Gids -> Race], reconnect' \subseteq Keys,
           \A g \in Gids : QuietRoom(g)
    PROVE  IInv'
<1> USE DEF IInv
<1>1. TypeOK'
  BY DEF TypeOK
<1>2. SeatsMirrorMembers' /\ NoRaceIsOpen' /\ LockedRoomsAreUnlisted'
  BY DEF SeatsMirrorMembers, NoRaceIsOpen, LockedRoomsAreUnlisted, Live, QuietRoom
<1>3. IndexMatchesBindings'
  BY DEF IndexMatchesBindings
<1>4. RaceFollowsEndpoints'
  BY DEF RaceFollowsEndpoints, Endpoints, Bound, RoomOf, QuietRoom
<1>5. ForcedStayOut'
  <2>1. \A g \in Gids, u \in Users :
            client[u] = "forced" /\ Member(g, u)' => Member(g, u)
    BY DEF QuietRoom, Member, Live
  <2> QED BY <2>1 DEF ForcedStayOut, Bound, UserOf
<1>6. BoundRoomsExist'
  <2> SUFFICES ASSUME NEW a \in Addrs, Bound(a)'
               PROVE  rooms'[RoomOf(a)'].status # "unused"
    BY DEF BoundRoomsExist
  <2>1. Bound(a) /\ RoomOf(a)' = RoomOf(a)
    BY DEF Bound, RoomOf
  <2>2. RoomOf(a) \in Gids /\ rooms[RoomOf(a)].status # "unused"
    BY <2>1, BoundTypes DEF BoundRoomsExist
  <2> QED BY <2>1, <2>2 DEF QuietRoom
<1> QED BY <1>1, <1>2, <1>3, <1>4, <1>5, <1>6

\* A step that changes one room and its race, quietly.
LEMMA QuietRoomStep ==
    ASSUME IInv, NEW g \in Gids, UNCHANGED <<client, binding, index, wire, reconnect>>,
           theater' \in [Users -> Connection],
           NEW r \in Room, rooms' = [rooms EXCEPT ![g] = r],
           NEW q \in Race, race' = [race EXCEPT ![g] = q],
           QuietRoom(g)
    PROVE  IInv'
<1>1. TypeOK
  BY DEF IInv
<1>2. rooms' \in [Gids -> Room] /\ race' \in [Gids -> Race]
  BY <1>1 DEF TypeOK
<1>3. wire' \in [Addrs -> Wire] /\ reconnect' \subseteq Keys
  BY <1>1 DEF TypeOK
<1>4. ASSUME NEW h \in Gids PROVE QuietRoom(h)
  <2>1. CASE h = g
    BY <2>1
  <2>2. CASE h # g
    <3>1. rooms'[h] = rooms[h] /\ race'[h] = race[h]
      BY <1>1, <2>2 DEF TypeOK
    <3> QED BY <3>1, UntouchedIsQuiet
  <2> QED BY <2>1, <2>2
<1> QED BY <1>2, <1>3, <1>4, QuietStep

\* The same, when the race of the room is not touched.
LEMMA QuietDirectoryStep ==
    ASSUME IInv, NEW g \in Gids, UNCHANGED <<client, transport>>,
           theater' \in [Users -> Connection],
           NEW r \in Room, rooms' = [rooms EXCEPT ![g] = r],
           QuietRoom(g)
    PROVE  IInv'
<1>1. race[g] \in Race /\ race' = [race EXCEPT ![g] = race[g]]
  BY DEF IInv, TypeOK, transport
<1>2. UNCHANGED <<client, binding, index, wire, reconnect>>
  BY DEF transport
<1> QED BY <1>1, <1>2, QuietRoomStep

\* What a member room says of itself, taken out of the invariant.
LEMMA RoomFacts ==
    ASSUME IInv, NEW g \in Gids
    PROVE  /\ rooms[g] \in Room /\ race[g] \in Race
           /\ rooms[g].seats = rooms[g].members
           /\ race[g].phase = "none" => race[g] = NoRace
           /\ rooms[g].status = "live" /\ race[g].access = "locked" =>
                \/ rooms[g].locked
                \/ rooms[g].kind = "challenge" /\ rooms[g].ready /\ AfterReady
  BY DEF IInv, TypeOK, SeatsMirrorMembers, NoRaceIsOpen, LockedRoomsAreUnlisted, Live

\* leave, on the one room it is about, is quiet.
LEMMA LeaveIsQuiet ==
    ASSUME IInv, NEW g \in Gids, NEW u \in Users, rooms' = LeftIn(rooms, g, u),
           UNCHANGED <<client, transport>>, theater' \in [Users -> Connection]
    PROVE  IInv'
<1> DEFINE r == LeftRoom(rooms[g], u)
<1>1. rooms' = [rooms EXCEPT ![g] = r]
  BY DEF LeftIn
<1>2. r \in Room /\ rooms'[g] = r /\ race'[g] = race[g]
  BY <1>1, RoomFacts, LeftRoomIsRoom DEF IInv, TypeOK, transport
<1>3. /\ r.seats = r.members /\ r.members \subseteq rooms[g].members
      /\ r.kind = rooms[g].kind
      /\ r.status = "unused" => rooms[g].status = "unused"
      /\ r.status = "live" =>
            rooms[g].status = "live" /\ r.locked = rooms[g].locked /\ r.ready = rooms[g].ready
  BY RoomFacts, LeftRoomIsRoom
<1> HIDE DEF r
<1>4. QuietRoom(g)
  BY <1>2, <1>3, RoomFacts DEF QuietRoom, Member, Live
<1> QED BY <1>1, <1>2, <1>4, QuietDirectoryStep

\* A join that timed out: the room goes when its coordinator was waited for.
LEMMA ExpireJoinStep ==
    ASSUME IInv, NEW g \in Gids, NEW u \in Users, ExpireJoin(g, u)
    PROVE  IInv'
<1> DEFINE D == Endpoints(g)
<1>1. /\ rooms' = LeftIn(rooms, g, u) /\ UNCHANGED <<theater, client>>
      /\ IF rooms'[g].status = "live" THEN UNCHANGED transport ELSE DropRoom(g)
  BY DEF ExpireJoin
<1>2. TypeOK /\ theater' \in [Users -> Connection]
  BY <1>1 DEF IInv, TypeOK
<1>3. CASE rooms'[g].status = "live"
  BY <1>1, <1>2, <1>3, LeaveIsQuiet
<1>4. CASE rooms'[g].status # "live"
  <2>1. DropEndpoints(D, {}) /\ ForgetWith(D, {}) /\ D \in SUBSET Addrs
    BY <1>1, <1>4 DEF DropRoom, Endpoints
  <2>2. rooms' = [rooms EXCEPT ![g] = LeftRoom(rooms[g], u)] /\ LeftRoom(rooms[g], u) \in Room
    BY <1>1, RoomFacts, LeftRoomIsRoom DEF LeftIn
  <2>3. rooms' \in [Gids -> Room]
    BY <1>2, <2>2 DEF TypeOK
  <2>4. AllFollow(D)
    <3> SUFFICES ASSUME NEW h \in Gids
                 PROVE  Follows(rooms[h], Reopened(D)[h], rooms'[h])
      BY DEF AllFollow
    <3>1. CASE h = g
      <4>1. rooms'[h] = LeftRoom(rooms[g], u)
        BY <1>2, <2>2, <3>1 DEF TypeOK
      <4> QED BY <1>4, <3>1, <4>1, RoomFacts, LeftRoomIsRoom DEF Follows
    <3>2. CASE h # g
      <4>1. Endpoints(h) \intersect D = {}
        BY <3>2 DEF Endpoints
      <4>2. Reopened(D)[h] = rooms[h] /\ rooms'[h] = rooms[h]
        BY <1>2, <2>1, <2>2, <3>2, <4>1, ReopenedRoom DEF TypeOK
      <4> QED BY <4>2 DEF Follows
    <3> QED BY <3>1, <3>2
  <2>5. reconnect' \subseteq Keys
    BY <1>2, <2>1, ForgetTypes
  <2> HIDE DEF D
  <2> QED BY <1>1, <1>2, <2>1, <2>3, <2>4, <2>5, SweepIInv
<1> QED BY <1>3, <1>4

\* The first half of ECNL: it drops the player's endpoint, or tells its peers.
LEMMA BeginLeaveStep ==
    ASSUME IInv, NEW u \in Users, NEW g \in Gids, BeginLeave(u, g)
    PROVE  IInv'
<1> DEFINE a == index[<<g, u>>]
<1>1. TypeOK /\ UNCHANGED client
  BY DEF IInv, BeginLeave
<1>2. theater' \in [Users -> Connection]
  BY <1>1 DEF BeginLeave, TypeOK, Connection
<1>3. CASE a # Unset /\ DropEndpoints({a}, {a}) /\ rooms' = Reopened({a}) /\ ForgetWith({a}, {a})
  <2>1. a \in Addrs
    BY <1>1, <1>3 DEF TypeOK, Keys
  <2>2. rooms' \in [Gids -> Room] /\ AllFollow({a})
    BY <1>1, <1>3, <2>1, LeftInFollows
  <2>3. reconnect' \subseteq Keys
    BY <1>1, <1>3, ForgetTypes
  <2> HIDE DEF a
  <2> QED BY <1>1, <1>2, <1>3, <2>1, <2>2, <2>3, SweepIInv
<1>4. CASE /\ IF Member(g, u) THEN AnnounceUnbound(g, u)
                ELSE UNCHANGED <<binding, index, wire, race>>
           /\ Forget(IF Endpoints(g) = {} THEN {g} ELSE {})
           /\ UNCHANGED rooms
  <2>1. UNCHANGED <<rooms, binding, index, race>>
    BY <1>4 DEF AnnounceUnbound
  <2>2. wire' \in [Addrs -> Wire]
    BY <1>1, <1>4 DEF AnnounceUnbound, TypeOK, Wire
  <2>3. reconnect' \subseteq Keys
    BY <1>1, <1>4, ForgetTypes
  <2>4. \A h \in Gids : QuietRoom(h)
    BY <2>1, UntouchedIsQuiet
  <2>5. rooms' \in [Gids -> Room] /\ race' \in [Gids -> Race]
    BY <1>1, <2>1 DEF TypeOK
  <2> QED BY <1>1, <1>2, <2>1, <2>2, <2>3, <2>4, <2>5, QuietStep
<1>5. CASE UNCHANGED <<rooms, transport>>
  <2>1. UNCHANGED <<rooms, binding, index, wire, race, reconnect>>
    BY <1>5 DEF transport
  <2>2. \A h \in Gids : QuietRoom(h)
    BY <2>1, UntouchedIsQuiet
  <2>3. /\ rooms' \in [Gids -> Room] /\ race' \in [Gids -> Race] /\ wire' \in [Addrs -> Wire]
        /\ reconnect' \subseteq Keys
    BY <1>1, <2>1 DEF TypeOK
  <2> QED BY <1>1, <1>2, <2>1, <2>2, <2>3, QuietStep
<1> QED BY <1>3, <1>4, <1>5 DEF BeginLeave

\* The second half of ECNL.
LEMMA FinishLeaveStep ==
    ASSUME IInv, NEW u \in Users, FinishLeave(u)
    PROVE  IInv'
<1>1. /\ theater[u].leaving \in Gids
      /\ theater' = [theater EXCEPT ![u].leaving = Unset]
      /\ rooms' = LeftIn(rooms, theater[u].leaving, u)
      /\ UNCHANGED <<client, transport>>
  BY DEF FinishLeave, IInv, TypeOK, Connection
<1>2. theater' \in [Users -> Connection]
  BY <1>1 DEF IInv, TypeOK, Connection
<1> QED BY <1>1, <1>2, LeaveIsQuiet

\* A number that was never used has no race.
LEMMA UnusedHasNoRace ==
    ASSUME IInv, NEW g \in Gids, rooms[g].status = "unused"
    PROVE  race[g] = NoRace
<1>1. Endpoints(g) = {}
  BY DEF IInv, BoundRoomsExist, Endpoints
<1> QED BY <1>1 DEF IInv, RaceFollowsEndpoints, NoRaceIsOpen

\* A new room seats its client, or nobody yet.
LEMMA CreateStep ==
    ASSUME IInv, NEW u \in Users, NEW g \in Gids, NEW kind \in Kinds,
           NEW c \in MinCapacity .. MaxCapacity, Create(u, g, kind, c)
    PROVE  IInv'
<1> DEFINE first == IF kind = "client" THEN {u} ELSE {}
           r == [status |-> "live", kind |-> kind, owner |-> u,
                 members |-> first, seats |-> first, capacity |-> c, ready |-> FALSE,
                 locked |-> kind = "challenge" /\ ~BeforeReady]
<1>1. /\ rooms' = [rooms EXCEPT ![g] = r] /\ UNCHANGED <<client, transport>>
      /\ theater' \in [Users -> Connection]
      /\ rooms[g].status = "unused" /\ client[u] = "online"
  BY DEF Create, Online, IInv, TypeOK
<1>2. c \in 0 .. MaxCapacity
  BY ConstantsAssumption
<1>3. r \in Room
  BY <1>2, ConstantsAssumption DEF Room
<1>4. /\ r.status = "live" /\ r.seats = r.members
      /\ \A v \in r.members : client[v] # "forced"
  BY <1>1
<1>5. rooms'[g] = r /\ race'[g] = race[g]
  BY <1>1 DEF IInv, TypeOK, transport
<1>6. race[g] = NoRace /\ NoRace.access = "open"
  BY <1>1, UnusedHasNoRace DEF NoRace
<1> HIDE DEF r
<1>7. QuietRoom(g)
  BY <1>4, <1>5, <1>6 DEF QuietRoom
<1> QED BY <1>1, <1>3, <1>7, QuietDirectoryStep

\* Who enters is online; who moves out only leaves.
LEMMA EnterGameStep ==
    ASSUME IInv, NEW u \in Users, NEW g \in Gids, EnterGame(u, g)
    PROVE  IInv'
<1> DEFINE entered == EnteredRooms(u, g, theater[u].invite = g)
<1>1. /\ rooms' = entered /\ UNCHANGED <<client, transport>>
      /\ client[u] = "online"
  BY DEF EnterGame, Serving, Online
<1>2. theater' \in [Users -> Connection]
  <2>1. NewConnection \in Connection
    BY DEF NewConnection, Connection
  <2>2. theater \in [Users -> Connection]
    BY DEF IInv, TypeOK
  <2> QED BY <2>1, <2>2 DEF EnterGame
<1>3. ASSUME NEW h \in Gids
      PROVE  rooms'[h] \in {MovedOut(rooms[h], u), rooms[h], Seated(rooms[h], u)}
  BY <1>1 DEF EnteredRooms
<1>4. \A h \in Gids : rooms'[h] \in Room
  BY <1>3, RoomFacts, MovedOutIsRoom, SeatedRoom
<1>5. rooms' \in [Gids -> Room]
  <2>1. rooms' = [h \in Gids |-> rooms'[h]]
    BY <1>1 DEF EnteredRooms
  <2> QED BY <1>4, <2>1
<1>6. UNCHANGED <<binding, index, wire, race, reconnect>>
  BY <1>1 DEF transport
<1>7. ASSUME NEW h \in Gids
      PROVE  QuietRoom(h)
  <2>1. race'[h] = race[h]
    BY <1>6
  <2>2. CASE rooms'[h] = rooms[h]
    BY <2>1, <2>2, UntouchedIsQuiet
  <2>3. CASE rooms'[h] = MovedOut(rooms[h], u)
    <3>1. /\ rooms'[h].seats = rooms'[h].members /\ rooms'[h].members \subseteq rooms[h].members
          /\ rooms'[h].kind = rooms[h].kind
          /\ rooms'[h].status = "unused" => rooms[h].status = "unused"
          /\ rooms'[h].status = "live" =>
                /\ rooms[h].status = "live" /\ rooms'[h].locked = rooms[h].locked
                /\ rooms'[h].ready = rooms[h].ready
      BY <2>3, RoomFacts, MovedOutIsRoom
    <3> QED BY <2>1, <3>1, RoomFacts DEF QuietRoom, Member, Live
  <2>4. CASE rooms'[h] = Seated(rooms[h], u)
    <3>1. /\ rooms'[h].seats = rooms'[h].members /\ rooms'[h].members = rooms[h].members \union {u}
          /\ rooms'[h].kind = rooms[h].kind /\ rooms'[h].status = rooms[h].status
          /\ rooms'[h].locked = rooms[h].locked /\ rooms'[h].ready = rooms[h].ready
      BY <2>4, RoomFacts, SeatedRoom
    <3> QED BY <1>1, <2>1, <3>1, RoomFacts DEF QuietRoom, Member, Live
  <2> QED BY <1>3, <2>2, <2>3, <2>4
<1>8. wire' \in [Addrs -> Wire] /\ race' \in [Gids -> Race] /\ reconnect' \subseteq Keys
  BY <1>6 DEF IInv, TypeOK
<1> QED BY <1>1, <1>2, <1>5, <1>6, <1>7, <1>8, QuietStep

\* Steps of a connection alone.
LEMMA ConnectionStep ==
    ASSUME IInv, UNCHANGED <<rooms, client, transport>>, theater' \in [Users -> Connection]
    PROVE  IInv'
<1>1. UNCHANGED <<rooms, client, binding, index, wire, race, reconnect>>
  BY DEF transport
<1>2. \A g \in Gids : QuietRoom(g)
  BY <1>1, UntouchedIsQuiet
<1>3. /\ rooms' \in [Gids -> Room] /\ race' \in [Gids -> Race] /\ wire' \in [Addrs -> Wire]
      /\ reconnect' \subseteq Keys
  BY <1>1 DEF IInv, TypeOK
<1> QED BY <1>1, <1>2, <1>3, QuietStep

\* Publishing what an address is to be told changes nothing else.
LEMMA PublishLeavesStep ==
    ASSUME IInv, NEW a \in Addrs, PublishLeaves(a)
    PROVE  IInv'
<1>1. /\ UNCHANGED <<rooms, theater, client, binding, index, race, reconnect>>
      /\ wire' = [wire EXCEPT ![a] = Published(wire[a])]
  BY DEF PublishLeaves, directory
<1>2. wire' \in [Addrs -> Wire]
  BY <1>1 DEF Published, Wire, IInv, TypeOK
<1>3. \A g \in Gids : QuietRoom(g)
  BY <1>1, UntouchedIsQuiet
<1>4. /\ rooms' \in [Gids -> Room] /\ race' \in [Gids -> Race]
      /\ theater' \in [Users -> Connection] /\ reconnect' \subseteq Keys
  BY <1>1 DEF IInv, TypeOK
<1> QED BY <1>1, <1>2, <1>3, <1>4, QuietStep

\* A game that crashes, or comes back, was or becomes online.
LEMMA ClientStep ==
    ASSUME IInv, NEW u \in Users, Crash(u) \/ Return(u)
    PROVE  IInv'
<1> USE DEF IInv
<1>1. UNCHANGED <<rooms, theater, binding, index, wire, race, reconnect>>
  BY DEF Crash, Return, transport
<1>2. client' \in [Users -> {"online", "gone", "forced"}]
  BY DEF Crash, Return, TypeOK
<1>3. \A v \in Users : client'[v] = "forced" => client[v] = "forced"
  BY DEF Crash, Return, TypeOK
<1>4. TypeOK'
  BY <1>1, <1>2 DEF TypeOK
<1>5. ForcedStayOut'
  BY <1>1, <1>3, ForcedKept DEF Member, Live, Bound, UserOf
<1>6. SeatsMirrorMembers' /\ IndexMatchesBindings' /\ LockedRoomsAreUnlisted' /\ NoRaceIsOpen'
  BY <1>1 DEF SeatsMirrorMembers, IndexMatchesBindings, LockedRoomsAreUnlisted, NoRaceIsOpen, Live
<1>7. RaceFollowsEndpoints' /\ BoundRoomsExist'
  BY <1>1 DEF RaceFollowsEndpoints, BoundRoomsExist, Endpoints, Bound, RoomOf
<1> QED BY <1>4, <1>5, <1>6, <1>7

(***************************************************************************)
(* The race and the gate.                                                  *)
(***************************************************************************)

\* A race goes on only in a room that has endpoints, where there is one already.
LEMMA RaceExists ==
    ASSUME IInv, NEW g \in Gids, Endpoints(g) # {}
    PROVE  race[g].phase # "none"
  BY DEF IInv, RaceFollowsEndpoints

\* The endpoints of a room are finitely many only to be counted as none or some.
LEMMA CountedEndpoints ==
    ASSUME NEW g \in Gids, Cardinality(Endpoints(g)) >= 2
    PROVE  Endpoints(g) # {}
  BY FS_EmptySet

\* The next phase of a race.
LEMMA AdvanceStep ==
    ASSUME IInv, NEW g \in Gids, NEW from \in Phases, NEW to \in Phases \ {"none"},
           Advance(g, from, to)
    PROVE  IInv'
<1>1. /\ UNCHANGED <<rooms, theater, client, binding, index, wire, reconnect>>
      /\ race' = [race EXCEPT ![g].phase = to] /\ race[g].phase # "none"
  BY RaceExists DEF Advance, directory
<1> DEFINE q == [race[g] EXCEPT !.phase = to]
<1>2. q \in Race /\ q.phase # "none" /\ q.access = race[g].access
  BY RoomFacts DEF Race
<1>3. race' = [race EXCEPT ![g] = q] /\ race'[g] = q
  BY <1>1 DEF IInv, TypeOK
<1>4. rooms[g] \in Room /\ rooms' = [rooms EXCEPT ![g] = rooms[g]] /\ rooms'[g] = rooms[g]
  BY <1>1 DEF IInv, TypeOK
<1> HIDE DEF q
<1>5. QuietRoom(g)
  BY <1>1, <1>2, <1>3, <1>4, RoomFacts DEF QuietRoom, Member, Live
<1>6. theater' \in [Users -> Connection]
  BY <1>1 DEF IInv, TypeOK
<1> QED BY <1>1, <1>2, <1>3, <1>4, <1>5, <1>6, QuietRoomStep

\* A race and a gate that are changed together: the new gate r is unlisted, or the
\* access of the new race q is open.
LEMMA GateStep ==
    ASSUME IInv, NEW g \in Gids, UNCHANGED <<theater, client, binding, index, wire, reconnect>>,
           race[g].phase # "none",
           NEW q \in Race, race' = [race EXCEPT ![g] = q], q.phase # "none",
           NEW r \in Room, Gate(g, r),
           r.seats = rooms[g].seats, r.members = rooms[g].members, r.status = rooms[g].status,
           \/ q.access = "open"
           \/ r.locked
           \/ r.kind = "challenge" /\ r.ready /\ AfterReady
    PROVE  IInv'
<1> DEFINE s == IF Live(g) THEN r ELSE rooms[g]
<1>1. s \in Room /\ rooms' = [rooms EXCEPT ![g] = s]
  BY RoomFacts DEF Gate
<1>2. rooms'[g] = s /\ race'[g] = q
  BY <1>1 DEF IInv, TypeOK
<1>3. /\ s.seats = s.members /\ s.members = rooms[g].members /\ s.status = rooms[g].status
      /\ s.status = "live" => s = r
  BY RoomFacts DEF Live
<1> HIDE DEF s
<1>4. QuietRoom(g)
  BY <1>2, <1>3 DEF QuietRoom, Member, Live
<1>5. theater' \in [Users -> Connection]
  BY DEF IInv, TypeOK
<1> QED BY <1>1, <1>4, <1>5, QuietRoomStep

\* lock_room_access locks the gate with the race.
LEMMA LockAccessStep ==
    ASSUME IInv, NEW g \in Gids, LockAccess(g)
    PROVE  IInv'
<1> DEFINE q == [race[g] EXCEPT !.access = "locked"]
           r == LockedGate(rooms[g])
<1>1. race[g].phase # "none"
  BY CountedEndpoints, RaceExists DEF LockAccess
<1>2. q \in Race /\ q.phase # "none"
  BY <1>1, RoomFacts DEF Race
<1>3. race' = [race EXCEPT ![g] = q]
  BY DEF LockAccess, IInv, TypeOK
<1>4. /\ r \in Room /\ r.seats = rooms[g].seats /\ r.members = rooms[g].members
      /\ r.status = rooms[g].status
  BY RoomFacts, LockedGateRoom
<1>5. r.locked \/ (r.kind = "challenge" /\ r.ready /\ AfterReady)
  BY RoomFacts, LockedGateUnlists
<1>6. Gate(g, r) /\ UNCHANGED <<theater, client, binding, index, wire, reconnect>>
  BY DEF LockAccess
<1> HIDE DEF q, r
<1> QED BY <1>1, <1>2, <1>3, <1>4, <1>5, <1>6, GateStep

\* MATCHMAKING_OFF leaves a Challenge room unlisted, or ready to be joined.
LEMMA ReadyControlStep ==
    ASSUME IInv, NEW g \in Gids, ReadyControl(g)
    PROVE  IInv'
<1> DEFINE r == Readied(rooms[g], TRUE)
<1>1. /\ rooms' = [rooms EXCEPT ![g] = r] /\ UNCHANGED <<client, transport>>
      /\ theater' \in [Users -> Connection] /\ rooms[g].kind = "challenge"
  BY DEF ReadyControl, IInv, TypeOK
<1>2. /\ r \in Room /\ r.seats = rooms[g].seats /\ r.members = rooms[g].members
      /\ r.status = rooms[g].status /\ r.kind = rooms[g].kind
  BY RoomFacts, ReadiedRoom
<1>3. r.locked \/ (r.ready /\ AfterReady)
  BY <1>1, RoomFacts, ReadyUnlists
<1>4. rooms'[g] = r /\ race'[g] = race[g]
  BY <1>1 DEF IInv, TypeOK, transport
<1> HIDE DEF r
<1>5. QuietRoom(g)
  BY <1>1, <1>2, <1>3, <1>4, RoomFacts DEF QuietRoom, Member, Live
<1> QED BY <1>1, <1>2, <1>5, QuietDirectoryStep

\* A new epoch: the room is ready, unless the abort of an earlier one came last and
\* opened the race as well.
LEMMA ReadySeedStep ==
    ASSUME IInv, NEW g \in Gids, ReadySeed(g)
    PROVE  IInv'
<1> DEFINE again == race[g].epoch # "none"
           kept == IF again THEN Aborted(race[g]) ELSE race[g]
           reset == IF kept.phase = "finished" THEN NewRace ELSE kept
           undone == again /\ race[g].phase \in {"setup", "countdown"}
           q == [reset EXCEPT !.epoch = "seeded"]
           r == Readied(rooms[g], ~undone)
<1>1. race[g].phase # "none" /\ race[g] \in Race
  BY CountedEndpoints, RaceExists, RoomFacts DEF ReadySeed
<1>2. NewRace \in Race /\ NewRace.phase = "setup" /\ NewRace.access = "open"
  BY DEF NewRace, NoRace, Race, Phases
<1>3. kept \in Race /\ kept.phase # "none" /\ (undone => kept = NewRace)
  BY <1>1, AbortedRace DEF Aborted
<1>4. reset \in Race /\ reset.phase # "none" /\ (undone => reset = NewRace)
  BY <1>2, <1>3
<1> HIDE DEF reset, kept
<1>5. q \in Race /\ q.phase # "none" /\ (undone => q.access = "open")
  BY <1>2, <1>4 DEF Race
<1>6. r = Readied(rooms[g], TRUE) \/ (undone /\ r = Readied(rooms[g], FALSE))
  <2>1. CASE undone
    <3>1. (~undone) = FALSE
      BY <2>1
    <3> HIDE DEF undone
    <3> QED BY <2>1, <3>1
  <2>2. CASE ~undone
    <3>1. (~undone) = TRUE
      BY <2>2
    <3> HIDE DEF undone
    <3> QED BY <3>1
  <2> QED BY <2>1, <2>2
<1>7. /\ r \in Room /\ r.seats = rooms[g].seats /\ r.members = rooms[g].members
      /\ r.status = rooms[g].status /\ r.kind = rooms[g].kind
      /\ undone \/ r.locked \/ (r.kind = "challenge" /\ r.ready /\ AfterReady)
  <2>1. rooms[g] \in Room /\ rooms[g].kind = "challenge"
    BY RoomFacts DEF ReadySeed
  <2>2. Readied(rooms[g], TRUE).locked \/ (Readied(rooms[g], TRUE).ready /\ AfterReady)
    BY <2>1, ReadyUnlists
  <2> HIDE DEF r, undone
  <2>3. CASE r = Readied(rooms[g], TRUE)
    BY <2>1, <2>2, <2>3, ReadiedRoom
  <2>4. CASE undone /\ r = Readied(rooms[g], FALSE)
    BY <2>1, <2>4, ReadiedRoom
  <2> QED BY <1>6, <2>3, <2>4
<1>8. /\ race' = [race EXCEPT ![g] = q] /\ Gate(g, r)
      /\ UNCHANGED <<theater, client, binding, index, wire, reconnect>>
  BY DEF ReadySeed, reset, kept
<1> HIDE DEF q, r, undone
<1> QED BY <1>1, <1>5, <1>7, <1>8, GateStep

\* The native bundle locks the gate with the race.
LEMMA NativeBundleStep ==
    ASSUME IInv, NEW g \in Gids, NativeBundle(g)
    PROVE  IInv'
<1> DEFINE q == [phase |-> IF race[g].phase = "setup" THEN "countdown" ELSE race[g].phase,
                 access |-> "locked", epoch |-> "active"]
           r == LockedGate(rooms[g])
<1>1. race[g].phase # "none"
  BY RaceExists DEF NativeBundle
<1>2. q \in Race /\ q.phase # "none"
  BY <1>1, RoomFacts DEF Race, Phases
<1>3. race' = [race EXCEPT ![g] = q]
  BY RoomFacts DEF NativeBundle, IInv, TypeOK, Race
<1>4. /\ r \in Room /\ r.seats = rooms[g].seats /\ r.members = rooms[g].members
      /\ r.status = rooms[g].status
  BY RoomFacts, LockedGateRoom
<1>5. r.locked \/ (r.kind = "challenge" /\ r.ready /\ AfterReady)
  BY RoomFacts, LockedGateUnlists
<1>6. Gate(g, r) /\ UNCHANGED <<theater, client, binding, index, wire, reconnect>>
  BY DEF NativeBundle
<1> HIDE DEF q, r
<1> QED BY <1>1, <1>2, <1>3, <1>4, <1>5, <1>6, GateStep

\* A finished race begins anew with the gate reopened.
LEMMA ReopenRoomStep ==
    ASSUME IInv, NEW g \in Gids, ReopenRoom(g)
    PROVE  IInv'
<1>1. race[g].phase # "none"
  BY RaceExists DEF ReopenRoom
<1>2. NewRace \in Race /\ NewRace.phase # "none" /\ NewRace.access = "open"
  BY DEF NewRace, NoRace, Race, Phases
<1>3. /\ Readied(rooms[g], FALSE) \in Room
      /\ Readied(rooms[g], FALSE).seats = rooms[g].seats
      /\ Readied(rooms[g], FALSE).members = rooms[g].members
      /\ Readied(rooms[g], FALSE).status = rooms[g].status
  BY RoomFacts, ReadiedRoom
<1>4. /\ race' = [race EXCEPT ![g] = NewRace] /\ Gate(g, Readied(rooms[g], FALSE))
      /\ UNCHANGED <<theater, client, binding, index, wire, reconnect>>
  BY DEF ReopenRoom
<1> QED BY <1>1, <1>2, <1>3, <1>4, GateStep

\* A capacity that is applied is one a room can have.
LEMMA AppliedBounds ==
    ASSUME IInv, NEW g \in Gids, NEW c \in MinCapacity .. MaxCapacity
    PROVE  Applied(g, c) \in MinCapacity .. MaxCapacity
<1>1. Cardinality(rooms[g].members) \in Nat
  <2>1. rooms[g].members \subseteq Users
    BY RoomFacts DEF Room
  <2> QED BY <2>1, FS_Subset, FS_CardinalityType, ConstantsAssumption
<1> QED BY <1>1, ConstantsAssumption DEF Applied, Smaller, Larger

\* The coordinator's new capacity.
LEMMA SetCapacityStep ==
    ASSUME IInv, NEW g \in Gids, NEW c \in MinCapacity .. MaxCapacity, SetCapacity(g, c)
    PROVE  IInv'
<1> DEFINE r == [rooms[g] EXCEPT !.capacity = Applied(g, c)]
<1>1. Applied(g, c) \in 0 .. MaxCapacity
  BY AppliedBounds, ConstantsAssumption
<1>2. /\ r \in Room /\ r.seats = rooms[g].seats /\ r.members = rooms[g].members
      /\ r.status = rooms[g].status /\ r.kind = rooms[g].kind
      /\ r.locked = rooms[g].locked /\ r.ready = rooms[g].ready
  BY <1>1, RoomFacts DEF Room
<1>3. rooms' = [rooms EXCEPT ![g] = r] /\ UNCHANGED <<theater, client, transport>>
  BY DEF SetCapacity, IInv, TypeOK
<1>4. rooms'[g] = r /\ race'[g] = race[g] /\ theater' \in [Users -> Connection]
  BY <1>3 DEF IInv, TypeOK, transport
<1> HIDE DEF r
<1>5. QuietRoom(g)
  BY <1>2, <1>4, RoomFacts DEF QuietRoom, Member, Live
<1> QED BY <1>2, <1>3, <1>4, <1>5, QuietDirectoryStep

(***************************************************************************)
(* A player is bound, and a player is put out.                             *)
(***************************************************************************)

\* bind moves a member to its new address; a player who was put out is no member.
LEMMA BindStep ==
    ASSUME IInv, NEW a \in Addrs, NEW g \in Gids, NEW u \in Users, Bind(a, g, u)
    PROVE  IInv'
<1> DEFINE k == <<g, u>>
           old == index[k]
<1> USE DEF IInv
<1>1. k \in Keys /\ k # Unset /\ ~Bound(a) /\ Member(g, u)
  BY ConstantsAssumption DEF Bind, Keys
<1>2. /\ UNCHANGED <<rooms, theater, client>>
      /\ binding' = [b \in Addrs |-> IF b = a THEN k ELSE IF b = old THEN Unset ELSE binding[b]]
      /\ index' = [index EXCEPT ![k] = a]
      /\ wire' = [b \in Addrs |-> IF b \in {a, old} THEN NewWire ELSE wire[b]]
      /\ race' = [race EXCEPT ![g] = IF race[g].phase = "none" THEN NewRace ELSE race[g]]
      /\ reconnect' \subseteq reconnect
  BY DEF Bind, Rebound, directory
<1>3. \A b \in Addrs : old = b <=> binding[b] = k
  BY <1>1 DEF IndexMatchesBindings
<1>4. k[1] = g /\ k[2] = u
  OBVIOUS
<1> HIDE DEF k, old
<1>5. TypeOK'
  <2>1. NewWire \in Wire /\ NewRace \in Race
    BY DEF NewWire, Wire, NewRace, NoRace, Race, Phases
  <2>2. binding' \in [Addrs -> Keys \union {Unset}]
    BY <1>1, <1>2 DEF TypeOK
  <2>3. index' \in [Keys -> Addrs \union {Unset}]
    BY <1>1, <1>2 DEF TypeOK
  <2>4. wire' \in [Addrs -> Wire]
    BY <1>2, <2>1 DEF TypeOK
  <2>5. race' \in [Gids -> Race]
    BY <1>2, <2>1 DEF TypeOK
  <2> QED BY <1>2, <2>2, <2>3, <2>4, <2>5 DEF TypeOK
<1>6. SeatsMirrorMembers'
  BY <1>2 DEF SeatsMirrorMembers
<1>7. IndexMatchesBindings'
  <2> SUFFICES ASSUME NEW b \in Addrs, NEW j \in Keys
               PROVE  index'[j] = b <=> binding'[b] = j
    BY DEF IndexMatchesBindings
  <2>1. /\ index'[j] = IF j = k THEN a ELSE index[j]
        /\ binding'[b] = IF b = a THEN k ELSE IF b = old THEN Unset ELSE binding[b]
    BY <1>1, <1>2 DEF TypeOK
  <2>2. index[j] = b <=> binding[b] = j
    BY DEF IndexMatchesBindings
  <2>3. Unset # j /\ binding[a] = Unset
    BY <1>1, ConstantsAssumption DEF Bound
  <2> QED BY <1>1, <1>3, <2>1, <2>2, <2>3
<1>8. RaceFollowsEndpoints' /\ NoRaceIsOpen'
  <2> SUFFICES ASSUME NEW h \in Gids
               PROVE  /\ race'[h].phase = "none" <=> Endpoints(h)' = {}
                      /\ race'[h].phase = "none" => race'[h] = NoRace
    BY DEF RaceFollowsEndpoints, NoRaceIsOpen
  <2>1. NewRace.phase # "none"
    BY DEF NewRace, NoRace
  <2>2. CASE h = g
    <3>1. a \in Endpoints(h)'
      BY <1>1, <1>2, <1>4, <2>2 DEF Endpoints, Bound, RoomOf
    <3>2. race'[h].phase # "none"
      BY <1>2, <2>1, <2>2 DEF TypeOK
    <3> QED BY <3>1, <3>2
  <2>3. CASE h # g
    <3>1. Endpoints(h)' = Endpoints(h)
      BY <1>1, <1>2, <1>3, <1>4, <2>3 DEF Endpoints, Bound, RoomOf
    <3>2. race'[h] = race[h]
      BY <1>2, <2>3 DEF TypeOK
    <3> QED BY <3>1, <3>2 DEF RaceFollowsEndpoints, NoRaceIsOpen
  <2> QED BY <2>2, <2>3
<1>9. LockedRoomsAreUnlisted'
  <2>1. NewRace.access = "open"
    BY DEF NewRace, NoRace
  <2>2. \A h \in Gids : race'[h].access = "locked" => race[h].access = "locked"
    BY <1>2, <2>1 DEF TypeOK
  <2> QED BY <1>2, <2>2 DEF LockedRoomsAreUnlisted, Live
<1>10. ForcedStayOut'
  <2>1. client[u] # "forced"
    BY <1>1 DEF ForcedStayOut
  <2>2. \A h \in Gids, v \in Users : Member(h, v)' <=> Member(h, v)
    BY <1>2 DEF Member, Live
  <2>3. \A b \in Addrs : Bound(b)' => UserOf(b)' = u \/ (Bound(b) /\ UserOf(b)' = UserOf(b))
    BY <1>2, <1>4 DEF Bound, UserOf
  <2> QED BY <1>2, <2>1, <2>2, <2>3 DEF ForcedStayOut
<1>11. BoundRoomsExist'
  <2>1. rooms[g].status # "unused"
    BY <1>1 DEF Member, Live
  <2>2. \A b \in Addrs : Bound(b)' => RoomOf(b)' = g \/ (Bound(b) /\ RoomOf(b)' = RoomOf(b))
    BY <1>2, <1>4 DEF Bound, RoomOf
  <2> QED BY <1>2, <2>1, <2>2 DEF BoundRoomsExist
<1> QED BY <1>5, <1>6, <1>7, <1>8, <1>9, <1>10, <1>11

\* force_disconnect_user reaches every room and every endpoint of the player.
LEMMA ForceDisconnectStep ==
    ASSUME IInv, NEW u \in Users, ForceDisconnect(u)
    PROVE  IInv'
<1> DEFINE own == OwnEndpoints(u)
           affected == Affected(u)
           retired == {g \in affected :
                            ~Live(g) \/ u = rooms[g].owner \/ rooms[g].members = {u}}
           swept == own \union {a \in Addrs : Bound(a) /\ RoomOf(a) \in retired}
           opened == Reopened(swept)
           alone == {g \in affected :
                        \E a \in own : Endpoints(g) = {a} /\ wire[a].exit # "none"}
<1>1. /\ client' = [client EXCEPT ![u] = "forced"]
      /\ theater' = [theater EXCEPT ![u].invite = Unset]
      /\ DropEndpoints(swept, own) /\ Forget(retired \union alone)
      /\ rooms' = [g \in Gids |->
                        IF g \notin affected THEN opened[g]
                        ELSE IF g \in retired /\ Live(g) THEN Retired(opened[g])
                        ELSE LeftRoom(opened[g], u)]
  BY DEF ForceDisconnect
<1>2. TypeOK
  BY DEF IInv
<1>3. own \in SUBSET Addrs /\ swept \in SUBSET Addrs /\ own \subseteq swept
  BY DEF OwnEndpoints
<1>4. \A g \in Gids : Member(g, u) => g \in affected
  BY DEF Affected, Member
<1>5. \A a \in Addrs : Bound(a) /\ UserOf(a) = u => a \in own
  BY DEF OwnEndpoints
<1> HIDE DEF own, affected, retired, swept, alone
<1>6. ASSUME NEW g \in Gids
      PROVE  rooms'[g] \in Room /\ Follows(rooms[g], opened[g], rooms'[g])
  <2>1. rooms'[g] \in {opened[g], Retired(opened[g]), LeftRoom(opened[g], u)}
    BY <1>1
  <2>2. opened[g] \in Room
    BY <1>2, <1>3, ReopenedRoom
  <2> QED BY <1>2, <1>3, <2>1, <2>2, RoomsFollow
<1>7. rooms' \in [Gids -> Room]
  BY <1>1, <1>6
<1>8. AllFollow(swept)
  BY <1>6 DEF AllFollow
<1>9. /\ SeatsMirrorMembers' /\ IndexMatchesBindings' /\ RaceFollowsEndpoints'
      /\ LockedRoomsAreUnlisted' /\ NoRaceIsOpen' /\ BoundRoomsExist'
      /\ \A g \in Gids, v \in Users : Member(g, v)' => Member(g, v)
      /\ \A a \in Addrs : Bound(a)' => Bound(a) /\ UserOf(a)' = UserOf(a)
  BY <1>1, <1>3, <1>8, SweepKeeps
<1>10. TypeOK'
  <2>1. theater' \in [Users -> Connection]
    BY <1>1, <1>2 DEF TypeOK, Connection
  <2>2. client' \in [Users -> {"online", "gone", "forced"}]
    BY <1>1, <1>2 DEF TypeOK
  <2>3. reconnect' \subseteq Keys
    BY <1>1, <1>2, ForgetTypes
  <2> QED BY <1>1, <1>2, <1>3, <1>7, <2>1, <2>2, <2>3, DropTypes DEF TypeOK
<1>11. ASSUME NEW g \in Gids
       PROVE  ~Member(g, u)'
  <2> SUFFICES ASSUME Member(g, u)' PROVE FALSE
    OBVIOUS
  <2>1. g \in affected
    BY <1>4, <1>9
  <2>2. rooms'[g] \in {Retired(opened[g]), LeftRoom(opened[g], u)}
    BY <1>1, <2>1
  <2>3. opened[g] \in Room
    BY <1>2, <1>3, ReopenedRoom
  <2>4. rooms'[g].status = "live" => u \notin rooms'[g].members
    BY <2>2, <2>3, RetiredRoom, LeftRoomIsRoom
  <2> QED BY <2>4 DEF Member, Live
<1>12. ASSUME NEW a \in Addrs, Bound(a)'
       PROVE  UserOf(a)' # u
  <2>1. a \notin swept
    BY <1>1, <1>12 DEF DropEndpoints, Bound
  <2> QED BY <1>3, <1>5, <1>9, <1>12, <2>1
<1>13. ForcedStayOut'
  <2> SUFFICES ASSUME NEW v \in Users, client'[v] = "forced"
               PROVE  /\ \A g \in Gids : ~Member(g, v)'
                      /\ \A a \in Addrs : Bound(a)' => UserOf(a)' # v
    BY DEF ForcedStayOut
  <2>1. CASE v = u
    BY <1>11, <1>12, <2>1
  <2>2. CASE v # u
    <3>1. client[v] = "forced"
      BY <1>1, <1>2, <2>2 DEF TypeOK
    <3> QED BY <1>9, <3>1 DEF IInv, ForcedStayOut
  <2> QED BY <2>1, <2>2
<1> QED BY <1>9, <1>10, <1>13 DEF IInv

(***************************************************************************)
(* The theorems.                                                           *)
(***************************************************************************)

\* Every step keeps the invariant.
LEMMA NextIInv == IInv /\ [Next]_vars => IInv'
<1> SUFFICES ASSUME IInv, [Next]_vars PROVE IInv'
  OBVIOUS
<1>1. CASE \E u \in Users, g \in Gids, kind \in Kinds, c \in MinCapacity .. MaxCapacity :
              Create(u, g, kind, c)
  BY <1>1, CreateStep
<1>2. ASSUME NEW u \in Users, NEW g \in Gids, PreviewInvite(u, g)
      PROVE  IInv'
  <2>1. theater' \in [Users -> Connection]
    BY <1>2 DEF PreviewInvite, IInv, TypeOK, Connection
  <2> QED BY <1>2, <2>1, ConnectionStep DEF PreviewInvite
<1>3. CASE \E u \in Users, g \in Gids : EnterGame(u, g) \/ BeginLeave(u, g) \/ ExpireJoin(g, u)
  BY <1>3, EnterGameStep, BeginLeaveStep, ExpireJoinStep
<1>4. ASSUME NEW u \in Users, Disconnected(u)
      PROVE  IInv'
  <2>1. theater' \in [Users -> Connection]
    BY <1>4, ConstantsAssumption DEF Disconnected, IInv, TypeOK, NewConnection, Connection
  <2> QED BY <1>4, <2>1, ConnectionStep DEF Disconnected
<1>5. CASE \E u \in Users : FinishLeave(u) \/ Crash(u) \/ Return(u) \/ ForceDisconnect(u)
  BY <1>5, FinishLeaveStep, ClientStep, ForceDisconnectStep
<1>6. CASE \E a \in Addrs, g \in Gids, u \in Users : Bind(a, g, u)
  BY <1>6, BindStep
<1>7. CASE \E a \in Addrs : HangUp(a) \/ Redial(a) \/ PublishLeaves(a) \/ Drain(a)
  BY <1>7, HangUpStep, RedialStep, PublishLeavesStep, DrainStep
<1>8. CASE \E a \in Addrs : ExpireUnconfirmed(a) \/ ExpireOffline(a)
  BY <1>8, ExpireStep DEF ExpireUnconfirmed, ExpireOffline
<1>9. CASE \E g \in Gids : ExpireAllocation(g) \/ ExpireRace(g)
  BY <1>9, RetireRoomStep DEF ExpireAllocation, ExpireRace
<1>10. CASE \E g \in Gids :
               BeginCountdown(g) \/ StartLoading(g) \/ StartRacing(g) \/ FinishRace(g)
  <2>1. {"setup", "countdown", "loading", "racing", "finished"} \subseteq Phases \ {"none"}
    BY DEF Phases
  <2> QED BY <1>10, <2>1, AdvanceStep DEF BeginCountdown, StartLoading, StartRacing, FinishRace
<1>11. CASE \E g \in Gids :
               LockAccess(g) \/ ReadyControl(g) \/ ReadySeed(g) \/ NativeBundle(g) \/ ReopenRoom(g)
  BY <1>11, LockAccessStep, ReadyControlStep, ReadySeedStep, NativeBundleStep, ReopenRoomStep
<1>12. CASE \E g \in Gids, c \in MinCapacity .. MaxCapacity : SetCapacity(g, c)
  BY <1>12, SetCapacityStep
<1>13. CASE UNCHANGED vars
  <2>1. UNCHANGED <<rooms, client, transport>> /\ UNCHANGED theater
    BY <1>13 DEF vars, directory
  <2>2. theater' \in [Users -> Connection]
    BY <2>1 DEF IInv, TypeOK
  <2> QED BY <2>1, <2>2, ConnectionStep
<1> QED BY <1>1, <1>2, <1>3, <1>4, <1>5, <1>6, <1>7, <1>8, <1>9, <1>10, <1>11, <1>12, <1>13
    DEF Next

\* The invariant holds in every reachable state.
THEOREM RoomsIInv == Spec => []IInv
<1>1. Init => IInv
  BY InitIInv
<1>2. IInv /\ [Next]_vars => IInv'
  BY NextIInv
<1> QED BY <1>1, <1>2, PTL DEF Spec

\* Every variable keeps its type.
THEOREM RoomsTypeCorrect == Spec => []TypeOK
<1>1. IInv => TypeOK
  BY DEF IInv
<1> QED BY <1>1, RoomsIInv, PTL

\* The session of a room seats its participants, and no path forgets one of the lists.
THEOREM RoomsSeatsMirror == Spec => []SeatsMirrorMembers
<1>1. IInv => SeatsMirrorMembers
  BY DEF IInv
<1> QED BY <1>1, RoomsIInv, PTL

\* The two maps between players and endpoints are inverse of each other.
THEOREM RoomsIndexMatches == Spec => []IndexMatchesBindings
<1>1. IInv => IndexMatchesBindings
  BY DEF IInv
<1> QED BY <1>1, RoomsIInv, PTL

\* A room has race state exactly as long as it has endpoints.
THEOREM RoomsRaceFollows == Spec => []RaceFollowsEndpoints
<1>1. IInv => RaceFollowsEndpoints
  BY DEF IInv
<1> QED BY <1>1, RoomsIInv, PTL

\* PlayNow does not list a room whose race has locked its access.
THEOREM RoomsLockedUnlisted == Spec => []LockedRoomsAreUnlisted
<1>1. IInv => LockedRoomsAreUnlisted
  BY DEF IInv
<1> QED BY <1>1, RoomsIInv, PTL

\* A player put out by the account policy is in no room and has no endpoint.
THEOREM RoomsForcedStayOut == Spec => []ForcedStayOut
<1>1. IInv => ForcedStayOut
  BY DEF IInv
<1> QED BY <1>1, RoomsIInv, PTL

(***************************************************************************)
(* Who comes in: only create, enter and set_authoritative_capacity make a  *)
(* room fuller or wider.                                                   *)
(***************************************************************************)

\* What any other step makes of the room r.
Shrinks(r, s) ==
    s.status = "live" =>
        /\ r.status = "live" /\ s.members \subseteq r.members
        /\ s.kind = r.kind /\ s.owner = r.owner /\ s.capacity = r.capacity

NobodyEnters == \A g \in Gids : Shrinks(rooms[g], rooms'[g])

\* Leaving, moving out, retiring and the gate make no room fuller.
LEMMA RoomsShrink ==
    ASSUME NEW r \in Room
    PROVE  /\ Shrinks(r, r) /\ Shrinks(r, Retired(r)) /\ Shrinks(r, LockedGate(r))
           /\ \A u : Shrinks(r, LeftRoom(r, u)) /\ Shrinks(r, MovedOut(r, u))
           /\ \A b \in BOOLEAN : Shrinks(r, Readied(r, b))
<1>1. Shrinks(r, r) /\ Shrinks(r, Retired(r))
  BY DEF Shrinks, Retired
<1>2. ASSUME NEW u PROVE Shrinks(r, LeftRoom(r, u)) /\ Shrinks(r, MovedOut(r, u))
  <2>1. Shrinks(r, [r EXCEPT !.members = @ \ {u}, !.seats = @ \ {u}])
    BY DEF Shrinks, Room
  <2> QED BY <1>1, <2>1 DEF LeftRoom, MovedOut
<1>3. Shrinks(r, LockedGate(r))
  BY DEF Shrinks, LockedGate, Room
<1>4. \A b \in BOOLEAN : Shrinks(r, Readied(r, b))
  BY DEF Shrinks, Readied, Room
<1> QED BY <1>1, <1>2, <1>3, <1>4

\* The same of rooms that drop_endpoint has reopened.
LEMMA ReopenedShrink ==
    ASSUME TypeOK, NEW D \in SUBSET Addrs, NEW g \in Gids, NEW u \in Users
    PROVE  /\ Shrinks(rooms[g], Reopened(D)[g])
           /\ Shrinks(rooms[g], LeftRoom(Reopened(D)[g], u))
           /\ Shrinks(rooms[g], Retired(Reopened(D)[g]))
           /\ Shrinks(rooms[g], LeftIn(Reopened(D), g, u)[g])
           /\ \A h \in Gids : Shrinks(rooms[h], LeftIn(Reopened(D), g, u)[h])
<1>1. \A h \in Gids : rooms[h] \in Room /\ Reopened(D)[h] \in Room
  BY ReopenedRoom DEF TypeOK
<1>2. \A h \in Gids : Shrinks(rooms[h], Reopened(D)[h])
  <2> SUFFICES ASSUME NEW h \in Gids PROVE Shrinks(rooms[h], Reopened(D)[h])
    OBVIOUS
  <2>1. Reopened(D)[h] \in {rooms[h], Readied(rooms[h], FALSE)}
    BY DEF Reopened
  <2> QED BY <1>1, <2>1, RoomsShrink
<1>3. \A h \in Gids : /\ Shrinks(Reopened(D)[h], LeftRoom(Reopened(D)[h], u))
                      /\ Shrinks(Reopened(D)[h], Retired(Reopened(D)[h]))
  BY <1>1, RoomsShrink
<1>4. \A h \in Gids : /\ Shrinks(rooms[h], LeftRoom(Reopened(D)[h], u))
                      /\ Shrinks(rooms[h], Retired(Reopened(D)[h]))
  BY <1>2, <1>3 DEF Shrinks
<1>5. \A h \in Gids : LeftIn(Reopened(D), g, u)[h] \in {Reopened(D)[h], LeftRoom(Reopened(D)[h], u)}
  BY DEF LeftIn, Reopened
<1> QED BY <1>2, <1>4, <1>5

\* Every step but the three lets nobody in.
LEMMA WhoComesIn ==
    ASSUME TypeOK, Next
    PROVE  \/ NobodyEnters
           \/ \E u \in Users, g \in Gids, kind \in Kinds, c \in MinCapacity .. MaxCapacity :
                 Create(u, g, kind, c)
           \/ \E u \in Users, g \in Gids : EnterGame(u, g)
           \/ \E g \in Gids, c \in MinCapacity .. MaxCapacity : SetCapacity(g, c)
<1>0. \A g \in Gids : rooms[g] \in Room
  BY DEF TypeOK
<1>1. ASSUME UNCHANGED rooms PROVE NobodyEnters
  BY <1>0, <1>1, RoomsShrink DEF NobodyEnters, Shrinks
<1>2. ASSUME NEW u \in Users, NEW g \in Gids, rooms' = LeftIn(rooms, g, u)
      PROVE  NobodyEnters
  <2>1. \A h \in Gids : rooms'[h] \in {rooms[h], LeftRoom(rooms[h], u)}
    BY <1>2 DEF LeftIn, TypeOK
  <2> QED BY <1>0, <2>1, RoomsShrink DEF NobodyEnters
<1>3. ASSUME NEW D \in SUBSET Addrs, NEW a \in Addrs, Bound(a),
             rooms' = Reopened(D) \/ rooms' = LeftIn(Reopened(D), RoomOf(a), UserOf(a))
      PROVE  NobodyEnters
  BY <1>3, BoundTypes, ReopenedShrink DEF NobodyEnters
<1>4. ASSUME NEW g \in Gids, NEW r \in Room, Gate(g, r), Shrinks(rooms[g], r)
      PROVE  NobodyEnters
  <2>1. \A h \in Gids : rooms'[h] = rooms[h] \/ (h = g /\ rooms'[h] = r)
    BY <1>4 DEF Gate, TypeOK
  <2> QED BY <1>0, <1>4, <2>1, RoomsShrink DEF NobodyEnters, Shrinks
<1>5. ASSUME NEW u \in Users, NEW g \in Gids, BeginLeave(u, g)
      PROVE  NobodyEnters
  <2>1. \/ UNCHANGED rooms
        \/ index[<<g, u>>] # Unset /\ rooms' = Reopened({index[<<g, u>>]})
    BY <1>5 DEF BeginLeave
  <2>2. index[<<g, u>>] # Unset => index[<<g, u>>] \in Addrs
    BY DEF TypeOK, Keys
  <2> QED BY <1>1, <2>1, <2>2, ReopenedShrink DEF NobodyEnters
<1>6. ASSUME NEW u \in Users, FinishLeave(u)
      PROVE  NobodyEnters
  BY <1>2, <1>6 DEF FinishLeave, TypeOK, Connection
<1>7. ASSUME NEW a \in Addrs,
             HangUp(a) \/ Redial(a) \/ Drain(a) \/ ExpireUnconfirmed(a) \/ ExpireOffline(a)
      PROVE  NobodyEnters
  BY <1>3, <1>7 DEF HangUp, Redial, Drain, ExpireUnconfirmed, ExpireOffline, Expire
<1>8. ASSUME NEW g \in Gids, ExpireAllocation(g) \/ ExpireRace(g)
      PROVE  NobodyEnters
  <2>1. rooms' = RetiredIn(rooms, {g})
    BY <1>8 DEF ExpireAllocation, ExpireRace, RetireRoom
  <2>2. \A h \in Gids : rooms'[h] \in {rooms[h], Retired(rooms[h])}
    BY <2>1 DEF RetiredIn
  <2> QED BY <1>0, <2>2, RoomsShrink DEF NobodyEnters, Shrinks, Retired
<1>9. ASSUME NEW g \in Gids,
             LockAccess(g) \/ ReadyControl(g) \/ ReadySeed(g) \/ NativeBundle(g) \/ ReopenRoom(g)
      PROVE  NobodyEnters
  <2> DEFINE r == rooms[g]
  <2>1. /\ LockedGate(r) \in Room /\ Shrinks(r, LockedGate(r))
        /\ \A b \in BOOLEAN : Readied(r, b) \in Room /\ Shrinks(r, Readied(r, b))
    BY <1>0, ReadiedRoom, LockedGateRoom, RoomsShrink
  <2>2. CASE LockAccess(g) \/ NativeBundle(g)
    BY <1>4, <2>1, <2>2 DEF LockAccess, NativeBundle
  <2>3. CASE ReopenRoom(g)
    BY <1>4, <2>1, <2>3 DEF ReopenRoom
  <2>4. CASE ReadyControl(g)
    <3>1. Gate(g, Readied(r, TRUE))
      BY <2>4 DEF ReadyControl, Gate
    <3> QED BY <1>4, <2>1, <3>1
  <2>5. CASE ReadySeed(g)
    <3>1. \E b \in BOOLEAN : Gate(g, Readied(r, b))
      BY <2>5 DEF ReadySeed
    <3> QED BY <1>4, <2>1, <3>1
  <2> QED BY <1>9, <2>2, <2>3, <2>4, <2>5
<1>10. ASSUME NEW u \in Users, ForceDisconnect(u)
       PROVE  NobodyEnters
  <2> DEFINE own == OwnEndpoints(u)
             retired == {g \in Affected(u) :
                            ~Live(g) \/ u = rooms[g].owner \/ rooms[g].members = {u}}
             swept == own \union {a \in Addrs : Bound(a) /\ RoomOf(a) \in retired}
             opened == Reopened(swept)
  <2>1. \A g \in Gids : rooms'[g] \in {opened[g], Retired(opened[g]), LeftRoom(opened[g], u)}
    BY <1>10 DEF ForceDisconnect
  <2>2. swept \in SUBSET Addrs
    BY DEF OwnEndpoints
  <2> HIDE DEF swept
  <2> QED BY <2>1, <2>2, ReopenedShrink DEF NobodyEnters
<1>11. ASSUME NEW u \in Users, NEW g \in Gids, PreviewInvite(u, g) \/ ExpireJoin(g, u)
       PROVE  NobodyEnters
  BY <1>1, <1>2, <1>11 DEF PreviewInvite, ExpireJoin
<1>12. ASSUME NEW u \in Users, Disconnected(u) \/ Crash(u) \/ Return(u)
       PROVE  NobodyEnters
  BY <1>1, <1>12 DEF Disconnected, Crash, Return
<1>13. ASSUME NEW a \in Addrs, NEW g \in Gids, NEW u \in Users, Bind(a, g, u)
       PROVE  NobodyEnters
  BY <1>1, <1>13 DEF Bind, directory
<1>14. ASSUME NEW a \in Addrs, PublishLeaves(a)
       PROVE  NobodyEnters
  BY <1>1, <1>14 DEF PublishLeaves, directory
<1>15. ASSUME NEW g \in Gids,
              BeginCountdown(g) \/ StartLoading(g) \/ StartRacing(g) \/ FinishRace(g)
       PROVE  NobodyEnters
  BY <1>1, <1>15 DEF BeginCountdown, StartLoading, StartRacing, FinishRace, Advance, directory
<1> HIDE DEF NobodyEnters
<1> QED BY <1>5, <1>6, <1>7, <1>8, <1>9, <1>10, <1>11, <1>12, <1>13, <1>14, <1>15 DEF Next

\* The players of a room that its capacity counts.
Counted(r) == IF r.kind = "client" THEN r.members \ {r.owner} ELSE r.members

Fits(r) == r.status = "live" => Cardinality(Counted(r)) <= r.capacity

\* A set of players that grows by one player at most counts at most one more.
LEMMA CountOfPlayers ==
    ASSUME NEW S \in SUBSET Users, NEW T \in SUBSET S
    PROVE  /\ Cardinality(S) \in Nat /\ Cardinality(T) <= Cardinality(S)
           /\ IsFiniteSet(S)
           /\ \A u : Cardinality(S \union {u}) <= Cardinality(S) + 1
<1>1. IsFiniteSet(S)
  BY FS_Subset, ConstantsAssumption
<1>2. Cardinality(S) \in Nat /\ Cardinality(T) <= Cardinality(S)
  BY <1>1, FS_CardinalityType, FS_Subset
<1>3. \A u : Cardinality(S \union {u}) <= Cardinality(S) + 1
  BY <1>1, <1>2, FS_AddElement
<1> QED BY <1>1, <1>2, <1>3

\* A room that shrinks still fits.
LEMMA ShrunkFits ==
    ASSUME NEW r \in Room, NEW s \in Room, Shrinks(r, s), Fits(r)
    PROVE  Fits(s)
<1> SUFFICES ASSUME s.status = "live" PROVE Cardinality(Counted(s)) <= s.capacity
  BY DEF Fits
<1>1. /\ r.status = "live" /\ Counted(s) \subseteq Counted(r) /\ s.capacity = r.capacity
      /\ Counted(r) \in SUBSET Users
  BY DEF Shrinks, Counted, Room
<1>2. Cardinality(Counted(s)) \in Nat /\ Cardinality(Counted(s)) <= Cardinality(Counted(r))
      /\ Cardinality(Counted(r)) \in Nat
  BY <1>1, CountOfPlayers
<1>3. r.capacity \in Nat
  BY ConstantsAssumption DEF Room
<1> QED BY <1>1, <1>2, <1>3 DEF Fits

\* can_join lets a player in where there is a seat, the host of a client's room apart.
LEMMA SeatedFits ==
    ASSUME NEW r \in Room, NEW u \in Users, r.seats = r.members, CanJoin(r, u), Fits(r)
    PROVE  Fits(Seated(r, u))
<1> SUFFICES ASSUME r.status = "live" PROVE Cardinality(Counted(Seated(r, u))) <= r.capacity
  BY DEF Fits, Seated, Room
<1>1. Counted(Seated(r, u)) \subseteq Counted(r) \union {u} /\ Counted(r) \in SUBSET r.members
  BY SeatedRoom DEF Counted
<1>2. r.members \in SUBSET Users /\ r.capacity \in Nat
  BY ConstantsAssumption DEF Room
<1>3. CASE u \in r.seats \/ (r.kind = "client" /\ u = r.owner)
  <2>1. /\ Seated(r, u).members = r.members \union {u}
        /\ Seated(r, u).kind = r.kind /\ Seated(r, u).owner = r.owner
    BY SeatedRoom
  <2>2. CASE u \in r.seats
    BY <2>1, <2>2 DEF Counted, Fits
  <2>3. CASE r.kind = "client" /\ u = r.owner
    <3>1. Counted(Seated(r, u)) = (r.members \union {u}) \ {u} /\ Counted(r) = r.members \ {u}
      BY <2>1, <2>3 DEF Counted
    <3> QED BY <3>1 DEF Fits
  <2> QED BY <1>3, <2>2, <2>3
<1>4. CASE Cardinality(r.seats) < r.capacity
  <2>1. Counted(Seated(r, u)) \subseteq r.members \union {u} /\ r.members \union {u} \in SUBSET Users
    BY <1>1, <1>2
  <2>2. Cardinality(Counted(Seated(r, u))) <= Cardinality(r.members \union {u})
    BY <2>1, CountOfPlayers
  <2>3. Cardinality(r.members \union {u}) <= Cardinality(r.members) + 1
    BY <1>2, CountOfPlayers
  <2>4. /\ Cardinality(r.members) \in Nat /\ Cardinality(r.members \union {u}) \in Nat
        /\ Cardinality(Counted(Seated(r, u))) \in Nat
    BY <1>2, <2>1, CountOfPlayers
  <2> QED BY <1>2, <1>4, <2>2, <2>3, <2>4
<1> QED BY <1>3, <1>4 DEF CanJoin

\* Whatever a step does, a room that fits goes on fitting.
LEMMA CapacityKept == IInv /\ CapacityHolds /\ [Next]_vars => CapacityHolds'
<1> SUFFICES ASSUME IInv, CapacityHolds, [Next]_vars, NEW g \in Gids
             PROVE  Fits(rooms'[g])
  BY DEF CapacityHolds, Fits, Counted, Live
<1>1. /\ rooms[g] \in Room /\ rooms[g].seats = rooms[g].members /\ Fits(rooms[g])
  BY RoomFacts DEF CapacityHolds, Fits, Counted, Live
<1>2. rooms' \in [Gids -> Room]
  BY NextIInv DEF IInv, TypeOK
<1>3. CASE NobodyEnters
  BY <1>1, <1>2, <1>3, ShrunkFits DEF NobodyEnters
<1>4. ASSUME NEW u \in Users, NEW h \in Gids, NEW kind \in Kinds,
             NEW c \in MinCapacity .. MaxCapacity, Create(u, h, kind, c)
      PROVE  Fits(rooms'[g])
  <2>1. CASE g # h
    BY <1>1, <1>4, <2>1 DEF Create, IInv, TypeOK
  <2>2. CASE g = h
    <3>1. Counted(rooms'[g]) = {} /\ rooms'[g].capacity = c
      BY <1>4, <2>2 DEF Create, IInv, TypeOK, Counted
    <3>2. Cardinality({}) = 0 /\ c \in Nat
      BY FS_EmptySet, ConstantsAssumption
    <3> QED BY <3>1, <3>2 DEF Fits
  <2> QED BY <2>1, <2>2
<1>5. ASSUME NEW u \in Users, NEW h \in Gids, EnterGame(u, h)
      PROVE  Fits(rooms'[g])
  <2>1. \/ rooms'[g] = MovedOut(rooms[g], u) \/ rooms'[g] = rooms[g]
        \/ rooms'[g] = Seated(rooms[g], u) /\ CanJoin(rooms[g], u)
    BY <1>5 DEF EnterGame, EnteredRooms
  <2> QED BY <1>1, <1>2, <2>1, RoomsShrink, ShrunkFits, SeatedFits
<1>6. ASSUME NEW h \in Gids, NEW c \in MinCapacity .. MaxCapacity, SetCapacity(h, c)
      PROVE  Fits(rooms'[g])
  <2>1. CASE g # h
    BY <1>1, <1>6, <2>1 DEF SetCapacity, IInv, TypeOK
  <2>2. CASE g = h
    <3>1. /\ rooms'[g] = [rooms[g] EXCEPT !.capacity = Applied(g, c)]
          /\ rooms[g].kind = "challenge" /\ Applied(g, c) >= Cardinality(rooms[g].seats)
      BY <1>6, <2>2 DEF SetCapacity, IInv, TypeOK
    <3>2. Counted(rooms'[g]) = rooms[g].members /\ rooms'[g].capacity = Applied(g, c)
      BY <1>1, <3>1 DEF Counted, Room
    <3> QED BY <1>1, <3>1, <3>2 DEF Fits
  <2> QED BY <2>1, <2>2
<1>7. CASE UNCHANGED vars
  BY <1>1, <1>7 DEF vars, directory
<1> QED BY <1>3, <1>4, <1>5, <1>6, <1>7, WhoComesIn DEF IInv

\* Entering a room, a player leaves every other.
LEMMA EnteringLeavesTheOthers ==
    ASSUME TypeOK, NEW u \in Users, NEW g \in Gids, EnterGame(u, g)
    PROVE  /\ \A h \in Gids : Member(h, u)' => h = g
           /\ \A h \in Gids, v \in Users \ {u} : Member(h, v)' => Member(h, v)
           /\ \A h \in Gids : rooms'[h].kind = rooms[h].kind /\ rooms'[h].owner = rooms[h].owner
<1>1. \A h \in Gids :
         /\ rooms[h] \in Room
         /\ h # g => rooms'[h] = MovedOut(rooms[h], u)
         /\ rooms'[h] \in {MovedOut(rooms[h], u), rooms[h], Seated(rooms[h], u)}
  BY DEF EnterGame, EnteredRooms, TypeOK
<1>2. ASSUME NEW r \in Room
      PROVE  MovedOut(r, u).status = "live" => u \notin MovedOut(r, u).members
  BY RetiredRoom DEF MovedOut, Room
<1>3. \A h \in Gids : h # g => ~Member(h, u)'
  BY <1>1, <1>2 DEF Member, Live
<1>4. \A h \in Gids : /\ rooms'[h].kind = rooms[h].kind /\ rooms'[h].owner = rooms[h].owner
                      /\ rooms'[h].status = "live" => rooms[h].status = "live"
                      /\ rooms'[h].members \subseteq rooms[h].members \union {u}
  BY <1>1, MovedOutIsRoom, SeatedRoom
<1> QED BY <1>3, <1>4 DEF Member, Live

\* Whatever a step does, nobody is in two rooms but for its own.
LEMMA OneRoomKept == IInv /\ OneEnteredRoom /\ [Next]_vars => OneEnteredRoom'
<1> SUFFICES ASSUME IInv, OneEnteredRoom, [Next]_vars, NEW v \in Users,
                    NEW x \in Gids, NEW y \in Gids, x # y, Member(x, v)', Member(y, v)'
             PROVE  \E own \in {x, y} : rooms'[own].kind = "client" /\ rooms'[own].owner = v
  BY DEF OneEnteredRoom
<1> DEFINE Owns(r) == r.kind = "client" /\ r.owner = v
<1>1. Member(x, v) /\ Member(y, v) => \E own \in {x, y} : Owns(rooms[own])
  BY DEF OneEnteredRoom
<1>2. rooms'[x].status = "live" /\ v \in rooms'[x].members
      /\ rooms'[y].status = "live" /\ v \in rooms'[y].members
  BY DEF Member, Live
<1>3. ASSUME \A z \in {x, y} : Shrinks(rooms[z], rooms'[z])
      PROVE  \E own \in {x, y} : Owns(rooms'[own])
  <2>1. \A z \in {x, y} : Member(z, v) /\ (Owns(rooms[z]) => Owns(rooms'[z]))
    BY <1>2, <1>3 DEF Shrinks, Member, Live
  <2> QED BY <1>1, <2>1
<1>4. CASE NobodyEnters
  BY <1>3, <1>4 DEF NobodyEnters
<1>5. ASSUME NEW u \in Users, NEW g \in Gids, NEW kind \in Kinds,
             NEW c \in MinCapacity .. MaxCapacity, Create(u, g, kind, c)
      PROVE  \E own \in {x, y} : Owns(rooms'[own])
  <2>1. CASE g \notin {x, y}
    <3>1. rooms'[x] = rooms[x] /\ rooms'[y] = rooms[y]
      BY <1>5, <2>1 DEF Create, IInv, TypeOK
    <3> QED BY <1>3, <3>1, RoomFacts, RoomsShrink
  <2>2. CASE g \in {x, y}
    <3>1. /\ rooms'[g].members = (IF kind = "client" THEN {u} ELSE {})
          /\ rooms'[g].kind = kind /\ rooms'[g].owner = u
      BY <1>5 DEF Create, IInv, TypeOK
    <3>2. v \in rooms'[g].members
      BY <1>2, <2>2
    <3> QED BY <2>2, <3>1, <3>2
  <2> QED BY <2>1, <2>2
<1>6. ASSUME NEW u \in Users, NEW g \in Gids, EnterGame(u, g)
      PROVE  \E own \in {x, y} : Owns(rooms'[own])
  <2>1. v # u
    BY <1>6, EnteringLeavesTheOthers DEF IInv
  <2>2. Member(x, v) /\ Member(y, v) /\ \A z \in {x, y} : Owns(rooms[z]) => Owns(rooms'[z])
    BY <1>6, <2>1, EnteringLeavesTheOthers DEF IInv
  <2> QED BY <1>1, <2>2
<1>7. ASSUME NEW g \in Gids, NEW c \in MinCapacity .. MaxCapacity, SetCapacity(g, c)
      PROVE  \E own \in {x, y} : Owns(rooms'[own])
  <2>1. \A z \in {x, y} : rooms'[z] = rooms[z] \/ rooms'[z] = [rooms[z] EXCEPT !.capacity = Applied(g, c)]
    BY <1>7 DEF SetCapacity, IInv, TypeOK
  <2>2. \A z \in {x, y} : /\ rooms'[z].status = rooms[z].status
                          /\ rooms'[z].members = rooms[z].members
                          /\ rooms'[z].kind = rooms[z].kind /\ rooms'[z].owner = rooms[z].owner
    BY <2>1, RoomFacts DEF Room
  <2> QED BY <1>1, <1>2, <2>2 DEF Member, Live
<1>8. CASE UNCHANGED vars
  BY <1>3, <1>8, RoomFacts, RoomsShrink DEF vars, directory
<1> QED BY <1>4, <1>5, <1>6, <1>7, <1>8, WhoComesIn DEF IInv

\* No room is ever filled past its capacity, whatever is resized, left and entered.
THEOREM RoomsCapacityHolds == Spec => []CapacityHolds
<1>1. Init => CapacityHolds
  BY DEF Init, CapacityHolds, Live, NoRoom
<1>2. IInv /\ CapacityHolds /\ [Next]_vars => CapacityHolds'
  BY CapacityKept
<1> QED BY <1>1, <1>2, RoomsIInv, PTL DEF Spec

\* Nobody is in two rooms, but for the host of a client's room.
THEOREM RoomsOneEntered == Spec => []OneEnteredRoom
<1>1. Init => OneEnteredRoom
  BY DEF Init, OneEnteredRoom, Member, Live, NoRoom
<1>2. IInv /\ OneEnteredRoom /\ [Next]_vars => OneEnteredRoom'
  BY OneRoomKept
<1> QED BY <1>1, <1>2, RoomsIInv, PTL DEF Spec
=============================================================================
