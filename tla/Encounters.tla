---------------------------- MODULE Encounters ----------------------------
(***************************************************************************)
(* Who is in whose room: the transient game sessions of SocialService, the *)
(* Player List that is published from them, and RecentPlayers, the durable *)
(* list of the players somebody met.                                       *)
(*                                                                         *)
(* The thread of a connection changes its membership under the lock of the *)
(* service, which is also when it computes whom to tell; it tells them     *)
(* after it has let the lock go.  The classic games list the players of    *)
(* the present room only; Carbon keeps them listed, from the recent ones.  *)
(***************************************************************************)
EXTENDS Integers, FiniteSets

CONSTANTS
    Personas,    \* persona ids, naturals; each has one connection
    Carbon,      \* the personas that play Carbon; the others play one classic game
    Sessions,
    Capacity,    \* players that fit in a room
    Limit,       \* RecentPlayers.LIMIT
    None

\* Assumed where the module is instantiated.
RoomsFitAssumption ==
    /\ Personas \subseteq Nat /\ IsFiniteSet(Personas)
    /\ Carbon \subseteq Personas
    /\ Capacity \in Nat /\ Limit \in Nat /\ Capacity - 1 <= Limit

VARIABLES
    online,     \* personas registered in the lobby
    session,    \* _session_by_connection
    control,    \* personas with a control sender
    shown,      \* the transient players a game lists
    job,        \* what the thread of a persona has still to publish
    recent,     \* recent_players: everybody's place in a persona's list; 0 is not in it
    past        \* the personas whose list a concurrent change may have spoilt

vars == <<online, session, control, shown, job, recent, past>>

Quiet == [drop |-> {}, add |-> {}]

SameGame(p, q) == (p \in Carbon) <=> (q \in Carbon)

\* The members of the room s of the game that p plays.
Members(p, s) == {q \in Personas : session[q] = s /\ SameGame(p, q) /\ s # None}

Roommates(p) == Members(p, session[p]) \ {p}

\* <<who is told, about whom>>, for p and the others in room s.
DirectoryTargets(p, s) == ((Members(p, s) \ {p}) \intersect control) \X {p}

PlayerRows(p, s) == {p} \X ((Members(p, s) \ {p}) \intersect online)

Told(p, s) == DirectoryTargets(p, s) \union PlayerRows(p, s)

\* The list of q after it met everybody in the room just now: ordered by the time of
\* the last meeting, then by id, and cut at Limit.
Listed(q, room) == (room \ {q}) \union {x \in Personas : recent[q][x] # 0}

Before(q, room, y, x) ==
    \/ y \in room /\ (x \in room => y < x)
    \/ {x, y} \intersect room = {} /\ recent[q][y] < recent[q][x]

Place(q, room, x) == 1 + Cardinality({y \in Listed(q, room) : Before(q, room, y, x)})

\* RecentPlayers.record: everybody in the room has met everybody else.
Recorded(room) ==
    [q \in Personas |->
        IF q \in room
        THEN [x \in Personas |->
                 IF x \in Listed(q, room) /\ Place(q, room, x) <= Limit
                 THEN Place(q, room, x) ELSE 0]
        ELSE recent[q]]
-----------------------------------------------------------------------------
Init ==
    /\ online = {} /\ control = {}
    /\ session = [p \in Personas |-> None]
    /\ shown = [p \in Personas |-> {}]
    /\ job = [p \in Personas |-> Quiet]
    /\ recent = [p \in Personas |-> [q \in Personas |-> 0]]
    /\ past = {}

Idle(p) == job[p] = Quiet

\* A publication about p, or to it, is under way.
Pending(p) == \E r, q \in Personas : {<<p, q>>, <<q, p>>} \intersect (job[r].drop \union job[r].add) # {}

\* Whom a change of p from its room to s concerns.
Concerned(p, s) == {p} \union {q \in Personas : SameGame(p, q) /\ session[q] \in {session[p], s} \ {None}}

\* set_game_session; s = None is clear_game_session.
SetGameSession(p, s) ==
    /\ session' = [session EXCEPT ![p] = s]
    /\ job' = [job EXCEPT ![p] =
                  [drop |-> IF p \in Carbon \/ session[p] = None THEN {} ELSE Told(p, session[p]),
                   add |-> IF s = None THEN {} ELSE Told(p, s)]]
    /\ recent' = IF p \in Carbon /\ s # None /\ Members(p, s) # {}
                 THEN Recorded(Members(p, s) \union {p}) ELSE recent
    /\ past' = IF \E q \in Concerned(p, s) : Pending(q)
                THEN past \union Concerned(p, s) ELSE past

RegisterLobby(p) ==
    /\ p \notin online /\ Idle(p)
    /\ online' = online \union {p}
    /\ UNCHANGED <<session, control, shown, job, recent, past>>

Moves(p, s) ==
    /\ p \in online /\ Idle(p)
    /\ s # session[p]
    /\ s # None => Cardinality(Members(p, s)) < Capacity
    /\ SetGameSession(p, s)
    /\ UNCHANGED <<online, control, shown>>

\* The lines to the viewers are published one game after the other: first what left.
PublishRemovals(p) ==
    /\ job[p].drop # {}
    /\ shown' = [v \in Personas |->
                    IF v \in control THEN shown[v] \ {q \in Personas : <<v, q>> \in job[p].drop}
                    ELSE shown[v]]
    /\ job' = [job EXCEPT ![p].drop = {}]
    /\ UNCHANGED <<online, session, control, recent, past>>

PublishAdditions(p) ==
    /\ job[p].drop = {} /\ job[p].add # {}
    /\ shown' = [v \in Personas |->
                    IF v \in control THEN shown[v] \union {q \in Personas : <<v, q>> \in job[p].add}
                    ELSE shown[v]]
    /\ job' = [job EXCEPT ![p].add = {}]
    /\ UNCHANGED <<online, session, control, recent, past>>

\* What a roster request answers: game_player_snapshot, or recent_player_snapshot.
RecentRoster(p) == {q \in Personas : recent[p][q] # 0}

Roster(p) == IF p \in Carbon THEN RecentRoster(p) ELSE Roommates(p) \intersect online

\* The Messenger connection of a game; the game asks for the roster at once.
ControlOpens(p) ==
    /\ p \in online \ control
    /\ control' = control \union {p}
    /\ shown' = [shown EXCEPT ![p] = Roster(p)]
    /\ past' = IF Pending(p) THEN past \union {p} ELSE past
    /\ UNCHANGED <<online, session, job, recent>>

ControlCloses(p) ==
    /\ p \in control
    /\ control' = control \ {p}
    /\ shown' = [shown EXCEPT ![p] = {}]
    /\ past' = past \ {p}
    /\ UNCHANGED <<online, session, job, recent>>

\* unregister_lobby; clear_game_session has been called before.
UnregisterLobby(p) ==
    /\ p \in online \ control /\ Idle(p) /\ session[p] = None
    /\ online' = online \ {p}
    /\ UNCHANGED <<session, control, shown, job, recent, past>>

Next ==
    \E p \in Personas :
        \/ RegisterLobby(p)
        \/ \E s \in Sessions \union {None} : Moves(p, s)
        \/ PublishRemovals(p) \/ PublishAdditions(p)
        \/ ControlOpens(p) \/ ControlCloses(p)
        \/ UnregisterLobby(p)

Spec == Init /\ [][Next]_vars
-----------------------------------------------------------------------------
\* The variables have their types, and only a registered persona is in a room.
TypeOK ==
    /\ online \subseteq Personas /\ control \subseteq Personas /\ past \subseteq Personas
    /\ session \in [Personas -> Sessions \union {None}]
    /\ shown \in [Personas -> SUBSET Personas]
    /\ job \in [Personas -> [drop : SUBSET (Personas \X Personas), add : SUBSET (Personas \X Personas)]]
    /\ recent \in [Personas -> [Personas -> 0..Limit]]
    /\ \A p \in Personas :
          /\ p \notin shown[p] /\ recent[p][p] = 0
          /\ session[p] # None => p \in online

\* A game that lists its room lists the players who are in it and nobody else, once
\* nothing is left to publish and unless two changes overlapped
\* (social.py:478-551, 677-689).
PlayerListsAreCurrent ==
    \A p \in control \ Carbon :
        (p \notin past /\ \A q \in Personas : Idle(q)) => shown[p] = Roommates(p)

\* Who shares a room with a Carbon player is among its recent players, and is listed
\* there as the one met last, however long the list was (recent_players.py:34-68).
RoommatesAreRemembered ==
    \A p \in Carbon : Roommates(p) \subseteq RecentRoster(p)

\* The invariants of the lists together.
RoomsAreRemembered == PlayerListsAreCurrent /\ RoommatesAreRemembered
=============================================================================
