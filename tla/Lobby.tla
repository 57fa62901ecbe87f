-------------------------------- MODULE Lobby --------------------------------
(***************************************************************************)
(* The classic lobby, src/server/classic/lobby and classic/ea/directory.py *)
(* : games, usersets and the connections of the players, for Most Wanted   *)
(* (mw) and Underground 2.                                                 *)
(*                                                                         *)
(* A handler runs on the thread of its connection, one at a time; handlers *)
(* of different connections interleave.  Two things a handler does outlast *)
(* its step: a Most Wanted join waits for the join slot of its game        *)
(* (asking), and an action that runs only after the reply was written      *)
(* waits in job.  Frames, names, auxiliary texts, settings and the rooms   *)
(* of Underground 2 are left out.                                          *)
(***************************************************************************)
EXTENDS Integers, Sequences, FiniteSets, SequencesExt

CONSTANTS
    None,       \* no value
    Users,      \* the players
    Hosts,      \* the players who create games and usersets
    Capacity,   \* of a game and of a userset
    MinPlayers, \* to start a race
    MaxGames,   \* bound: games created
    MaxSets,    \* bound: usersets created
    MaxExits    \* bound: players leaving, kicked, disconnected or restricted

\* Assumed where the module is instantiated.
LobbyAssumption == Hosts \subseteq Users /\ MinPlayers \in 1 .. Capacity

VARIABLES
    mw,         \* Most Wanted, or Underground 2
    games,      \* the session directory, with what the lobby keeps of a game
    sets,       \* the usersets
    ctx,        \* the context of each player's connection
    asking,     \* the game whose join slot a player's handler waits for
    job,        \* what a player's handler does once its reply is written
    owed,       \* Underground 2: the game a player has yet to report
    past        \* exits, and what happened that a property leaves out

vars == <<mw, games, sets, ctx, asking, job, owed, past>>

Games == 1 .. MaxGames
Sets == 1 .. MaxSets
Raced == {"ACTIVE", "FINISHED"}

NoGame ==
    [state |-> "none", owner |-> None, order |-> <<>>, kicked |-> {}, reported |-> {},
     relayed |-> FALSE, timer |-> FALSE, view |-> FALSE, returners |-> {},
     slot |-> {}, due |-> FALSE, connecting |-> {}, staged |-> {}]
NoSet == [live |-> FALSE, owner |-> None, game |-> None, members |-> {}]
NoContext ==
    [on |-> FALSE, lobby |-> None, set |-> None, pend |-> None, viewers |-> {}, back |-> FALSE, snap |-> None, deferred |-> None,
     closing |-> FALSE]
NoJob == [kind |-> "none", game |-> None, who |-> {}, old |-> {}]

Exists(gs, g) == g # None /\ gs[g].state \in {"OPEN"} \union Raced
Members(gs, g) == ToSet(gs[g].order)
Live(s) == s # None /\ sets[s].live
SetOfGame(g) == {s \in Sets : sets[s].live /\ sets[s].game = g}

\* The handler of u's connection is free, and the connection up.
Idle(u) == ctx[u].on /\ ~ctx[u].closing /\ asking[u] = None /\ job[u] = NoJob

-----------------------------------------------------------------------------
(* The session directory and the join slot.                                *)

\* A plausible bug: a release frees the slot whoever holds it.
SlotReleased_Anyone(gs, g, S) ==
    [gs EXCEPT ![g].slot = {}, ![g].due = FALSE, ![g].connecting = @ \ S]

SlotReleased(gs, g, S) ==
    LET left == gs[g].slot \ S IN
    [gs EXCEPT ![g].slot = left, ![g].due = @ /\ left # {},
               ![g].connecting = @ \ S]

TransportCleared(gs, g) ==
    [gs EXCEPT ![g].slot = {}, ![g].due = FALSE, ![g].connecting = {},
               ![g].returners = {}, ![g].relayed = FALSE, ![g].view = FALSE]

Closed(gs, g) == [gs EXCEPT ![g] = [NoGame EXCEPT !.state = "CLOSED", !.owner = gs[g].owner]]
Retired(gs, g) == TransportCleared(gs, g)
Synced(gs, g) == IF Exists(gs, g) THEN [gs EXCEPT ![g].relayed = TRUE] ELSE gs

LeftGame(gs, g, u) ==
    LET order == SelectSeq(gs[g].order, LAMBDA v : v # u) IN
    IF order = <<>> THEN Closed(gs, g)
    ELSE [gs EXCEPT ![g].order = order, ![g].connecting = @ \ {u}]

CanJoin(gs, g, u) ==
    /\ Exists(gs, g)
    /\ u \notin gs[g].kicked
    /\ \/ u \in Members(gs, g) \/ u = gs[g].owner
       \/ gs[g].state = "OPEN" /\ Len(gs[g].order) < Capacity

\* A plausible bug: a player who joins again is listed again.
JoinedGame_Again(gs, g, u) == [gs EXCEPT ![g].order = Append(@, u)]

JoinedGame(gs, g, u) ==
    [gs EXCEPT ![g].order =
        IF u \in ToSet(@) THEN @
        ELSE IF u = gs[g].owner THEN <<u>> \o @ ELSE Append(@, u)]

Reported(gs, g, u) ==
    LET reported == gs[g].reported \union {u} IN
    IF u \notin Members(gs, g) \/ u \in gs[g].reported THEN gs
    ELSE [gs EXCEPT ![g].reported = reported,
                    ![g].state = IF Members(gs, g) \subseteq reported THEN "FINISHED" ELSE @]

Preserved(gs, g, u) == u # gs[g].owner /\ (mw \/ gs[g].state \in Raced)

\* What a player's exit does to the game and to its race transport.
Exited(gs, g, u) ==
    LET freed == IF mw THEN SlotReleased(gs, g, {u}) ELSE gs IN
    IF Preserved(gs, g, u) THEN Synced(LeftGame(freed, g, u), g)
    ELSE LeftGame(Retired(freed, g), g, u)

\* A Most Wanted reply that carries the game registers a room of two again.
Shown(gs, g) ==
    IF mw /\ Exists(gs, g) /\ Len(gs[g].order) > 1 THEN Synced(gs, g) ELSE gs

-----------------------------------------------------------------------------
(* Contexts.                                                               *)

NotReturning(c) == [c EXCEPT !.back = FALSE, !.snap = None, !.deferred = None]

\* The viewers of a member matter only while it is pending.
NotPending(c) == [c EXCEPT !.pend = None, !.viewers = {}]
OutOfGame(c) == [NotPending(NotReturning(c)) EXCEPT !.lobby = None]

\* The connected contexts of the players of S, each changed by F.
Changed(cs, S, F(_)) == [u \in Users |-> IF u \in S /\ cs[u].on THEN F(cs[u]) ELSE cs[u]]

Promoted(cs, S) == Changed(cs, S, NotPending)

\* The staged members a context keeps for a game stand with the game.
Unstaged(gs, g, viewers, S) == [gs EXCEPT ![g].staged = @ \ (viewers \X S)]

-----------------------------------------------------------------------------
(* Usersets.                                                               *)

UsersetCreate(u) ==
    /\ mw /\ Idle(u) /\ u \in Hosts
    /\ \E s \in Sets :
        /\ sets[s] = NoSet /\ \A r \in Sets : r < s => sets[r] # NoSet
        /\ sets' = [r \in Sets |->
               IF r = s THEN [live |-> TRUE, owner |-> u, game |-> None, members |-> {u}]
               ELSE IF r = ctx[u].set /\ sets[r].owner = u THEN [sets[r] EXCEPT !.live = FALSE]
               ELSE sets[r]]
        /\ ctx' = [ctx EXCEPT ![u].set = s]
    /\ UNCHANGED <<mw, games, asking, job, owed, past>>

UsersetJoin(u, s) ==
    /\ mw /\ Idle(u) /\ sets[s].live
    /\ u \in sets[s].members \/ Cardinality(sets[s].members) < Capacity
    /\ sets' = [sets EXCEPT ![s].members = @ \union {u}]
    /\ ctx' = [ctx EXCEPT ![u].set = s]
    /\ UNCHANGED <<mw, games, asking, job, owed, past>>

\* A guest whose game still runs is taken out of it first.
Detaches(u, s) ==
    LET g == sets[s].game IN
    /\ Exists(games, g)
    /\ games[g].owner # u /\ u \in Members(games, g) /\ ctx[u].lobby = g
    /\ Preserved(games, g, u)

UsersetLeave(u) ==
    LET s == ctx[u].set IN
    /\ mw /\ Idle(u) /\ Live(s) /\ past.exits < MaxExits
    /\ past' = [past EXCEPT !.exits = @ + 1]
    /\ games' = IF Detaches(u, s)
                THEN Synced(LeftGame(games, sets[s].game, u), sets[s].game) ELSE games
    /\ sets' = [sets EXCEPT ![s].members = @ \ {u}]
    /\ ctx' = [ctx EXCEPT ![u] =
           [NotPending(NotReturning(@)) EXCEPT !.set = None,
                !.lobby = IF Detaches(u, s) THEN None ELSE @]]
    /\ UNCHANGED <<mw, asking, job, owed>>

\* The owner's deletion closes the game and resets the members of the userset.
UsersetDelete(u) ==
    LET s == ctx[u].set
        g == sets[s].game
        reset(c) == [NotPending(NotReturning(c)) EXCEPT
                         !.set = IF @ = s THEN None ELSE @,
                         !.lobby = IF g # None /\ @ = g THEN None ELSE @] IN
    /\ mw /\ Idle(u) /\ Live(s) /\ sets[s].owner = u
    /\ games' = IF Exists(games, g) THEN Closed(Retired(games, g), g) ELSE games
    /\ sets' = [sets EXCEPT ![s].live = FALSE]
    /\ ctx' = [Changed(ctx, sets[s].members, reset) EXCEPT
                   ![u] = [reset(ctx[u]) EXCEPT !.set = None]]
    /\ UNCHANGED <<mw, asking, job, owed, past>>

-----------------------------------------------------------------------------
(* Creating, joining and leaving games.                                    *)

\* The relay graph of a Most Wanted race is handed to the game its owner creates next.
HandsOff(u) ==
    LET g == ctx[u].lobby IN
    /\ mw /\ Exists(games, g)
    /\ games[g].owner = u /\ games[g].state \in Raced
    /\ Len(games[g].order) > 1 /\ games[g].relayed

\* The guests who asked for the old game too early, and are told of the new one.
Deferred(u) ==
    {v \in Members(games, ctx[u].lobby) \ {u} :
        ctx[v].on /\ ctx[v].lobby = ctx[u].lobby /\ ctx[v].deferred = ctx[u].lobby}

Detached(u) ==
    LET g == ctx[u].lobby IN
    IF ~Exists(games, g) THEN games
    ELSE IF games[g].owner = u THEN Closed(games, g)
    ELSE Exited(games, g, u)

DetachedContexts(u) ==
    LET g == ctx[u].lobby
        S == {v \in Members(games, g) : ctx[v].lobby = g}
        late == Deferred(u) IN
    IF Exists(games, g) /\ games[g].owner = u
    THEN Changed(Changed(ctx, S \ late, OutOfGame), late,
                 LAMBDA c : [NotPending(c) EXCEPT !.lobby = None])
    ELSE ctx

GameCreate(u) ==
    LET g == ctx[u].lobby
        late == IF mw /\ Exists(games, g) /\ games[g].owner = u THEN Deferred(u) ELSE {} IN
    /\ Idle(u) /\ u \in Hosts
    /\ \E n \in Games, handed \in BOOLEAN :
        /\ games[n].state = "none" /\ \A m \in Games : m < n => games[m].state # "none"
        /\ handed => HandsOff(u)
        /\ games' = [Detached(u) EXCEPT ![n] =
               [NoGame EXCEPT !.state = "OPEN", !.owner = u, !.order = <<u>>,
                    !.relayed = handed,
                    !.returners = IF handed THEN Members(games, g) \ {u} ELSE {}]]
        /\ ctx' = [DetachedContexts(u) EXCEPT ![u] = [OutOfGame(ctx[u]) EXCEPT !.lobby = n]]
        /\ sets' = IF mw /\ Live(ctx[u].set) /\ sets[ctx[u].set].owner = u
                   THEN [sets EXCEPT ![ctx[u].set].game = n] ELSE sets
    /\ job' = IF late = {} THEN job
              ELSE [job EXCEPT ![u] = [NoJob EXCEPT !.kind = "rearm", !.who = late]]
    /\ owed' = IF mw THEN owed ELSE [owed EXCEPT ![u] = None]
    /\ UNCHANGED <<mw, asking, past>>

\* gs is the directory when the join is decided, the slot taken if one was needed.
Enter(u, g, gs) ==
    LET p == ctx[u].lobby
        moved == p # g /\ Exists(gs, p)
        joined == JoinedGame(gs, g, u)
        away == IF moved THEN Exited(joined, p, u) ELSE joined
        back == [away EXCEPT ![g].returners = @ \ {u}]
        mine == IF mw THEN [NotReturning(ctx[u]) EXCEPT !.lobby = g, !.pend = g, !.viewers = {}]
                ELSE [ctx[u] EXCEPT !.lobby = g]
        others == IF mw THEN {v \in Members(gs, g) \ {u} : ctx[v].on} ELSE {} IN
    IF CanJoin(gs, g, u)
    THEN /\ games' = [Shown(back, g) EXCEPT ![g].staged = @ \union (others \X {u})]
         /\ ctx' = [ctx EXCEPT ![u] = mine]
    ELSE /\ games' = IF mw /\ g # None THEN SlotReleased(gs, g, {u}) ELSE gs
         /\ UNCHANGED ctx

\* Stock clients join the userset of a game before the game, and wait to be told of the
\* new game once they were deferred.
MayAsk(u, g) ==
    /\ Idle(u) /\ Exists(games, g) /\ ctx[u].deferred = None
    /\ mw => \E s \in SetOfGame(g) : u \in sets[s].members /\ ctx[u].set = s

JoinEarly(u, g) ==
    /\ mw /\ MayAsk(u, g)
    /\ u \in Members(games, g) /\ ctx[u].lobby = g /\ ctx[u].back
    /\ games[g].state \in Raced
    /\ ctx' = [ctx EXCEPT ![u] = [NotPending(@) EXCEPT !.deferred = g]]
    /\ UNCHANGED <<mw, games, sets, asking, job, owed, past>>

Serialized(u, g) == mw /\ u \notin games[g].returners

JoinAsk(u, g) ==
    /\ MayAsk(u, g) /\ ctx[u].lobby # g
    /\ IF Serialized(u, g)
       THEN asking' = [asking EXCEPT ![u] = g] /\ UNCHANGED <<games, ctx>>
       ELSE Enter(u, g, games) /\ UNCHANGED asking
    /\ UNCHANGED <<mw, sets, job, owed, past>>

SlotTaken(g, u) ==
    [games EXCEPT ![g].slot = {u}, ![g].due = FALSE,
                  ![g].connecting = (IF games[g].due THEN {} ELSE @) \union {u}]

JoinEnter(u) ==
    LET g == asking[u] IN
    /\ g # None
    /\ games[g].slot = {} \/ games[g].due
    /\ asking' = [asking EXCEPT ![u] = None]
    /\ Enter(u, g, SlotTaken(g, u))
    /\ UNCHANGED <<mw, sets, job, owed, past>>

JoinTimedOut(u) ==
    /\ asking[u] # None
    /\ games[asking[u]].slot # {} /\ ~games[asking[u]].due
    /\ asking' = [asking EXCEPT ![u] = None]
    /\ UNCHANGED <<mw, games, sets, ctx, job, owed, past>>

\* glea, and gdel from anyone but the owner.
GameLeave(u) ==
    LET g == ctx[u].lobby IN
    /\ Idle(u) /\ g # None /\ past.exits < MaxExits
    /\ games' = IF Exists(games, g) THEN Shown(Exited(games, g, u), g) ELSE games
    /\ ctx' = [ctx EXCEPT ![u] = IF Exists(games, g) THEN OutOfGame(@)
                                 ELSE [@ EXCEPT !.lobby = None]]
    /\ past' = [past EXCEPT !.exits = @ + 1,
                           !.absent = IF Exists(games, g) /\ games[g].owner = u
                                       THEN @ \union {g} ELSE @]
    /\ UNCHANGED <<mw, sets, asking, job, owed>>

GameDelete(u) ==
    LET g == ctx[u].lobby IN
    /\ Idle(u) /\ Exists(games, g) /\ games[g].owner = u
    /\ games' = Closed(Retired(games, g), g)
    /\ ctx' = [Changed(ctx, Members(games, g),
                       LAMBDA c : IF mw THEN OutOfGame(c) ELSE [c EXCEPT !.lobby = None])
                  EXCEPT ![u].lobby = None]
    /\ UNCHANGED <<mw, sets, asking, job, owed, past>>

\* The invitation that lifts a kick is sent by the owner.
Kick(u, t) ==
    LET g == ctx[u].lobby
        left == [LeftGame(games, g, t) EXCEPT ![g].kicked = @ \union {t}]
        freed == IF mw THEN SlotReleased(left, g, {t}) ELSE left
        theirs == IF mw THEN SetOfGame(g) ELSE {} IN
    /\ Idle(u) /\ Exists(games, g) /\ games[g].owner = u
    /\ t \in Members(games, g) \ {u} /\ past.exits < MaxExits
    /\ games' = Shown(IF Preserved(games, g, t) THEN Synced(freed, g) ELSE Retired(freed, g), g)
    /\ sets' = [s \in Sets |-> IF s \in theirs THEN [sets[s] EXCEPT !.members = @ \ {t}]
                               ELSE sets[s]]
    /\ ctx' = Changed(ctx, {t}, LAMBDA c :
                  [NotPending(c) EXCEPT !.lobby = None, !.set = IF @ \in theirs THEN None ELSE @])
    /\ past' = [past EXCEPT !.exits = @ + 1, !.kicked = @ \union {t}]
    /\ UNCHANGED <<mw, asking, job, owed>>

Invite(u, t) ==
    LET g == ctx[u].lobby IN
    /\ Idle(u) /\ Exists(games, g) /\ games[g].owner = u
    /\ t \in games[g].kicked /\ ctx[t].on
    /\ games' = [games EXCEPT ![g].kicked = @ \ {t}]
    /\ UNCHANGED <<mw, sets, ctx, asking, job, owed, past>>

-----------------------------------------------------------------------------
(* Most Wanted: a guest who joined is shown outside the game until it is   *)
(* promoted, by its owner's settings or once everyone looked it up.        *)

Pending(g) == {t \in Members(games, g) : ctx[t].on /\ ctx[t].pend = g}

Commit(u) ==
    LET g == ctx[u].lobby IN
    /\ mw /\ Idle(u) /\ Exists(games, g) /\ games[g].owner = u
    /\ Pending(g) \ {u} # {}
    /\ games' = Shown(games, g)
    /\ job' = [job EXCEPT ![u] =
           [NoJob EXCEPT !.kind = "commit", !.game = g, !.who = Pending(g) \ {u}]]
    /\ UNCHANGED <<mw, sets, ctx, asking, owed, past>>

\* The members staged for u in its game, unless u is staged itself.
Staged(u) ==
    LET g == ctx[u].lobby IN
    IF Exists(games, g) /\ u \in Members(games, g) /\ ctx[u].pend # g
    THEN {t \in Pending(g) : <<u, t>> \in games[g].staged} ELSE {}

\* Whom a lookup of t is answered with: a single staged member stands for anyone but a
\* member of the userset still on its way, and a single pending one for a player u
\* remembers from a room that is gone (which players those are is not kept).
Answers(u, t) ==
    LET g == ctx[u].lobby
        waiting == \E s \in SetOfGame(g) : t \in sets[s].members \ Members(games, g)
        bound == IF Cardinality(Staged(u)) = 1 /\ ~(g # None /\ waiting) THEN Staged(u) ELSE {t}
        rest == Pending(g) \ {u} IN
    bound \union IF /\ Exists(games, g) /\ u \in Members(games, g)
                    /\ bound \intersect Members(games, g) = {} /\ Cardinality(rest) = 1
                 THEN rest ELSE {}

Online(u, t) ==
    /\ mw /\ Idle(u) /\ ctx[t].on
    /\ \E x \in Answers(u, t) :
        LET g == ctx[x].lobby
            expected == Members(games, g) \ {x}
            seen == ctx[x].viewers \union ({u} \intersect expected)
            home == ctx[u].lobby
            gone == Users \ Staged(u) IN
        /\ games' = IF Exists(games, home) /\ u \in Members(games, home) /\ ctx[u].pend # home
                    THEN Unstaged(games, home, {u}, gone) ELSE games
        /\ IF Exists(games, g) /\ ctx[x].pend = g
           THEN
             /\ ctx' = [ctx EXCEPT ![x].viewers = seen]
             /\ job' = IF expected # {} /\ expected \subseteq seen
                       THEN [job EXCEPT ![u] =
                                [NoJob EXCEPT !.kind = "promote", !.game = g, !.who = {x}]]
                       ELSE job
           ELSE UNCHANGED <<ctx, job>>
    /\ UNCHANGED <<mw, sets, asking, owed, past>>

\* What runs after the reply.  A player of job[u].old lost the connection the handler saw,
\* while it was pending: the new one is left alone.
Pended(u) == {t \in job[u].who : ctx[t].pend = job[u].game} \union job[u].old

CommitSent(u) ==
    LET g == job[u].game
        S == Pended(u) \intersect Members(games, g) IN
    /\ job[u].kind = "commit"
    /\ ctx' = Promoted(ctx, S \ job[u].old)
    /\ games' = Unstaged(games, g, Members(games, g), S)
    /\ job' = [job EXCEPT ![u] = NoJob]
    /\ UNCHANGED <<mw, sets, asking, owed, past>>

PromotionSent(u) ==
    LET g == job[u].game
        S == Pended(u) IN
    /\ job[u].kind = "promote"
    /\ ctx' = Promoted(ctx, S \ job[u].old)
    /\ games' = IF S = {} THEN games
                ELSE SlotReleased(Shown(Unstaged(games, g, Members(games, g), S), g), g, S)
    /\ job' = [job EXCEPT ![u] = NoJob]
    /\ UNCHANGED <<mw, sets, asking, owed, past>>

RearmSent(u) ==
    /\ job[u].kind = "rearm"
    /\ ctx' = Changed(ctx, job[u].who, OutOfGame)
    /\ job' = [job EXCEPT ![u] = NoJob]
    /\ past' = [past EXCEPT !.swept = @ \union {t \in job[u].who : ctx[t].lobby # None}]
    /\ UNCHANGED <<mw, games, sets, asking, owed>>

\* The join slot: given back by a player whose link settled, lost when its lease ends.
Settled(u, g) ==
    /\ mw /\ games[g].slot # {} /\ u \in Members(games, g)
    /\ games' = SlotReleased(games, g, {u})
    /\ UNCHANGED <<mw, sets, ctx, asking, job, owed, past>>

LeaseRunsOut(g) ==
    /\ games[g].slot # {} /\ ~games[g].due
    /\ games' = [games EXCEPT ![g].due = TRUE]
    /\ UNCHANGED <<mw, sets, ctx, asking, job, owed, past>>

-----------------------------------------------------------------------------
(* Races.                                                                  *)

Start(u) ==
    LET g == ctx[u].lobby IN
    /\ Idle(u) /\ Exists(games, g) /\ games[g].owner = u /\ games[g].state = "OPEN"
    /\ Len(games[g].order) >= MinPlayers
    /\ games' = [games EXCEPT ![g].state = "ACTIVE", ![g].view = FALSE,
                              ![g].returners = {}, ![g].relayed = TRUE]
    /\ owed' = IF mw THEN owed
               ELSE [v \in Users |-> IF v \in Members(games, g) THEN g ELSE owed[v]]
    /\ UNCHANGED <<mw, sets, ctx, asking, job, past>>

\* A report of Most Wanted also drives the way back to the lobby: once the snapshot of the
\* race was replayed, the answer is followed by the view of the room.
RankMostWanted(u) ==
    LET g == ctx[u].lobby IN
    /\ mw /\ Idle(u) /\ Exists(games, g) /\ games[g].state \in Raced
    /\ games' = Shown(Reported(games, g, u), g)
    /\ job' = IF ctx[u].back /\ ~games[g].view /\ ctx[u].snap = g
              THEN [job EXCEPT ![u] = [NoJob EXCEPT !.kind = "view", !.game = g]] ELSE job
    /\ UNCHANGED <<mw, sets, ctx, asking, owed, past>>

ViewSent(u) ==
    LET g == job[u].game IN
    /\ job[u].kind = "view"
    /\ IF ctx[u].snap = g
       THEN /\ ctx' = [ctx EXCEPT ![u].snap = None]
            /\ games' = [games EXCEPT ![g].view = TRUE]
       ELSE UNCHANGED <<ctx, games>>
    /\ job' = [job EXCEPT ![u] = NoJob]
    /\ UNCHANGED <<mw, sets, asking, owed, past>>

\* The stock client reports on a new connection: the game is the one it owes.
RankUnderground2(u) ==
    LET g == owed[u]
        reported == Reported(games, g, u)
        complete == reported[g] # games[g] /\ reported[g].state = "FINISHED" IN
    /\ ~mw /\ Idle(u) /\ Exists(games, g)
    /\ games' = IF complete THEN [reported EXCEPT ![g].timer = TRUE] ELSE reported
    /\ owed' = [v \in Users |-> IF complete /\ v \in Members(games, g) /\ owed[v] = g
                                THEN None ELSE owed[v]]
    /\ UNCHANGED <<mw, sets, ctx, asking, job, past>>

\* The grace of a finished race ends.
TransportRetires(g) ==
    /\ games[g].timer
    /\ games' = [Retired(games, g) EXCEPT ![g].timer = FALSE]
    /\ UNCHANGED <<mw, sets, ctx, asking, job, owed, past>>

\* sele: a context that lost the game of its userset gets it back, and the client says
\* whether it is in a race and whether it wants its game.  A client that waits for the next
\* game does not say it is in a race.
Select(u, ingame, mygame) ==
    LET s == ctx[u].set
        home == IF Live(s) THEN sets[s].game ELSE None
        found == Exists(games, home) /\ u \in Members(games, home) /\ ctx[u].lobby # home
        c1 == IF found THEN [NotPending(NotReturning(ctx[u])) EXCEPT !.lobby = home]
              ELSE ctx[u]
        g == c1.lobby
        raced == Exists(games, g) /\ games[g].state \in Raced
        c2 == IF ingame THEN NotReturning(c1)
              ELSE IF g = None THEN c1
              ELSE IF raced /\ ~c1.back
                   THEN [NotPending(c1) EXCEPT !.snap = None, !.deferred = None, !.back = TRUE]
              ELSE [c1 EXCEPT !.back = raced]
        c3 == IF mygame /\ Live(s) /\ Exists(games, g) /\ c2.back
              THEN [c2 EXCEPT !.snap = IF games[g].view THEN None ELSE g] ELSE c2 IN
    /\ mw /\ Idle(u) /\ (ingame => ctx[u].deferred = None)
    /\ ctx' = [ctx EXCEPT ![u] = c3]
    /\ UNCHANGED <<mw, games, sets, asking, job, owed, past>>

-----------------------------------------------------------------------------
(* Connections, and the policy of an account.                              *)

\* A new connection finds the userset that still lists the player, and its game.
Connect(u) ==
    LET mine == {s \in Sets : sets[s].live /\ u \in sets[s].members}
        better(r, s) == (sets[r].game # None /\ sets[s].game = None)
                        \/ ((sets[r].game # None) = (sets[s].game # None) /\ r >= s)
        found == IF mw /\ mine # {} THEN CHOOSE r \in mine : \A s \in mine : better(r, s) ELSE None
        g == IF found = None THEN None ELSE sets[found].game IN
    /\ ~ctx[u].on
    /\ ctx' = [ctx EXCEPT ![u] = [NoContext EXCEPT
           !.on = TRUE, !.set = found,
           !.lobby = IF Exists(games, g) /\ u \in Members(games, g) THEN g ELSE None]]
    /\ UNCHANGED <<mw, games, sets, asking, job, owed, past>>

\* The handlers that saw the lost connection keep it.
Orphaned(u) ==
    [v \in Users |->
        IF v = u THEN NoJob
        ELSE [job[v] EXCEPT !.who = @ \ {u},
                            !.old = IF u \in job[v].who /\ job[v].kind # "rearm"
                                       /\ ctx[u].pend = job[v].game
                                    THEN @ \union {u} ELSE @]]

Disconnect(u) ==
    LET g == ctx[u].lobby
        known == Exists(games, g)
        owner == known /\ games[g].owner = u
        unseen == [n \in Games |-> [games[n] EXCEPT !.staged = @ \ ({u} \X Users)]]
        freed == IF mw /\ known THEN SlotReleased(unseen, g, {u}) ELSE unseen
        racing == known /\ ~mw /\ games[g].state = "ACTIVE"
        kept == known /\ mw /\ ~owner /\ games[g].state \in Raced
        s == ctx[u].set
        others == [v \in Users |-> IF v = u THEN NoContext
                                   ELSE IF owner /\ ~racing /\ v \in Members(games, g) /\ ctx[v].on
                                        THEN [ctx[v] EXCEPT !.lobby = None] ELSE ctx[v]] IN
    /\ ctx[u].on /\ asking[u] = None
    /\ ctx[u].closing \/ past.exits < MaxExits
    /\ games' = IF ~known \/ racing \/ kept THEN freed
                ELSE IF owner THEN Closed(Retired(freed, g), g)
                ELSE Exited(freed, g, u)
    /\ ctx' = others
    /\ sets' = IF ~Live(s) \/ kept THEN sets
               ELSE IF sets[s].owner = u THEN [sets EXCEPT ![s].live = FALSE]
               ELSE [sets EXCEPT ![s].members = @ \ {u}]
    /\ job' = Orphaned(u)
    /\ past' = [past EXCEPT !.exits = IF ctx[u].closing THEN @ ELSE @ + 1, !.lost = @ \union {u},
                           !.away = IF racing THEN @ \union {u} ELSE @]
    /\ UNCHANGED <<mw, asking, owed>>

Expelled(closed) ==
    Changed(ctx, UNION {Members(games, g) : g \in closed}, OutOfGame)

\* A restricted player is taken out of every game and userset; its games close.
EnforcePolicy(u) ==
    LET closed == {g \in Games : Exists(games, g) /\ u \in Members(games, g)}
        owned == {s \in Sets : sets[s].live /\ sets[s].owner = u}
        c1 == Expelled(closed)
        c2 == [v \in Users |->
                  IF c1[v].on /\ \E s \in owned : v \in sets[s].members /\ c1[v].set = s
                  THEN [OutOfGame(c1[v]) EXCEPT !.set = None] ELSE c1[v]] IN
    /\ ctx[u].on /\ ~ctx[u].closing /\ past.exits < MaxExits
    /\ games' = [g \in Games |-> IF g \in closed THEN Closed(games, g)[g] ELSE games[g]]
    /\ sets' = [s \in Sets |->
           IF ~mw \/ ~sets[s].live THEN sets[s]
           ELSE IF s \in owned THEN [sets[s] EXCEPT !.live = FALSE]
           ELSE [sets[s] EXCEPT !.members = @ \ {u},
                                !.game = IF @ \in closed THEN None ELSE @]]
    /\ ctx' = [(IF mw THEN c2 ELSE c1) EXCEPT ![u] = [OutOfGame(@) EXCEPT !.set = None, !.closing = TRUE]]
    /\ owed' = [v \in Users |-> IF v = u \/ owed[v] \in closed THEN None ELSE owed[v]]
    /\ past' = [past EXCEPT !.exits = @ + 1]
    /\ UNCHANGED <<mw, asking, job>>

-----------------------------------------------------------------------------
Init ==
    /\ mw \in BOOLEAN
    /\ games = [g \in Games |-> NoGame]
    /\ sets = [s \in Sets |-> NoSet]
    /\ ctx = [u \in Users |-> NoContext]
    /\ asking = [u \in Users |-> None]
    /\ job = [u \in Users |-> NoJob]
    /\ owed = [u \in Users |-> None]
    /\ past = [exits |-> 0, absent |-> {}, lost |-> {}, kicked |-> {}, swept |-> {}, away |-> {}]

Next ==
    \/ \E u \in Users :
        \/ Connect(u) \/ Disconnect(u) \/ EnforcePolicy(u)
        \/ UsersetCreate(u) \/ UsersetLeave(u) \/ UsersetDelete(u)
        \/ GameCreate(u) \/ GameLeave(u) \/ GameDelete(u)
        \/ JoinEnter(u) \/ JoinTimedOut(u)
        \/ Commit(u) \/ CommitSent(u) \/ PromotionSent(u) \/ RearmSent(u)
        \/ Start(u) \/ RankMostWanted(u) \/ ViewSent(u) \/ RankUnderground2(u)
        \/ \E s \in Sets : UsersetJoin(u, s)
        \/ \E g \in Games : JoinEarly(u, g) \/ JoinAsk(u, g) \/ Settled(u, g)
        \/ \E t \in Users : Kick(u, t) \/ Invite(u, t) \/ Online(u, t)
        \/ \E ingame, mygame \in BOOLEAN : Select(u, ingame, mygame)
    \/ \E g \in Games : LeaseRunsOut(g) \/ TransportRetires(g)

Spec == Init /\ [][Next]_vars

-----------------------------------------------------------------------------
(* Properties.                                                             *)

\* Every variable has its type, a game has each player once, and the join slot of a game
\* is held by one player.
TypeOK ==
    /\ mw \in BOOLEAN
    /\ \A g \in Games :
        /\ games[g].state \in {"none", "OPEN", "CLOSED"} \union Raced
        /\ IsInjective(games[g].order) /\ Members(games, g) \subseteq Users
        /\ games[g].slot \subseteq Users /\ Cardinality(games[g].slot) <= 1
    /\ \A u \in Users :
        /\ {ctx[u].lobby, ctx[u].pend, ctx[u].snap, ctx[u].deferred, asking[u], owed[u]}
               \subseteq Games \union {None}
        /\ ctx[u].set \in Sets \union {None}
        /\ ctx[u].viewers \subseteq Users
        /\ job[u].kind \in {"none", "commit", "promote", "rearm", "view"}
    /\ \A s \in Sets : sets[s].members \subseteq Users /\ sets[s].game \in Games \union {None}

\* A connection and the session directory agree: the game a connection is in lists its
\* player, and the open game that lists a connected player is the one its connection is in
\* (every path out of a game, classic/lobby).
ContextsAgree ==
    \A u \in Users \ (past.away \union past.swept) : ~ctx[u].closing =>
        /\ Exists(games, ctx[u].lobby) => u \in Members(games, ctx[u].lobby)
        /\ \A g \in Games \ past.absent :
               games[g].state = "OPEN" /\ u \in Members(games, g) => ctx[u].on /\ ctx[u].lobby = g

\* No connection is left in a game that is closed.
NobodyInAClosedGame ==
    \A u \in Users \ past.swept : ctx[u].lobby # None /\ ~ctx[u].closing => Exists(games, ctx[u].lobby)

\* While the lease of a guest's join runs, the next guest connects only after the link of
\* the first settled or the first left (mw_sessions.py).
OneGuestConnects == \A g \in Games : ~games[g].due => Cardinality(games[g].connecting) <= 1

\* A guest told to wait for the next game is told of it, unless the owner's connection was
\* lost: the game it waits on is open, or the message is on its way (gcre).
DeferredAreTold ==
    \A u \in Users \ past.kicked :
        LET g == ctx[u].deferred IN
        g # None => \/ Exists(games, g) \/ games[g].owner \in past.lost
                    \/ \E v \in Users : job[v].kind = "rearm" /\ u \in job[v].who

\* Only players of a game wait to be promoted in it.
PendingArePlayers ==
    \A u \in Users : Exists(games, ctx[u].pend) => u \in Members(games, ctx[u].pend)

\* A running race keeps its transport when a guest goes, as long as two players, the owner among
\* them, stay (_preserve_transport_for_guest_exit).
RouteKept ==
    \A g \in Games :
       LET staying == {v \in Users : v \in Members(games, g) /\ v \in Members(games', g)} IN
       /\ games[g].state = "ACTIVE" /\ games'[g].state \in Raced
       /\ games[g].relayed /\ games[g].owner \in staying /\ Cardinality(staying) > 1
       => games'[g].relayed

\* Every step keeps the route of a race with its owner.
RouteOutlivesGuests == [][RouteKept]_vars

=============================================================================
