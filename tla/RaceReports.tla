---------------------------- MODULE RaceReports ----------------------------
(***************************************************************************)
(* The race reports of the classic games: the result every client sends    *)
(* with its rank command is accepted once in the directory of live games,  *)
(* in memory, and then filed in the ranking store, in one transaction.     *)
(* Between the two steps other reports are accepted and filed, accounts    *)
(* are banned, players leave, and the server may stop; game ids start      *)
(* again at every start, and a row of the store names the server run too.  *)
(*                                                                         *)
(* Underground 2 has ranked and unranked rooms; Most Wanted counts every   *)
(* result in category 0 as well, and the owner's next gcre files whoever   *)
(* sent no report as disconnected.                                         *)
(***************************************************************************)
EXTENDS Integers, FiniteSets

CONSTANTS
    Users,        \* each with one persona
    Games,        \* game ids of one server run
    Categories,   \* statistics categories; 0 is one of them
    MostWanted,   \* which of the two games
    MaxRuns,      \* bound on server runs
    MaxEdits,     \* bound on resets by an administrator
    None

\* Assumed where the module is instantiated.
ReportsAssumption ==
    /\ 0 \in Categories /\ MostWanted \in BOOLEAN
    /\ MaxRuns \in Nat \ {0} /\ MaxEdits \in Nat

VARIABLES
    run,        \* _server_run_id, in the order of the starts
    game,       \* SessionDirectory._games: None, or the game; closed without members
    playing,    \* the game a rank command of the user is about
    job,        \* what the thread of a user is doing
    races,      \* game_races: category and status of a race
    filed,      \* game_race_results
    stats,      \* game_player_stats: wins, losses, disconnects
    active,     \* users whose account may collect results
    past        \* history: the results an administrator has reset, the edits made

vars == <<run, game, playing, job, races, filed, stats, active, past>>

Outcomes == {"win", "loss", "disconnect"}

Reports == [outcome : Outcomes, category : Categories, decoded : BOOLEAN]

GameRecord ==
    [owner : Users, ranked : BOOLEAN, members : SUBSET Users, results : [Users -> Reports \union {None}]]

\* A report on its way, or the owner's, who files those that are missing.
JobRecord ==
    [step : {"accept", "file", "filed", "finalize", "file missing"}, game : Games, who : Users,
     result : Reports, complete : BOOLEAN, missing : SUBSET Users]

RaceRecord == [category : Categories, status : {"reported", "complete", "disputed"}]

\* Assumed where the module is instantiated.
NoneAssumption ==
    None \notin GameRecord /\ None \notin JobRecord /\ None \notin RaceRecord /\ None \notin Reports

Zero == [o \in Outcomes |-> 0]

Keys == (1..MaxRuns) \X Games

\* (game, server_run_id, session_id), session_id being the game id.
Key(g) == <<run, g>>

Live(g) == game[g] # None /\ game[g].members # {}

Reported(g) == {u \in Users : game[g].results[u] # None}

Result(o, c, decoded) == [outcome |-> o, category |-> c, decoded |-> decoded]

Decoded(g) == {u \in Reported(g) : game[g].results[u].decoded}

Job(s, g, u, r) == [step |-> s, game |-> g, who |-> u, result |-> r, complete |-> FALSE, missing |-> {}]
-----------------------------------------------------------------------------
Init ==
    /\ run = 1
    /\ game = [g \in Games |-> None]
    /\ playing = [u \in Users |-> None]
    /\ job = [u \in Users |-> None]
    /\ races = [k \in Keys |-> None]
    /\ filed = [k \in Keys |-> [u \in Users |-> None]]
    /\ stats = [u \in Users |-> [c \in Categories |-> Zero]]
    /\ active = Users
    /\ past = [reset |-> {}, edits |-> 0]

\* A race of the members begins; Most Wanted ranks every race.
Starts(g, members, owner, ranked) ==
    /\ game[g] = None
    /\ \A h \in Games : h < g => game[h] # None
    /\ owner \in members /\ (MostWanted => ranked)
    /\ \A u \in members : playing[u] = None
    /\ game' = [game EXCEPT ![g] = [owner |-> owner, ranked |-> ranked, members |-> members,
                                    results |-> [u \in Users |-> None]]]
    /\ playing' = [u \in Users |-> IF u \in members THEN g ELSE playing[u]]
    /\ UNCHANGED <<run, job, races, filed, stats, active, past>>

\* A report that decodes agrees with those before it; what the legacy fields say
\* is not compared.
Consistent(g, r) ==
    r.decoded /\ MostWanted => \A u \in Decoded(g) : game[g].results[u].category = r.category

\* _dispatch_mw_rank, _dispatch_u2_rank up to the directory.
RankArrives(u, r) ==
    /\ job[u] = None /\ playing[u] # None
    /\ Live(playing[u]) /\ u \in game[playing[u]].members
    /\ MostWanted \/ r.decoded
    /\ Consistent(playing[u], r)
    /\ job' = [job EXCEPT ![u] = Job("accept", playing[u], u, r)]
    /\ UNCHANGED <<run, game, playing, races, filed, stats, active, past>>

\* SessionDirectory.record_result.
AcceptsReport(g, u) == Live(g) /\ u \in game[g].members \ Reported(g)

WithResult(g, u, r) == [game EXCEPT ![g].results[u] = r]

Complete(g, u) == game[g].members \subseteq Reported(g) \union {u}

\* Only a ranked race reaches the store.
AcceptReport(u) ==
    /\ job[u] # None /\ job[u].step = "accept"
    /\ LET g == job[u].game IN
       IF AcceptsReport(g, u)
       THEN /\ game' = WithResult(g, u, job[u].result)
            /\ job' = [job EXCEPT ![u] =
                          [@ EXCEPT !.step = IF game[g].ranked THEN "file" ELSE "filed",
                                    !.complete = Complete(g, u)]]
       ELSE /\ job' = [job EXCEPT ![u] = None]
            /\ UNCHANGED game
    /\ UNCHANGED <<run, playing, races, filed, stats, active, past>>

\* A plausible bug: the result that completes a race settles its category.
RaceRow_Completed(k, c, complete) ==
    IF races[k] = None \/ complete
    THEN [category |-> c, status |-> IF complete THEN "complete" ELSE "reported"]
    ELSE IF races[k].category # c THEN [races[k] EXCEPT !.status = "disputed"]
    ELSE races[k]

\* The row of a race: inserted once, disputed for good by a report of another category.
RaceRow(k, c, complete) ==
    IF races[k] = None
    THEN [category |-> c, status |-> IF complete THEN "complete" ELSE "reported"]
    ELSE IF races[k].category # c THEN [races[k] EXCEPT !.status = "disputed"]
    ELSE IF complete /\ races[k].status # "disputed" THEN [races[k] EXCEPT !.status = "complete"]
    ELSE races[k]

\* The categories a result counts in.
Counts(c) == IF MostWanted THEN {c, 0} ELSE {c}

\* record_result of the store: one transaction, nothing for an inactive account.
Record(g, u, r, complete) ==
    IF u \notin active
    THEN UNCHANGED <<races, filed, stats>>
    ELSE LET k == Key(g)
             new == filed[k][u] = None
         IN  /\ races' = [races EXCEPT ![k] = RaceRow(k, r.category, complete)]
             /\ filed' = IF new THEN [filed EXCEPT ![k][u] = r] ELSE filed
             /\ stats' = [stats EXCEPT ![u] =
                             [c \in Categories |->
                                 IF new /\ c \in Counts(r.category)
                                 THEN [stats[u][c] EXCEPT ![r.outcome] = @ + 1]
                                 ELSE stats[u][c]]]

FileReport(u) ==
    /\ job[u] # None /\ job[u].step = "file"
    /\ Record(job[u].game, u, job[u].result, job[u].complete)
    /\ job' = [job EXCEPT ![u].step = "filed"]
    /\ UNCHANGED <<run, game, playing, active, past>>

\* The last report of an Underground 2 race takes the race away from its members.
Reply(u) ==
    /\ job[u] # None /\ job[u].step = "filed"
    /\ playing' = IF ~MostWanted /\ job[u].complete /\ Live(job[u].game)
                   THEN [w \in Users |-> IF w \in game[job[u].game].members /\ playing[w] = job[u].game
                                         THEN None ELSE playing[w]]
                   ELSE playing
    /\ job' = [job EXCEPT ![u] = None]
    /\ UNCHANGED <<run, game, races, filed, stats, active, past>>
-----------------------------------------------------------------------------
\* _finalize_mw_missing_rank_reports: who is missing is read once, before any is filed.
Missing(g) == IF Decoded(g) = {} THEN {} ELSE game[g].members \ Reported(g)

OwnerReplaces(u) ==
    /\ MostWanted /\ job[u] = None /\ playing[u] # None
    /\ Live(playing[u]) /\ game[playing[u]].owner = u
    /\ LET g == playing[u] IN
       \E r \in {game[g].results[w] : w \in Decoded(g)} \union {Result("disconnect", 0, FALSE)} :
          /\ Missing(g) # {} => r.decoded
          /\ job' = [job EXCEPT ![u] =
                        [Job("finalize", g, u, Result("disconnect", r.category, FALSE))
                         EXCEPT !.missing = Missing(g)]]
    /\ UNCHANGED <<run, game, playing, races, filed, stats, active, past>>

\* Each of the missing: accepted in the directory, unless its own report came first ...
AcceptMissing(u) ==
    /\ job[u] # None /\ job[u].step = "finalize"
    /\ \E w \in job[u].missing :
          LET g == job[u].game
              next == [job[u] EXCEPT !.who = w, !.missing = @ \ {w}]
          IN  IF AcceptsReport(g, w)
              THEN /\ game' = WithResult(g, w, job[u].result)
                   /\ job' = [job EXCEPT ![u] = [next EXCEPT !.step = "file missing"]]
              ELSE /\ job' = [job EXCEPT ![u] = next]
                   /\ UNCHANGED game
    /\ UNCHANGED <<run, playing, races, filed, stats, active, past>>

\* ... and then filed, each with the status complete.
FileMissing(u) ==
    /\ job[u] # None /\ job[u].step = "file missing"
    /\ Record(job[u].game, job[u].who, job[u].result, TRUE)
    /\ job' = [job EXCEPT ![u].step = "finalize"]
    /\ UNCHANGED <<run, game, playing, active, past>>

\* When all are filed gcre closes the game and its players are in none.
CloseReplaced(u) ==
    /\ job[u] # None /\ job[u].step = "finalize" /\ job[u].missing = {}
    /\ LET g == job[u].game IN
       /\ playing' = [w \in Users |-> IF playing[w] = g THEN None ELSE playing[w]]
       /\ game' = [game EXCEPT ![g].members = {}]
    /\ job' = [job EXCEPT ![u] = None]
    /\ UNCHANGED <<run, races, filed, stats, active, past>>

\* A player leaves, or is removed while its report is being handled.
Leaves(u) ==
    /\ playing[u] # None /\ Live(playing[u]) /\ u \in game[playing[u]].members
    /\ game' = [game EXCEPT ![playing[u]].members = @ \ {u}]
    /\ playing' = [playing EXCEPT ![u] = None]
    /\ UNCHANGED <<run, job, races, filed, stats, active, past>>

Deactivate(u) ==
    /\ u \in active
    /\ active' = active \ {u}
    /\ UNCHANGED <<run, game, playing, job, races, filed, stats, past>>

\* reset, of one category or of all; deleting the rows leaves the same totals.
ResetStats(u, cs) ==
    /\ past.edits < MaxEdits
    /\ stats' = [stats EXCEPT ![u] = [c \in Categories |-> IF c \in cs THEN Zero ELSE stats[u][c]]]
    /\ past' = [edits |-> past.edits + 1,
                reset |-> past.reset \union {k \in Keys : filed[k][u] # None} \X {u} \X cs]
    /\ UNCHANGED <<run, game, playing, job, races, filed, active>>

\* The process stops at any point and starts again; the store is all that is left.
Restart ==
    /\ run < MaxRuns
    /\ run' = run + 1
    /\ game' = [g \in Games |-> None]
    /\ playing' = [u \in Users |-> None]
    /\ job' = [u \in Users |-> None]
    /\ UNCHANGED <<races, filed, stats, active, past>>

Next ==
    \/ \E g \in Games, members \in SUBSET Users, owner \in Users, ranked \in BOOLEAN :
          Starts(g, members, owner, ranked)
    \/ \E u \in Users :
          \/ \E r \in Reports : RankArrives(u, r)
          \/ AcceptReport(u) \/ FileReport(u) \/ Reply(u)
          \/ OwnerReplaces(u) \/ AcceptMissing(u) \/ FileMissing(u) \/ CloseReplaced(u)
          \/ Leaves(u) \/ Deactivate(u)
          \/ \E cs \in {{c} : c \in Categories} \union {Categories} : ResetStats(u, cs)
    \/ Restart

Spec == Init /\ [][Next]_vars
-----------------------------------------------------------------------------
InFlight(g, u) ==
    \E w \in Users : job[w] # None /\ job[w].game = g /\
        \/ job[w].who = u /\ job[w].step \in {"file", "file missing"}
        \/ u \in job[w].missing

\* The variables have their types, and a result that is filed has the row of its race.
TypeOK ==
    /\ run \in 1..MaxRuns
    /\ game \in [Games -> GameRecord \union {None}]
    /\ playing \in [Users -> Games \union {None}]
    /\ job \in [Users -> JobRecord \union {None}]
    /\ races \in [Keys -> RaceRecord \union {None}]
    /\ filed \in [Keys -> [Users -> Reports \union {None}]]
    /\ stats \in [Users -> [Categories -> [Outcomes -> Nat]]]
    /\ active \subseteq Users
    /\ past \in [reset : SUBSET (Keys \X Users \X Categories), edits : 0..MaxEdits]
    /\ \A k \in Keys, u \in Users : filed[k][u] # None => races[k] # None

\* The totals of a player are its filed results, each counted once in its category
\* (and, in Most Wanted, once in category 0), since the last reset; a ban, a crash
\* between acceptance and filing, and reports of all members at once change nothing
\* about that (sqlite_ranking.py:676-842).
TotalsAreTheFiledResults ==
    \A u \in Users, c \in Categories, o \in Outcomes :
        stats[u][c][o] =
            Cardinality({k \in Keys : /\ filed[k][u] # None /\ <<k, u, c>> \notin past.reset
                                      /\ filed[k][u].outcome = o
                                      /\ c = filed[k][u].category \/ (MostWanted /\ c = 0)})

\* What the directory accepted from a player of a live ranked race is what the store
\* has, as soon as nothing is in flight: no report of an earlier run with the same game
\* id stands in its way (ranking.py:404-440, sqlite_ranking.py:570-585).
AcceptedReportsAreFiled ==
    \A g \in Games : Live(g) /\ game[g].ranked =>
        \A u \in Reported(g) \intersect active :
            filed[Key(g)][u] = game[g].results[u] \/ InFlight(g, u)

\* A race whose reports name two categories is disputed, whatever is reported after,
\* and however the reports overtake each other (sqlite_ranking.py:607-640).
DisagreementIsDisputed ==
    \A k \in Keys : \A u, w \in Users :
        filed[k][u] # None /\ filed[k][w] # None /\ filed[k][u].category # filed[k][w].category
            => races[k].status = "disputed"

\* A race of the store is complete when the report of everybody still in it is filed
\* or about to be, a missing one as a disconnect (ranking.py:32-105, directory.py:362-386).
CompleteHasEveryone ==
    \A g \in Games : Live(g) /\ races[Key(g)] # None /\ races[Key(g)].status = "complete" =>
        \A u \in game[g].members \intersect active : filed[Key(g)][u] # None \/ InFlight(g, u)

\* The invariants of the reports together.
CountedOnce ==
    /\ TotalsAreTheFiledResults /\ AcceptedReportsAreFiled
    /\ DisagreementIsDisputed /\ CompleteHasEveryone
=============================================================================
