---------------------------- MODULE RaceResults ----------------------------
(***************************************************************************)
(* How a Carbon race is decided.  The rebroadcaster collects, per room,    *)
(* the LeaderFinished of each human in the order of arrival and the        *)
(* GameResults each client computed for everybody.  A ranked race is       *)
(* decided by the arrivals when everybody in the room has finished, else   *)
(* by reports that all agree; an unranked one when everybody has reported. *)
(* The decision is published once, counted in the progression of the       *)
(* players, and ends the race; reopening the room forgets the evidence.    *)
(* Players leave the room through Theater in the meantime.                 *)
(***************************************************************************)
EXTENDS Integers, FiniteSets, Sequences, SequencesExt

CONSTANTS
    Players,     \* profiles
    Cars,        \* server car ids, positive
    Reports,     \* [car |-> its reporter's or 0, rows |-> what it says of each car]
    Ranked,      \* CarbonGame.is_ranked
    Moderators,  \* players with the EA moderator role
    Carriers,    \* players who bring the virus of the event
    MaxRaces     \* bound on races in the room

Absent == -2  \* no row for a car
Lost   == -1  \* a row with lost_connection

\* Assumed where the module is instantiated.
ResultsAssumption ==
    /\ IsFiniteSet(Players) /\ IsFiniteSet(Cars)
    /\ Cars \subseteq Nat \ {0} /\ MaxRaces \in Nat
    /\ Ranked \in BOOLEAN /\ Moderators \subseteq Players /\ Carriers \subseteq Players
    /\ \A r \in Reports : r.car \in Cars \union {0} /\ r.rows \in [Cars -> Int]

NoReport == [car |-> 0, rows |-> [c \in Cars |-> Absent], sent |-> FALSE]

VARIABLES
    members,   \* the participants of the CarbonGame
    bound,     \* players whose endpoint is bound to the room
    phase,     \* RacePhase: "setup" stands for all before RACING
    tracker,   \* RaceResultTracker: cars, the order of finish signals, reports, final_sent
    relayed,   \* GameRaceState.relayed_racer_finished
    stats,     \* progression: races started, finished and lost
    virus, beat, \* players with the virus, and with Beat_Moderator
    race,      \* history: races so far, and whether a report came outside a race
    finals     \* history: the decisions published

vars == <<members, bound, phase, tracker, relayed, stats, virus, beat, race, finals>>

Fresh == [car |-> [p \in Players |-> 0], order |-> <<>>,
          report |-> [p \in Players |-> NoReport], sent |-> FALSE]

\* bind_car: a player keeps its car and a car its player.
CanBind(t, p, c) ==
    /\ c > 0 /\ t.car[p] \in {0, c}
    /\ \A q \in Players \ {p} : t.car[q] # c

Finished(t, p) == t.car[p] \in ToSet(t.order)

Reporters(t) == {p \in Players : t.report[p].sent}

Position(order, c) == CHOOSE i \in 1..Len(order) : order[i] = c

\* What the reports say of a car: the one rank all rows agree on, or 0.
Said(t, c) == {t.report[p].rows[c] : p \in Reporters(t)} \ {Absent}

ConsensusRank(t, c) ==
    IF c = 0 THEN 0 ELSE
    LET ranks == {n \in Said(t, c) : n > 0} IN IF Cardinality(ranks) = 1 THEN CHOOSE n \in ranks : TRUE ELSE 0

ConsensusLost(t, c) == c # 0 /\ Said(t, c) = {Lost}

\* ranked_report_order: the reports of all agree on a rank for every car.
Unanimous(t, who) ==
    /\ who # {} /\ who \subseteq Reporters(t) /\ \A p \in who : t.car[p] # 0
    /\ \A p \in who : \E n \in 1..Cardinality(Cars) : \A q \in who : t.report[q].rows[t.car[p]] = n

AgreedRank(t, p) == IF t.car[p] = 0 THEN Absent ELSE t.report[p].rows[t.car[p]]

\* ... the ranks differ, and the finishes seen so far come first and in that order.
ReportOrder(t, who) ==
    /\ Unanimous(t, who)
    /\ \A p, q \in who : p # q => AgreedRank(t, p) # AgreedRank(t, q)
    /\ \A p, q \in who : Finished(t, p) /\ AgreedRank(t, q) < AgreedRank(t, p) =>
          Finished(t, q) /\ Position(t.order, t.car[q]) < Position(t.order, t.car[p])

AllFinished(t, who) == \A p \in who : t.car[p] # 0 /\ Finished(t, p)

\* is_complete.
Complete(t, who) ==
    /\ who # {} /\ \A p \in who : t.car[p] # 0
    /\ IF Ranked THEN AllFinished(t, who) \/ ReportOrder(t, who) ELSE who \subseteq Reporters(t)

\* The rank of p: its place among the cars of the order that decides, else, in an
\* unranked race, what the reports say.
Rank(t, who, p) ==
    IF Ranked /\ ~AllFinished(t, who)
    THEN Cardinality({q \in who : AgreedRank(t, q) <= AgreedRank(t, p)})
    ELSE IF Finished(t, p) THEN Position(t.order, t.car[p])
    ELSE ConsensusRank(t, t.car[p])

\* Placed: finished, or reported so by those who were not cut off.
Placed(t, who, p) ==
    IF Ranked /\ AllFinished(t, who) THEN TRUE
    ELSE Rank(t, who, p) > 0 /\ ~ConsensusLost(t, t.car[p])
-----------------------------------------------------------------------------
Init ==
    /\ members \in SUBSET Players /\ bound = members
    /\ phase = "setup" /\ tracker = Fresh /\ relayed = {}
    /\ stats = [p \in Players |-> [started |-> 0, finished |-> 0, lost |-> 0]]
    /\ virus = Carriers /\ beat = {}
    /\ race = [number |-> 0, late |-> FALSE]
    /\ finals = {}

\* award_race: the virus of one spreads to everybody, and who beats a moderator.
Infected(who) == IF who \intersect virus # {} THEN virus \union who ELSE virus

Beaten(who, winners) ==
    IF Ranked /\ who \intersect Moderators # {} THEN beat \union winners ELSE beat

\* One decision, with what is counted for it: record_authoritative_race and award_race.
Count(final) ==
    LET who == DOMAIN final.rank
        winners == {p \in who : final.rank[p] = 1 /\ p \in final.placed}
    IN  /\ finals' = finals \union {final}
        /\ stats' = [p \in Players |->
                        IF p \notin who THEN stats[p]
                        ELSE [started |-> stats[p].started + 1,
                              finished |-> stats[p].finished + IF p \in final.placed THEN 1 ELSE 0,
                              lost |-> stats[p].lost + IF p \in final.placed THEN 0 ELSE 1]]
        /\ virus' = Infected(who)
        /\ beat' = Beaten(who, winners)

\* A plausible bug: a race that is decided is decided again.
Decides_Again(t) == Complete(t, members)

Decides(t) == ~t.sent /\ Complete(t, members)

\* finalize_if_complete and commit, with the evidence t.
Concluded(t) ==
    IF Decides(t)
    THEN /\ Count([race |-> race.number, phase |-> phase,
                   seen |-> [p \in members |-> IF Finished(t, p) THEN Position(t.order, t.car[p]) ELSE 0],
                   reported |-> members \intersect Reporters(t),
                   rank |-> [p \in members |-> Rank(t, members, p)],
                   placed |-> {p \in members : Placed(t, members, p)}])
         /\ tracker' = [t EXCEPT !.sent = TRUE]
         /\ phase' = IF phase = "racing" THEN "finished" ELSE phase
    ELSE /\ tracker' = t
         /\ UNCHANGED <<phase, stats, virus, beat, finals>>

\* handle_leader_finished: its own car, once, during the race.
LeaderFinished(p, c) ==
    /\ p \in bound /\ phase = "racing"
    /\ CanBind(tracker, p, c) /\ c \notin ToSet(tracker.order)
    /\ Concluded([tracker EXCEPT !.car[p] = c, !.order = Append(@, c)])
    /\ UNCHANGED <<members, bound, relayed, race>>

\* handle_client_racer_finished: told to everybody once per car, and no evidence.
RacerFinished(p, c) ==
    /\ p \in bound /\ phase = "racing" /\ c \notin relayed
    /\ relayed' = relayed \union {c}
    /\ UNCHANGED <<members, bound, phase, tracker, stats, virus, beat, race, finals>>

WithReport(p, r) ==
    IF r.car = 0 THEN [tracker EXCEPT !.report[p] = [car |-> 0, rows |-> r.rows, sent |-> TRUE]]
    ELSE IF CanBind(tracker, p, r.car)
    THEN [tracker EXCEPT !.car[p] = r.car,
                         !.report[p] = [car |-> r.car, rows |-> r.rows, sent |-> TRUE]]
    ELSE tracker

\* handle_result_report: in any phase, and again with other content.
ResultReport(p, r) ==
    /\ p \in bound
    /\ Concluded(WithReport(p, r))
    /\ race' = IF phase = "setup" THEN [race EXCEPT !.late = TRUE] ELSE race
    /\ UNCHANGED <<members, bound, relayed>>

\* StartRaceSync: the race begins (the steps before it are not told apart here).
RaceStarts ==
    /\ phase = "setup" /\ bound # {} /\ race.number < MaxRaces
    /\ phase' = "racing"
    /\ race' = [race EXCEPT !.number = @ + 1]
    /\ UNCHANGED <<members, bound, tracker, relayed, stats, virus, beat, finals>>

Forgotten == tracker' = Fresh

\* reopen_finished_room and reset_finished_race_for_rematch.
ReopenFinishedRoom ==
    /\ phase = "finished" /\ bound # {}
    /\ Forgotten
    /\ phase' = "setup" /\ relayed' = {}
    /\ UNCHANGED <<members, bound, stats, virus, beat, race, finals>>

\* ECNL, a lost Theater connection or a moderator: the participant is gone at once ...
MemberLeaves(p) ==
    /\ p \in members
    /\ members' = members \ {p}
    /\ UNCHANGED <<bound, phase, tracker, relayed, stats, virus, beat, race, finals>>

\* ... and its endpoint later; with the last one everything about the race is dropped.
EndpointUnbound(p) ==
    /\ p \in bound \ members
    /\ bound' = bound \ {p}
    /\ IF bound' = {}
       THEN phase' = "setup" /\ relayed' = {} /\ tracker' = Fresh
       ELSE UNCHANGED <<phase, relayed, tracker>>
    /\ UNCHANGED <<members, stats, virus, beat, race, finals>>

Next ==
    \/ \E p \in Players :
          \/ \E c \in Cars : LeaderFinished(p, c) \/ RacerFinished(p, c)
          \/ \E r \in Reports : ResultReport(p, r)
          \/ MemberLeaves(p) \/ EndpointUnbound(p)
    \/ RaceStarts \/ ReopenFinishedRoom

Spec == Init /\ [][Next]_vars
-----------------------------------------------------------------------------
\* The variables have their types; a car is bound to one player.
TypeOK ==
    /\ members \subseteq Players /\ bound \subseteq Players
    /\ phase \in {"setup", "racing", "finished"}
    /\ tracker.car \in [Players -> Cars \union {0}]
    /\ \A p, q \in Players : p # q /\ tracker.car[p] # 0 => tracker.car[p] # tracker.car[q]
    /\ \A c \in ToSet(tracker.order) : \E p \in Players : tracker.car[p] = c
    /\ relayed \subseteq Cars /\ virus \subseteq Players /\ beat \subseteq Players

\* A ranked race ranks everybody, without a tie, and never places ahead a player whose
\* LeaderFinished arrived after another's or not at all, whatever the reports said
\* (results.py:331-376, 393-470).
RanksAreEarned ==
    Ranked => \A f \in finals :
        LET who == DOMAIN f.rank
        IN  /\ \A p \in who : f.rank[p] > 0
            /\ \A p, q \in who : p # q => f.rank[p] # f.rank[q]
            /\ \A p, q \in who : f.seen[p] > 0 /\ f.rank[q] < f.rank[p] =>
                  f.seen[q] \in 1..(f.seen[p] - 1)

\* Who never finished and never reported is not judged by others: each player of a
\* decision gave evidence of its own (results.py:371-391).
NobodyIsJudgedInAbsence ==
    \A f \in finals : \A p \in DOMAIN f.rank : f.seen[p] > 0 \/ p \in f.reported

\* A finished race has been decided, and one that is being run has not, unless reports
\* came in before it began (race_results.py:268-299, room_lifecycle.py:220-232).
RaceAndDecisionAgree ==
    /\ phase = "finished" => tracker.sent
    /\ phase = "racing" /\ ~race.late => ~tracker.sent

\* The progression of a player is the decisions it was part of, each counted once, and
\* a race that was run is counted once (progression.py:521-611).
ProgressIsTheDecisions ==
    /\ \A p \in Players :
          LET Of(S) == Cardinality({f \in S : p \in DOMAIN f.rank})
          IN  /\ stats[p].started = Of(finals)
              /\ stats[p].finished = Cardinality({f \in finals : p \in f.placed})
              /\ stats[p].lost = stats[p].started - stats[p].finished
    /\ \A f, g \in finals : f.phase = "racing" /\ g.phase = "racing" /\ f.race = g.race => f = g
    /\ \A p \in beat : \E f \in finals : p \in f.placed /\ f.rank[p] = 1

\* The invariants of the results together.
DecidedOnce ==
    /\ RanksAreEarned /\ NobodyIsJudgedInAbsence
    /\ RaceAndDecisionAgree /\ ProgressIsTheDecisions
=============================================================================
