---------------------------- MODULE MCRaceStart ----------------------------
(***************************************************************************)
(* An instance of RaceStart for TLC: a host and two guests who load.       *)
(***************************************************************************)
EXTENDS RaceStart, FiniteSets

CONSTANTS h, a, b

Loads == {"loading", "racing"}

\* The shortest way to the barrier: everybody comes before the countdown, nobody is
\* lost, enters or is started before the room loads, and no publication waits for
\* its acknowledgement.
ShortWay ==
    /\ past.drops > 0 \/ past.entered # {} \/ (\E p \in Live : wire[p].seen) =>
            race.phase \in Loads
    /\ race.phase # "setup" => Cardinality(Live) + past.drops = Cardinality(Players)
    /\ race.phase # "finished" /\ race.timer <= 1
    /\ \A p \in Players : flight[p] = <<>>
    /\ \A p \in Live : ~wire[p].allocated /\ ~wire[p].retry
=============================================================================
