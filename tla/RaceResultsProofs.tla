--------------------------- MODULE RaceResultsProofs ---------------------------
(***************************************************************************)
(* Proofs about RaceResults, for any number of players, cars, reports and  *)
(* races: a race is decided once, and what is decided is what was seen.    *)
(*                                                                         *)
(* The inductive invariant says of the evidence that a car has one player  *)
(* and comes in once; of each decision that its ranks follow the evidence  *)
(* it was made from; and of the decisions together that no two are made in *)
(* the same phase of the same race, which is why none is counted twice.    *)
(*                                                                         *)
(* And, below, about RaceReports, the classic counterpart: for any number  *)
(* of players, games, categories, server runs and resets, a player's       *)
(* totals are its filed results, and what was accepted is filed.           *)
(***************************************************************************)
EXTENDS RaceResults, FiniteSetTheorems, TLAPS

ReportRecord == [car : Cars \union {0}, rows : [Cars -> Int], sent : BOOLEAN]
TrackerRecord == [car : [Players -> Cars \union {0}], order : Seq(Cars),
                  report : [Players -> ReportRecord], sent : BOOLEAN]

\* A car has one player, and comes in once.
SoundTracker(t) ==
    /\ t \in TrackerRecord
    /\ \A p, q \in Players : p # q /\ t.car[p] # 0 => t.car[p] # t.car[q]
    /\ \A i, j \in 1..Len(t.order) : t.order[i] = t.order[j] => i = j
    /\ \A i \in 1..Len(t.order) : \E p \in Players : t.car[p] = t.order[i]

Types ==
    /\ members \subseteq Players /\ bound \subseteq Players
    /\ phase \in {"setup", "racing", "finished"}
    /\ SoundTracker(tracker)
    /\ relayed \subseteq Cars /\ virus \subseteq Players /\ beat \subseteq Players
    /\ race \in [number : Nat, late : BOOLEAN]

\* What a decision says of the players it ranks.
Earned(f) ==
    LET who == DOMAIN f.rank
    IN  /\ \A p \in who : f.rank[p] > 0
        /\ \A p, q \in who : p # q => f.rank[p] # f.rank[q]
        /\ \A p, q \in who : f.seen[p] > 0 /\ f.rank[q] < f.rank[p] =>
              f.seen[q] \in 1..(f.seen[p] - 1)

Sound(f) ==
    /\ Ranked => Earned(f)
    /\ \A p \in DOMAIN f.rank : f.seen[p] > 0 \/ p \in f.reported
    /\ f.placed \subseteq DOMAIN f.rank
    /\ f.phase \in {"setup", "racing"} /\ f.race \in Nat

\* Whether this race is decided, and the decisions so far are of other races or of
\* another phase of this one.
Once ==
    /\ phase = "finished" => tracker.sent
    /\ phase # "finished" /\ ~race.late => ~tracker.sent
    /\ \A f \in finals :
          /\ f.race <= race.number
          /\ phase # "setup" /\ f.race = race.number => f.phase # "setup"
          /\ ~tracker.sent /\ bound # {} /\ f.race = race.number => f.phase # phase
    /\ \A f, g \in finals : f.phase = "racing" /\ g.phase = "racing" /\ f.race = g.race => f = g

Of(p, S) == Cardinality({f \in S : p \in DOMAIN f.rank})
With(p, S) == Cardinality({f \in S : p \in f.placed})

Counted ==
    /\ IsFiniteSet(finals)
    /\ stats \in [Players -> [started : Nat, finished : Nat, lost : Int]]
    /\ \A p \in Players :
          /\ stats[p].started = Of(p, finals)
          /\ stats[p].finished = With(p, finals)
          /\ stats[p].lost = stats[p].started - stats[p].finished
    /\ \A p \in beat : \E f \in finals : p \in f.placed /\ f.rank[p] = 1

Inv == Types /\ (\A f \in finals : Sound(f)) /\ Once /\ Counted

-----------------------------------------------------------------------------
(* What the evidence tells.                                                *)

\* The place of a car that has come in.
LEMMA PlaceInOrder ==
    ASSUME NEW t, SoundTracker(t), NEW c, c \in ToSet(t.order)
    PROVE  Position(t.order, c) \in 1..Len(t.order) /\ t.order[Position(t.order, c)] = c
<1>1. t.order \in Seq(Cars)
  BY DEF SoundTracker, TrackerRecord
<1>2. \E i \in 1..Len(t.order) : t.order[i] = c
  BY <1>1 DEF ToSet
<1> QED
  BY <1>2 DEF Position

\* Each has a place of its own.
LEMMA PlacesDiffer ==
    ASSUME NEW t, SoundTracker(t), NEW p \in Players, NEW q \in Players, p # q,
           Finished(t, p), Finished(t, q), t.car[p] # 0
    PROVE  Position(t.order, t.car[p]) # Position(t.order, t.car[q])
BY PlaceInOrder DEF Finished, SoundTracker

\* Who comes before p and who before q, when p is ranked before q.
LEMMA CountingRanks ==
    ASSUME NEW who, IsFiniteSet(who), NEW rank \in [who -> Int],
           NEW p \in who, NEW q \in who, rank[p] < rank[q]
    PROVE  /\ Cardinality({s \in who : rank[s] <= rank[p]}) \in Nat \ {0}
           /\ Cardinality({s \in who : rank[s] <= rank[p]})
                < Cardinality({s \in who : rank[s] <= rank[q]})
<1> DEFINE before(r) == {s \in who : rank[s] <= rank[r]}
<1>1. /\ \A r \in who : IsFiniteSet(before(r)) /\ Cardinality(before(r)) \in Nat
  BY FS_Subset, FS_CardinalityType
<1>2. before(p) \subseteq before(q) /\ q \in before(q) /\ q \notin before(p) /\ p \in before(p)
  OBVIOUS
<1>3. Cardinality(before(p)) # 0
  BY <1>1, <1>2, FS_EmptySet
<1>4. Cardinality(before(p)) < Cardinality(before(q))
  BY <1>1, <1>2, FS_Subset
<1> QED
  BY <1>1, <1>3, <1>4

LEMMA RanksArePositive ==
    ASSUME NEW who, IsFiniteSet(who), NEW rank \in [who -> Int], NEW p \in who
    PROVE  Cardinality({s \in who : rank[s] <= rank[p]}) \in Nat \ {0}
<1> DEFINE before == {s \in who : rank[s] <= rank[p]}
<1>1. IsFiniteSet(before) /\ Cardinality(before) \in Nat /\ p \in before
  BY FS_Subset, FS_CardinalityType
<1> QED
  BY <1>1, FS_EmptySet

Seen(t, p) == IF Finished(t, p) THEN Position(t.order, t.car[p]) ELSE 0

\* The ranks of a ranked race that its reports decide.
LEMMA ReportsRank ==
    ASSUME ResultsAssumption, NEW t, SoundTracker(t), NEW who \in SUBSET Players,
           ReportOrder(t, who), Ranked, ~AllFinished(t, who)
    PROVE  /\ \A p \in who : Rank(t, who, p) > 0
           /\ \A p, q \in who : p # q => Rank(t, who, p) # Rank(t, who, q)
           /\ \A p, q \in who : Seen(t, p) > 0 /\ Rank(t, who, q) < Rank(t, who, p) =>
                 Seen(t, q) \in 1..(Seen(t, p) - 1)
<1> DEFINE rank == [p \in who |-> AgreedRank(t, p)]
           before(p) == {s \in who : rank[s] <= rank[p]}
<1>1. IsFiniteSet(who)
  BY FS_Subset DEF ResultsAssumption
<1>2. rank \in [who -> Int]
  BY DEF ReportOrder, Unanimous, AgreedRank, SoundTracker, TrackerRecord, ReportRecord
<1>3. \A p \in who : Rank(t, who, p) = Cardinality(before(p))
  BY DEF Rank
<1>4. \A p, q \in who : p # q => rank[p] # rank[q]
  BY DEF ReportOrder
<1>5. \A p, q \in who : Finished(t, p) /\ rank[q] < rank[p] =>
         Finished(t, q) /\ Position(t.order, t.car[q]) < Position(t.order, t.car[p])
  BY DEF ReportOrder
<1>6. \A p \in who : Finished(t, p) => Position(t.order, t.car[p]) \in Nat \ {0}
  <2>1. t.order \in Seq(Cars)
    BY DEF SoundTracker, TrackerRecord
  <2> QED
    BY <2>1, PlaceInOrder DEF Finished
<1> HIDE DEF rank
<1>7. \A p \in who : Cardinality(before(p)) \in Nat \ {0}
  BY <1>1, <1>2, RanksArePositive
<1>8. \A p, q \in who : rank[p] < rank[q] => Cardinality(before(p)) < Cardinality(before(q))
  BY <1>1, <1>2, CountingRanks
<1> HIDE DEF before
<1>9. \A p, q \in who : p # q => Cardinality(before(p)) # Cardinality(before(q))
  <2> SUFFICES ASSUME NEW p \in who, NEW q \in who, p # q
               PROVE  Cardinality(before(p)) # Cardinality(before(q))
    OBVIOUS
  <2>1. rank[p] < rank[q] \/ rank[q] < rank[p]
    BY <1>2, <1>4
  <2> QED
    BY <2>1, <1>7, <1>8
<1>10. ASSUME NEW p \in who, NEW q \in who,
              Seen(t, p) > 0, Cardinality(before(q)) < Cardinality(before(p))
       PROVE  Seen(t, q) \in 1..(Seen(t, p) - 1)
  <2>1. Finished(t, p)
    BY <1>10 DEF Seen
  <2>2. p # q /\ ~(rank[p] < rank[q])
    BY <1>7, <1>8, <1>10
  <2>3. rank[q] < rank[p]
    BY <2>2, <1>2, <1>4
  <2> QED
    BY <2>1, <2>3, <1>5, <1>6 DEF Seen
<1> QED
  BY <1>3, <1>7, <1>9, <1>10

\* ... and of one whose players have all finished.
LEMMA FinishesRank ==
    ASSUME ResultsAssumption, NEW t, SoundTracker(t), NEW who \in SUBSET Players,
           AllFinished(t, who), Ranked
    PROVE  /\ \A p \in who : Rank(t, who, p) > 0
           /\ \A p, q \in who : p # q => Rank(t, who, p) # Rank(t, who, q)
           /\ \A p, q \in who : Seen(t, p) > 0 /\ Rank(t, who, q) < Rank(t, who, p) =>
                 Seen(t, q) \in 1..(Seen(t, p) - 1)
<1>1. t.order \in Seq(Cars)
  BY DEF SoundTracker, TrackerRecord
<1>2. \A p \in who : Finished(t, p) /\ t.car[p] # 0
  BY DEF AllFinished
<1>3. \A p \in who : /\ Rank(t, who, p) = Position(t.order, t.car[p])
                     /\ Seen(t, p) = Position(t.order, t.car[p])
  BY <1>2 DEF Rank, Seen
<1>4. \A p \in who : Position(t.order, t.car[p]) \in 1..Len(t.order)
  BY <1>2, PlaceInOrder DEF Finished
<1>5. \A p, q \in who : p # q =>
         Position(t.order, t.car[p]) # Position(t.order, t.car[q])
  BY <1>2, PlacesDiffer
<1> QED
  BY <1>1, <1>3, <1>4, <1>5

\* The decision that the evidence t makes for the participants.
Decision(t) ==
    [race |-> race.number, phase |-> phase,
     seen |-> [p \in members |-> IF Finished(t, p) THEN Position(t.order, t.car[p]) ELSE 0],
     reported |-> members \intersect Reporters(t),
     rank |-> [p \in members |-> Rank(t, members, p)],
     placed |-> {p \in members : Placed(t, members, p)}]

LEMMA DecisionsAreSound ==
    ASSUME ResultsAssumption, Types, NEW t, SoundTracker(t), Complete(t, members),
           phase \in {"setup", "racing"}
    PROVE  Sound(Decision(t))
<1> DEFINE f == Decision(t)
<1>1. /\ DOMAIN f.rank = members /\ f.placed \subseteq members
      /\ f.phase = phase /\ f.race = race.number
      /\ f.reported = members \intersect Reporters(t)
      /\ \A p \in members : f.rank[p] = Rank(t, members, p) /\ f.seen[p] = Seen(t, p)
  BY DEF Decision, Seen
<1>2. members \in SUBSET Players /\ race.number \in Nat
  BY DEF Types
<1> HIDE DEF f
<1>3. ASSUME Ranked
      PROVE  Earned(f)
  <2>1. /\ \A p \in members : Rank(t, members, p) > 0
        /\ \A p, q \in members : p # q => Rank(t, members, p) # Rank(t, members, q)
        /\ \A p, q \in members : Seen(t, p) > 0 /\ Rank(t, members, q) < Rank(t, members, p) =>
              Seen(t, q) \in 1..(Seen(t, p) - 1)
    <3>1. AllFinished(t, members) \/ ReportOrder(t, members)
      BY <1>3 DEF Complete
    <3> QED
      BY <3>1, <1>2, <1>3, ReportsRank, FinishesRank
  <2> QED
    BY <2>1, <1>1 DEF Earned
<1>4. ASSUME NEW p \in members
      PROVE  f.seen[p] > 0 \/ p \in f.reported
  <2>1. CASE Finished(t, p)
    <3>1. t.order \in Seq(Cars)
      BY DEF SoundTracker, TrackerRecord
    <3> QED
      BY <2>1, <3>1, <1>1, PlaceInOrder DEF Seen, Finished
  <2>2. CASE ~Finished(t, p)
    <3>1. members \subseteq Reporters(t)
      BY <2>2 DEF Complete, AllFinished, ReportOrder, Unanimous
    <3> QED
      BY <3>1, <1>1
  <2> QED
    BY <2>1, <2>2
<1> QED
  BY <1>1, <1>2, <1>3, <1>4 DEF Sound, f

-----------------------------------------------------------------------------
(* Every step keeps the invariant.                                         *)

\* A new decision counts once for each of its players.
LEMMA OneMore ==
    ASSUME NEW S, IsFiniteSet(S), NEW f, f \notin S, NEW p
    PROVE  /\ Of(p, S) \in Nat /\ With(p, S) \in Nat
           /\ Of(p, S \union {f}) = Of(p, S) + (IF p \in DOMAIN f.rank THEN 1 ELSE 0)
           /\ With(p, S \union {f}) = With(p, S) + (IF p \in f.placed THEN 1 ELSE 0)
<1> DEFINE of(T) == {g \in T : p \in DOMAIN g.rank}
           with(T) == {g \in T : p \in g.placed}
<1>1. /\ IsFiniteSet(of(S)) /\ IsFiniteSet(with(S))
      /\ Cardinality(of(S)) \in Nat /\ Cardinality(with(S)) \in Nat
  BY FS_Subset, FS_CardinalityType
<1>2. f \notin of(S) /\ f \notin with(S)
  OBVIOUS
<1>3. /\ of(S \union {f}) = IF p \in DOMAIN f.rank THEN of(S) \union {f} ELSE of(S)
      /\ with(S \union {f}) = IF p \in f.placed THEN with(S) \union {f} ELSE with(S)
  OBVIOUS
<1> HIDE DEF of, with
<1>4. /\ Cardinality(of(S) \union {f}) = Cardinality(of(S)) + 1
      /\ Cardinality(with(S) \union {f}) = Cardinality(with(S)) + 1
  BY <1>1, <1>2, FS_AddElement
<1>5. /\ Cardinality(of(S \union {f})) = Cardinality(of(S)) + (IF p \in DOMAIN f.rank THEN 1 ELSE 0)
      /\ Cardinality(with(S \union {f})) = Cardinality(with(S)) + (IF p \in f.placed THEN 1 ELSE 0)
  BY <1>1, <1>3, <1>4
<1> QED
  BY <1>1, <1>5 DEF of, with, Of, With

\* The decision is counted, and its winners may have beaten a moderator.
LEMMA CountedSteps ==
    ASSUME Types, Counted, NEW f, f \notin finals, f.placed \subseteq DOMAIN f.rank, Count(f)
    PROVE  Counted'
<1> DEFINE who == DOMAIN f.rank
<1>1. /\ finals' = finals \union {f}
      /\ stats' = [p \in Players |->
                      IF p \notin who THEN stats[p]
                      ELSE [started |-> stats[p].started + 1,
                            finished |-> stats[p].finished + IF p \in f.placed THEN 1 ELSE 0,
                            lost |-> stats[p].lost + IF p \in f.placed THEN 0 ELSE 1]]
      /\ beat' = Beaten(who, {p \in who : f.rank[p] = 1 /\ p \in f.placed})
  BY DEF Count
<1>2. IsFiniteSet(finals')
  BY <1>1, FS_AddElement DEF Counted
<1>3. ASSUME NEW p \in Players
      PROVE  /\ stats'[p] \in [started : Nat, finished : Nat, lost : Int]
             /\ stats'[p].started = Of(p, finals')
             /\ stats'[p].finished = With(p, finals')
             /\ stats'[p].lost = stats'[p].started - stats'[p].finished
  <2>1. /\ stats[p] \in [started : Nat, finished : Nat, lost : Int]
        /\ stats[p].started = Of(p, finals) /\ stats[p].finished = With(p, finals)
        /\ stats[p].lost = stats[p].started - stats[p].finished
    BY DEF Counted
  <2>2. /\ Of(p, finals') = Of(p, finals) + (IF p \in who THEN 1 ELSE 0)
        /\ With(p, finals') = With(p, finals) + (IF p \in f.placed THEN 1 ELSE 0)
    BY <1>1, OneMore DEF Counted
  <2>3. CASE p \notin who
    <3>1. stats'[p] = stats[p] /\ p \notin f.placed
      BY <1>1, <2>3
    <3> QED
      BY <2>1, <2>2, <2>3, <3>1
  <2>4. CASE p \in who
    <3>1. stats'[p] = [started |-> stats[p].started + 1,
                       finished |-> stats[p].finished + IF p \in f.placed THEN 1 ELSE 0,
                       lost |-> stats[p].lost + IF p \in f.placed THEN 0 ELSE 1]
      BY <1>1, <2>4
    <3> QED
      BY <2>1, <2>2, <2>4, <3>1
  <2> QED
    BY <2>3, <2>4
<1>4. stats' \in [Players -> [started : Nat, finished : Nat, lost : Int]]
  <2>1. stats' = [p \in Players |-> stats'[p]]
    BY <1>1
  <2> QED
    BY <2>1, <1>3
<1>5. ASSUME NEW p \in beat'
      PROVE  \E g \in finals' : p \in g.placed /\ g.rank[p] = 1
  BY <1>1, <1>5 DEF Beaten, Counted
<1> QED
  BY <1>2, <1>3, <1>4, <1>5 DEF Counted

\* finalize_if_complete upon new evidence.
LEMMA ConcludedSteps ==
    ASSUME ResultsAssumption, Inv, NEW t, SoundTracker(t), t.sent = tracker.sent,
           Concluded(t), bound # {}, UNCHANGED <<members, bound, relayed>>,
           race' = race \/ race' = [race EXCEPT !.late = TRUE],
           phase = "setup" => race'.late
    PROVE  Inv'
<1>1. /\ race' \in [number : Nat, late : BOOLEAN] /\ race'.number = race.number
      /\ (race.late => race'.late)
  BY DEF Inv, Types
<1>2. CASE Decides(t)
  <2> DEFINE f == Decision(t)
             t2 == [t EXCEPT !.sent = TRUE]
  <2>1. /\ Count(f) /\ tracker' = t2
        /\ phase' = IF phase = "racing" THEN "finished" ELSE phase
    BY <1>2 DEF Concluded, Decision
  <2>2. ~t.sent /\ Complete(t, members) /\ phase \in {"setup", "racing"}
    BY <1>2 DEF Decides, Inv, Types, Once
  <2>3. Sound(f)
    BY <2>2, DecisionsAreSound DEF Inv
  <2>4. f.race = race.number /\ f.phase = phase /\ DOMAIN f.rank = members
    BY DEF Decision
  <2> HIDE DEF f
  <2>5. \A g \in finals : g.race = race.number => g.phase # phase
    BY <2>2 DEF Inv, Once
  <2>6. f \notin finals
    BY <2>4, <2>5
  <2>7. finals' = finals \union {f}
    BY <2>1 DEF Count
  <2>8. SoundTracker(t2) /\ t2.sent
    BY DEF SoundTracker, TrackerRecord
  <2>9. virus' \subseteq Players /\ beat' \subseteq Players
    BY <2>1, <2>4 DEF Count, Infected, Beaten, Inv, Types
  <2>10. Types'
    BY <1>1, <2>1, <2>2, <2>8, <2>9 DEF Inv, Types
  <2>11. \A g \in finals' : Sound(g)
    BY <2>3, <2>7 DEF Inv
  <2>12. Once'
    <3>1. tracker'.sent
      BY <2>1, <2>8
    <3>2. \A g \in finals' : g.race <= race'.number
      BY <1>1, <2>4, <2>7 DEF Inv, Once, Types
    <3>3. \A g \in finals' : phase' # "setup" /\ g.race = race'.number => g.phase # "setup"
      BY <1>1, <2>1, <2>2, <2>4, <2>7 DEF Inv, Once
    <3>4. ASSUME NEW g \in finals', NEW h \in finals',
                 g.phase = "racing", h.phase = "racing", g.race = h.race
          PROVE  g = h
      BY <3>4, <2>4, <2>5, <2>7 DEF Inv, Once
    <3>5. /\ (phase' = "finished" => tracker'.sent)
          /\ (phase' # "finished" /\ ~race'.late => ~tracker'.sent)
      BY <1>1, <2>1, <2>2, <3>1
    <3> QED
      BY <3>1, <3>2, <3>3, <3>4, <3>5 DEF Once
  <2>13. Counted'
    BY <2>1, <2>3, <2>6, CountedSteps DEF Inv, Sound
  <2> QED
    BY <2>10, <2>11, <2>12, <2>13 DEF Inv
<1>3. CASE ~Decides(t)
  <2>1. tracker' = t /\ UNCHANGED <<phase, stats, virus, beat, finals>>
    BY <1>3 DEF Concluded
  <2>2. Types'
    BY <1>1, <2>1 DEF Inv, Types
  <2>3. Once'
    BY <1>1, <2>1 DEF Inv, Once
  <2>4. Counted'
    BY <2>1 DEF Inv, Counted, Of, With
  <2> QED
    BY <2>1, <2>2, <2>3, <2>4 DEF Inv
<1> QED
  BY <1>2, <1>3

\* A car that comes in for the first time.
LEMMA ComesIn ==
    ASSUME ResultsAssumption, NEW t, SoundTracker(t), NEW p \in Players, NEW c \in Cars,
           CanBind(t, p, c), c \notin ToSet(t.order)
    PROVE  SoundTracker([t EXCEPT !.car[p] = c, !.order = Append(@, c)])
<1> DEFINE u == [t EXCEPT !.car[p] = c, !.order = Append(@, c)]
           n == Len(t.order)
<1>1. /\ t \in TrackerRecord /\ t.order \in Seq(Cars) /\ t.car \in [Players -> Cars \union {0}]
      /\ 0 \notin Cars
  BY DEF SoundTracker, TrackerRecord, ResultsAssumption
<1>2. /\ u \in TrackerRecord /\ u.sent = t.sent
      /\ u.car = [t.car EXCEPT ![p] = c] /\ u.order = Append(t.order, c)
  <2>1. Append(t.order, c) \in Seq(Cars) /\ [t.car EXCEPT ![p] = c] \in [Players -> Cars \union {0}]
    BY <1>1
  <2>2. u = [t EXCEPT !.car = [t.car EXCEPT ![p] = c], !.order = Append(t.order, c)]
    BY <1>1 DEF TrackerRecord
  <2> QED
    BY <1>1, <2>1, <2>2 DEF TrackerRecord
<1> HIDE DEF u
<1>3. /\ Len(u.order) = n + 1 /\ u.order[n + 1] = c /\ n \in Nat
      /\ \A i \in 1..n : u.order[i] = t.order[i] /\ u.order[i] # c
  BY <1>1, <1>2 DEF ToSet
<1>4. /\ u.car[p] = c /\ t.car[p] \in {0, c}
      /\ \A q \in Players \ {p} : u.car[q] = t.car[q] /\ t.car[q] # c
  BY <1>1, <1>2 DEF CanBind
<1>5. \A q, s \in Players : q # s /\ u.car[q] # 0 => u.car[q] # u.car[s]
  BY <1>4 DEF SoundTracker
<1>6. \A i, j \in 1..(n + 1) : u.order[i] = u.order[j] => i = j
  <2> SUFFICES ASSUME NEW i \in 1..(n + 1), NEW j \in 1..(n + 1), u.order[i] = u.order[j]
               PROVE  i = j
    OBVIOUS
  <2>1. \A k \in 1..(n + 1) : k \in 1..n \/ k = n + 1
    BY <1>3
  <2>2. CASE i \in 1..n /\ j \in 1..n
    BY <2>2, <1>3 DEF SoundTracker
  <2>3. CASE ~(i \in 1..n /\ j \in 1..n)
    BY <2>1, <2>3, <1>3
  <2> QED
    BY <2>2, <2>3
<1>7. \A i \in 1..(n + 1) : \E q \in Players : u.car[q] = u.order[i]
  <2> SUFFICES ASSUME NEW i \in 1..(n + 1)
               PROVE  \E q \in Players : u.car[q] = u.order[i]
    OBVIOUS
  <2>1. CASE i = n + 1
    BY <2>1, <1>3, <1>4
  <2>2. CASE i # n + 1
    <3>1. i \in 1..n
      BY <2>2, <1>3
    <3>2. PICK q \in Players : t.car[q] = t.order[i]
      BY <3>1 DEF SoundTracker
    <3>3. t.order[i] \in Cars
      BY <1>1, <3>1
    <3>4. q # p
      BY <1>1, <1>3, <1>4, <3>1, <3>2, <3>3
    <3> QED
      BY <1>3, <1>4, <3>1, <3>2, <3>4
  <2> QED
    BY <2>1, <2>2
<1> QED
  BY <1>2, <1>3, <1>5, <1>6, <1>7 DEF SoundTracker, u

LEMMA ReportIsFiled ==
    ASSUME ResultsAssumption, Types, NEW p \in Players, NEW r \in Reports
    PROVE  SoundTracker(WithReport(p, r)) /\ WithReport(p, r).sent = tracker.sent
<1> DEFINE report(c) == [car |-> c, rows |-> r.rows, sent |-> TRUE]
<1>1. /\ r.car \in Cars \union {0} /\ r.rows \in [Cars -> Int] /\ SoundTracker(tracker)
  BY DEF ResultsAssumption, Types
<1>2. \A c \in Cars \union {0} : report(c) \in ReportRecord
  BY <1>1 DEF ReportRecord
<1>3. /\ tracker \in TrackerRecord /\ tracker.car \in [Players -> Cars \union {0}]
      /\ tracker.order \in Seq(Cars)
      /\ tracker.report \in [Players -> ReportRecord] /\ tracker.sent \in BOOLEAN
      /\ 0 \notin Cars
  BY <1>1 DEF SoundTracker, TrackerRecord, ResultsAssumption
<1>4. CASE r.car = 0
  <2> DEFINE u == [tracker EXCEPT !.report[p] = report(0)]
  <2>1. WithReport(p, r) = u
    BY <1>4 DEF WithReport
  <2>2. u \in TrackerRecord /\ u.car = tracker.car /\ u.order = tracker.order /\ u.sent = tracker.sent
    BY <1>2, <1>3 DEF TrackerRecord
  <2> HIDE DEF u
  <2> QED
    BY <1>1, <2>1, <2>2 DEF SoundTracker
<1>5. CASE r.car # 0 /\ CanBind(tracker, p, r.car)
  <2> DEFINE c == r.car
             u == [tracker EXCEPT !.car[p] = c, !.report[p] = report(c)]
  <2>1. WithReport(p, r) = u
    BY <1>5 DEF WithReport
  <2>2. /\ u \in TrackerRecord /\ u.order = tracker.order /\ u.sent = tracker.sent
        /\ u.car = [tracker.car EXCEPT ![p] = c]
    BY <1>1, <1>2, <1>3 DEF TrackerRecord
  <2> HIDE DEF u
  <2>3. /\ u.car[p] = c /\ tracker.car[p] \in {0, c}
        /\ \A q \in Players \ {p} : u.car[q] = tracker.car[q] /\ tracker.car[q] # c
    BY <1>3, <1>5, <2>2 DEF CanBind
  <2>4. \A q, s \in Players : q # s /\ u.car[q] # 0 => u.car[q] # u.car[s]
    BY <1>1, <2>3 DEF SoundTracker
  <2>5. ASSUME NEW i \in 1..Len(u.order)
        PROVE  \E q \in Players : u.car[q] = u.order[i]
    <3>1. PICK q \in Players : tracker.car[q] = tracker.order[i]
      BY <1>1, <2>2 DEF SoundTracker
    <3>2. tracker.car[q] # 0
      BY <1>3, <2>2, <3>1
    <3> QED
      BY <2>2, <2>3, <3>1, <3>2
  <2> QED
    BY <1>1, <2>1, <2>2, <2>4, <2>5 DEF SoundTracker
<1>6. CASE r.car # 0 /\ ~CanBind(tracker, p, r.car)
  BY <1>1, <1>6 DEF WithReport
<1> QED
  BY <1>4, <1>5, <1>6

\* A race without evidence.
LEMMA NoEvidence ==
    SoundTracker(Fresh) /\ ~Fresh.sent
<1>1. NoReport \in ReportRecord
  BY DEF NoReport, ReportRecord, Absent
<1> QED
  BY <1>1 DEF Fresh, SoundTracker, TrackerRecord

LEMMA Initially ==
    ASSUME ResultsAssumption, Init
    PROVE  Inv
<1>1. Types
  BY NoEvidence DEF Init, Types, ResultsAssumption
<1>2. (\A f \in finals : Sound(f)) /\ Once
  BY NoEvidence DEF Init, Once
<1>3. Counted
  <2>1. IsFiniteSet(finals) /\ \A p : Of(p, finals) = 0 /\ With(p, finals) = 0
    <3>1. finals = {}
      BY DEF Init
    <3>2. \A p : {f \in finals : p \in DOMAIN f.rank} = {} /\ {f \in finals : p \in f.placed} = {}
      BY <3>1
    <3> QED
      BY <3>1, <3>2, FS_EmptySet DEF Of, With
  <2> QED
    BY <2>1 DEF Init, Counted
<1> QED
  BY <1>1, <1>2, <1>3 DEF Inv

LEMMA ActionsKeepIt ==
    ASSUME ResultsAssumption, Inv, Next
    PROVE  Inv'
<1>1. ASSUME NEW p \in Players, NEW c \in Cars, LeaderFinished(p, c)
      PROVE  Inv'
  <2> DEFINE t == [tracker EXCEPT !.car[p] = c, !.order = Append(@, c)]
  <2>1. /\ Concluded(t) /\ UNCHANGED <<members, bound, relayed, race>>
        /\ bound # {} /\ phase = "racing"
        /\ CanBind(tracker, p, c) /\ c \notin ToSet(tracker.order)
    BY <1>1 DEF LeaderFinished
  <2>2. SoundTracker(t)
    BY <2>1, ComesIn DEF Inv, Types
  <2>3. t.sent = tracker.sent
    BY DEF Inv, Types, SoundTracker, TrackerRecord
  <2> HIDE DEF t
  <2> QED
    BY <2>1, <2>2, <2>3, ConcludedSteps
<1>2. ASSUME NEW p \in Players, NEW r \in Reports, ResultReport(p, r)
      PROVE  Inv'
  <2>1. /\ Concluded(WithReport(p, r)) /\ UNCHANGED <<members, bound, relayed>>
        /\ race' = IF phase = "setup" THEN [race EXCEPT !.late = TRUE] ELSE race
        /\ bound # {}
    BY <1>2 DEF ResultReport
  <2>2. phase = "setup" => race'.late
    BY <2>1 DEF Inv, Types
  <2>3. SoundTracker(WithReport(p, r)) /\ WithReport(p, r).sent = tracker.sent
    BY ReportIsFiled DEF Inv
  <2> QED
    BY <2>1, <2>2, <2>3, ConcludedSteps
<1>3. CASE UNCHANGED <<stats, beat, finals>>
           /\ \/ \E p \in Players : \/ \E c \in Cars : RacerFinished(p, c)
                                    \/ MemberLeaves(p) \/ EndpointUnbound(p)
              \/ RaceStarts \/ ReopenFinishedRoom
  <2>1. Counted' /\ \A f \in finals' : Sound(f)
    BY <1>3 DEF Inv, Counted, Of, With
  <2>2. ASSUME NEW p \in Players, NEW c \in Cars, RacerFinished(p, c)
        PROVE  Types' /\ Once'
    BY <2>2 DEF RacerFinished, Inv, Types, Once
  <2>3. ASSUME NEW p \in Players, MemberLeaves(p)
        PROVE  Types' /\ Once'
    BY <2>3 DEF MemberLeaves, Inv, Types, Once
  <2>4. ASSUME NEW p \in Players, EndpointUnbound(p)
        PROVE  Types' /\ Once'
    <3>1. CASE bound' = {}
      <4>1. /\ phase' = "setup" /\ relayed' = {} /\ tracker' = Fresh
            /\ UNCHANGED <<members, virus, beat, race, finals>>
        BY <2>4, <3>1 DEF EndpointUnbound
      <4>2. Types'
        BY <3>1, <4>1, NoEvidence DEF Inv, Types
      <4>3. Once'
        BY <3>1, <4>1, NoEvidence DEF Inv, Once
      <4> QED
        BY <4>2, <4>3
    <3>2. CASE bound' # {}
      <4>1. /\ UNCHANGED <<phase, relayed, tracker, members, virus, beat, race, finals>>
            /\ bound' \subseteq bound
        BY <2>4, <3>2 DEF EndpointUnbound
      <4> QED
        BY <3>2, <4>1 DEF Inv, Types, Once
    <3> QED
      BY <3>1, <3>2
  <2>5. ASSUME RaceStarts
        PROVE  Types' /\ Once'
    <3>1. /\ phase = "setup" /\ phase' = "racing" /\ race' = [race EXCEPT !.number = @ + 1]
          /\ UNCHANGED <<members, bound, tracker, relayed, virus, beat, finals>>
      BY <2>5 DEF RaceStarts
    <3>2. /\ race' \in [number : Nat, late : BOOLEAN] /\ race'.number = race.number + 1
          /\ race'.late = race.late /\ race.number \in Nat
      BY <3>1 DEF Inv, Types
    <3>3. \A f \in finals : f.race \in Nat /\ f.race <= race.number
      BY DEF Inv, Sound, Once
    <3>4. \A f \in finals' : f.race <= race'.number /\ f.race # race'.number
      BY <3>1, <3>2, <3>3
    <3>5. Types'
      BY <3>1, <3>2 DEF Inv, Types
    <3>6. Once'
      BY <3>1, <3>2, <3>4 DEF Inv, Once
    <3> QED
      BY <3>5, <3>6
  <2>6. ASSUME ReopenFinishedRoom
        PROVE  Types' /\ Once'
    <3>1. /\ phase = "finished" /\ phase' = "setup" /\ relayed' = {} /\ tracker' = Fresh
          /\ UNCHANGED <<members, bound, virus, beat, race, finals>>
      BY <2>6 DEF ReopenFinishedRoom, Forgotten
    <3>2. Types'
      BY <3>1, NoEvidence DEF Inv, Types
    <3>3. Once'
      BY <3>1, NoEvidence DEF Inv, Once
    <3> QED
      BY <3>2, <3>3
  <2> QED
    BY <1>3, <2>1, <2>2, <2>3, <2>4, <2>5, <2>6 DEF Inv
<1> QED
  BY <1>1, <1>2, <1>3 DEF Next, RacerFinished, MemberLeaves, EndpointUnbound, RaceStarts,
     ReopenFinishedRoom

LEMMA Invariant ==
    ASSUME ResultsAssumption
    PROVE  Spec => []Inv
<1>1. Init => Inv
  BY Initially
<1>2. Inv /\ [Next]_vars => Inv'
  <2> SUFFICES ASSUME Inv, [Next]_vars
               PROVE  Inv'
    OBVIOUS
  <2>1. CASE UNCHANGED vars
    <3>1. UNCHANGED <<members, bound, phase, tracker, relayed, stats, virus, beat, race, finals>>
      BY <2>1 DEF vars
    <3> QED
      BY <3>1 DEF Inv, Types, Once, Counted, Of, With
  <2> QED
    BY <2>1, ActionsKeepIt
<1> QED
  BY <1>1, <1>2, PTL DEF Spec

-----------------------------------------------------------------------------
(* The theorems.                                                           *)

\* The types, and that a car is bound to one player however often finishes and reports
\* claim it (bind_car).
THEOREM ResultsTypes ==
    ASSUME ResultsAssumption
    PROVE  Spec => []TypeOK
<1>1. Inv => TypeOK
  <2> SUFFICES ASSUME Inv
               PROVE  TypeOK
    OBVIOUS
  <2>1. SoundTracker(tracker) /\ tracker.order \in Seq(Cars)
    BY DEF Inv, Types, SoundTracker, TrackerRecord
  <2>2. \A c \in ToSet(tracker.order) : \E p \in Players : tracker.car[p] = c
    BY <2>1 DEF SoundTracker, ToSet
  <2> QED
    BY <2>1, <2>2 DEF Inv, Types, TypeOK, SoundTracker, TrackerRecord
<1> QED
  BY <1>1, Invariant, PTL

\* A ranked race ranks all of its players, without a tie, and nobody ahead of a player
\* whose finish was seen before; no report overturns what was seen.
THEOREM RanksFollowFinishes ==
    ASSUME ResultsAssumption
    PROVE  Spec => []RanksAreEarned
<1>1. Inv => RanksAreEarned
  BY DEF Inv, Sound, Earned, RanksAreEarned
<1> QED
  BY <1>1, Invariant, PTL

\* Nobody is judged who neither finished nor reported.
THEOREM EverybodyGaveEvidence ==
    ASSUME ResultsAssumption
    PROVE  Spec => []NobodyIsJudgedInAbsence
<1>1. Inv => NobodyIsJudgedInAbsence
  BY DEF Inv, Sound, NobodyIsJudgedInAbsence
<1> QED
  BY <1>1, Invariant, PTL

\* All that the runs check of the results, for any number of players, cars, reports
\* and races: earned ranks, no judgement in absence, a finished race that is decided,
\* and a progression that is the decisions, each counted once.
THEOREM RacesAreDecided ==
    ASSUME ResultsAssumption
    PROVE  Spec => []DecidedOnce
<1>1. Inv => RaceAndDecisionAgree
  BY DEF Inv, Once, RaceAndDecisionAgree
<1>2. Inv => ProgressIsTheDecisions
  BY DEF Inv, Once, Counted, ProgressIsTheDecisions, Of, With
<1>3. Inv => RanksAreEarned /\ NobodyIsJudgedInAbsence
  BY DEF Inv, Sound, Earned, RanksAreEarned, NobodyIsJudgedInAbsence
<1>4. Inv => DecidedOnce
  BY <1>1, <1>2, <1>3 DEF DecidedOnce
<1> QED
  BY <1>4, Invariant, PTL

-----------------------------------------------------------------------------
(* The race reports of the classic games.                                  *)

CONSTANTS Users, Games, Categories, MostWanted, MaxRuns, MaxEdits, None

VARIABLES run, game, playing, job, races, filed, totals, active, past

Tally == INSTANCE RaceReports WITH stats <- totals

\* A race of Most Wanted is ranked.
MostWantedRanks ==
    MostWanted => \A g \in Games : game[g] # None => game[g].ranked

\* What a job knows of the game it is about: the report it files is the one that was
\* accepted, and who is neither missing nor has reported has left.
JobIsSound(u) ==
    LET j == job[u]
        g == game[j.game]
    IN  /\ g # None
        /\ j.step \in {"file", "finalize", "file missing"} => g.ranked
        /\ j.step \in {"accept", "file"} => j.who = u
        /\ j.step \in {"file", "file missing"} => g.results[j.who] = j.result
        /\ j.step = "file" /\ j.complete => g.members \subseteq Tally!Reported(j.game)
        /\ j.missing # {} => j.step \in {"finalize", "file missing"}
        /\ j.step = "file missing" \/ j.missing # {} =>
              g.members \subseteq Tally!Reported(j.game) \union j.missing

JobsAreSound == \A u \in Users : job[u] # None => JobIsSound(u)

\* Of the present run the store has what the directory accepted, of later runs nothing;
\* the category of a race is that of all its results, unless it is disputed.
StoreFollows ==
    /\ \A k \in Tally!Keys : k[1] > run => races[k] = None
    /\ \A g \in Games : races[Tally!Key(g)] # None => game[g] # None /\ game[g].ranked
    /\ \A g \in Games, u \in Users :
          filed[Tally!Key(g)][u] # None => game[g].results[u] = filed[Tally!Key(g)][u]
    /\ \A k \in Tally!Keys, u \in Users :
          filed[k][u] # None =>
              races[k].category = filed[k][u].category \/ races[k].status = "disputed"

\* A job is about to file the report of u.
Filing(g, u) ==
    \E w \in Users : /\ job[w] # None /\ job[w].game = g /\ job[w].who = u
                     /\ job[w].step \in {"file", "file missing"}

MissingOf(g, u) == \E w \in Users : job[w] # None /\ job[w].game = g /\ u \in job[w].missing

\* An accepted report is filed, or about to be.
NothingIsDropped ==
    \A g \in Games, u \in Users :
        game[g] # None /\ game[g].ranked /\ game[g].results[u] # None /\ u \in active =>
            filed[Tally!Key(g)][u] # None \/ Filing(g, u)

\* A race is complete when everybody in it has reported or is filed as missing.
CompleteIsComplete ==
    \A g \in Games :
        races[Tally!Key(g)] # None /\ races[Tally!Key(g)].status = "complete" =>
            \A u \in game[g].members : game[g].results[u] # None \/ MissingOf(g, u)

FiledOf(u) == {k \in Tally!Keys : filed[k][u] # None}

\* The races whose result for u counts in category c with outcome o.
CountedRaces(u, c, o) ==
    {k \in Tally!Keys : /\ filed[k][u] # None /\ <<k, u, c>> \notin past.reset
                        /\ filed[k][u].outcome = o
                        /\ c = filed[k][u].category \/ (MostWanted /\ c = 0)}

\* The totals; a player has finitely many results, and what was reset had been filed.
TotalsHold ==
    /\ \A u \in Users : IsFiniteSet(FiledOf(u))
    /\ \A k \in Tally!Keys, u \in Users, c \in Categories :
          <<k, u, c>> \in past.reset => filed[k][u] # None
    /\ \A u \in Users, c \in Categories, o \in Tally!Outcomes :
          totals[u][c][o] = Cardinality(CountedRaces(u, c, o))

ReportsInv ==
    /\ Tally!TypeOK /\ MostWantedRanks /\ JobsAreSound /\ StoreFollows
    /\ NothingIsDropped /\ CompleteIsComplete /\ TotalsHold

\* The instance counts as the theorems about finite sets do.
LEMMA TallyCounts ==
    \A S : (Tally!IsFiniteSet(S) <=> IsFiniteSet(S)) /\ Tally!Cardinality(S) = Cardinality(S)
<1>1. \A S : Tally!IsFiniteSet(S) <=> IsFiniteSet(S)
  BY DEF Tally!IsFiniteSet, IsFiniteSet
<1>2. \A S : Tally!Cardinality(S) = Cardinality(S)
  BY DEF Tally!Cardinality, Cardinality
<1> QED
  BY <1>1, <1>2

-----------------------------------------------------------------------------
(* The types of the reports.                                               *)

LEMMA JobTypes ==
    ASSUME Tally!TypeOK, Tally!NoneAssumption, NEW u \in Users, job[u] # None
    PROVE  job[u] \in Tally!JobRecord
BY DEF Tally!TypeOK

LEMMA GameTypes ==
    ASSUME Tally!TypeOK, Tally!NoneAssumption, NEW g \in Games, game[g] # None
    PROVE  game[g] \in Tally!GameRecord
BY DEF Tally!TypeOK

LEMMA NewJobTypes ==
    ASSUME NEW s \in {"accept", "finalize"}, NEW g \in Games, NEW u \in Users,
           NEW r \in Tally!Reports
    PROVE  Tally!Job(s, g, u, r) \in Tally!JobRecord
BY DEF Tally!Job, Tally!JobRecord

LEMMA KeyTypes ==
    ASSUME Tally!TypeOK, Tally!ReportsAssumption, NEW g \in Games
    PROVE  Tally!Key(g) \in Tally!Keys /\ Tally!Key(g)[1] = run
BY DEF Tally!TypeOK, Tally!Key, Tally!Keys, Tally!ReportsAssumption

\* What a step leaves of a game that goes on: its results stay, and nobody joins it.
GoesOn(g) ==
    game[g] # None =>
        /\ game'[g] # None /\ game'[g].ranked = game[g].ranked
        /\ game'[g].members \subseteq game[g].members
        /\ \A u \in Users : game[g].results[u] # None => game'[g].results[u] = game[g].results[u]

LEMMA StartsTypes ==
    ASSUME Tally!TypeOK, Tally!NoneAssumption,
           NEW g \in Games, NEW party \in SUBSET Users, NEW owner \in Users,
           NEW ranked \in BOOLEAN, Tally!Starts(g, party, owner, ranked)
    PROVE  /\ Tally!TypeOK'
           /\ game'[g] \in Tally!GameRecord /\ game'[g].ranked = ranked /\ (MostWanted => ranked)
           /\ game'[g].members = party /\ \A u \in Users : game'[g].results[u] = None
           /\ \A h \in Games \ {g} : game'[h] = game[h]
           /\ game[g] = None
<1> DEFINE new == [owner |-> owner, ranked |-> ranked, members |-> party,
                   results |-> [u \in Users |-> None]]
<1>1. new \in Tally!GameRecord /\ new.ranked = ranked /\ new.members = party
  BY DEF Tally!GameRecord
<1>2. game' = [game EXCEPT ![g] = new] /\ game[g] = None /\ (MostWanted => ranked)
  BY DEF Tally!Starts
<1>3. \A u \in Users : new.results[u] = None
  OBVIOUS
<1> HIDE DEF new
<1>4. game' \in [Games -> Tally!GameRecord \union {None}] /\ game'[g] = new
      /\ \A h \in Games \ {g} : game'[h] = game[h]
  BY <1>1, <1>2 DEF Tally!TypeOK
<1>5. playing' \in [Users -> Games \union {None}]
  BY DEF Tally!Starts, Tally!TypeOK
<1>6. UNCHANGED <<run, job, races, filed, totals, active, past>>
  BY DEF Tally!Starts
<1>7. Tally!TypeOK'
  BY <1>4, <1>5, <1>6 DEF Tally!TypeOK, Tally!Keys
<1> QED
  BY <1>1, <1>2, <1>3, <1>4, <1>7

\* A thread that is given a job.
LEMMA GivenTypes ==
    ASSUME Tally!TypeOK, NEW u \in Users, NEW j \in Tally!JobRecord, job' = [job EXCEPT ![u] = j],
           UNCHANGED <<run, game, playing, races, filed, totals, active, past>>
    PROVE  Tally!TypeOK' /\ job'[u] = j /\ \A w \in Users \ {u} : job'[w] = job[w]
BY DEF Tally!TypeOK, Tally!Keys

LEMMA RankArrivesTypes ==
    ASSUME Tally!TypeOK, Tally!NoneAssumption, NEW u \in Users, NEW r \in Tally!Reports,
           Tally!RankArrives(u, r)
    PROVE  /\ Tally!TypeOK' /\ job'[u] \in Tally!JobRecord /\ \A w \in Users \ {u} : job'[w] = job[w]
           /\ job[u] = None /\ game[job'[u].game] # None
           /\ job'[u].step = "accept" /\ job'[u].who = u /\ job'[u].missing = {}
           /\ UNCHANGED <<run, game, races, filed, totals, active, past>>
<1> DEFINE j == Tally!Job("accept", playing[u], u, r)
<1>1. playing[u] \in Games /\ game[playing[u]] # None
  BY DEF Tally!RankArrives, Tally!TypeOK, Tally!Live
<1>2. j \in Tally!JobRecord /\ j.step = "accept" /\ j.who = u /\ j.missing = {} /\ j.game = playing[u]
  BY <1>1, NewJobTypes DEF Tally!Job
<1> HIDE DEF j
<1>3. /\ job' = [job EXCEPT ![u] = j] /\ job[u] = None
      /\ UNCHANGED <<run, game, playing, races, filed, totals, active, past>>
  BY DEF Tally!RankArrives, j
<1> QED
  BY <1>1, <1>2, <1>3, GivenTypes

LEMMA OwnerReplacesTypes ==
    ASSUME Tally!TypeOK, Tally!NoneAssumption, Tally!ReportsAssumption, NEW u \in Users,
           Tally!OwnerReplaces(u)
    PROVE  /\ Tally!TypeOK' /\ job'[u] \in Tally!JobRecord /\ \A w \in Users \ {u} : job'[w] = job[w]
           /\ job[u] = None /\ game[job'[u].game] # None
           /\ job'[u].step = "finalize" /\ job'[u].missing = Tally!Missing(job'[u].game)
           /\ MostWanted
           /\ UNCHANGED <<run, game, races, filed, totals, active, past>>
<1> DEFINE g == playing[u]
<1>1. g \in Games /\ game[g] # None /\ MostWanted /\ job[u] = None
  BY DEF Tally!OwnerReplaces, Tally!TypeOK, Tally!Live
<1>2. game[g] \in Tally!GameRecord
  BY <1>1, GameTypes
<1>3. PICK r \in {game[g].results[w] : w \in Tally!Decoded(g)}
                    \union {Tally!Result("disconnect", 0, FALSE)} :
         job' = [job EXCEPT ![u] =
                    [Tally!Job("finalize", g, u, Tally!Result("disconnect", r.category, FALSE))
                     EXCEPT !.missing = Tally!Missing(g)]]
  BY DEF Tally!OwnerReplaces
<1>4. r \in Tally!Reports
  <2>1. \A w \in Tally!Decoded(g) : game[g].results[w] \in Tally!Reports
    BY <1>2 DEF Tally!Decoded, Tally!Reported, Tally!GameRecord
  <2>2. Tally!Result("disconnect", 0, FALSE) \in Tally!Reports
    BY DEF Tally!Result, Tally!Reports, Tally!Outcomes, Tally!ReportsAssumption
  <2> QED
    BY <1>3, <2>1, <2>2
<1>5. Tally!Missing(g) \in SUBSET Users
  BY <1>2 DEF Tally!Missing, Tally!GameRecord
<1> DEFINE d == Tally!Result("disconnect", r.category, FALSE)
           j0 == Tally!Job("finalize", g, u, d)
           j == [j0 EXCEPT !.missing = Tally!Missing(g)]
<1>6. d \in Tally!Reports
  BY <1>4 DEF Tally!Result, Tally!Reports, Tally!Outcomes
<1> HIDE DEF d
<1>7. j0 \in Tally!JobRecord /\ j0.step = "finalize" /\ j0.game = g
  BY <1>1, <1>6, NewJobTypes DEF Tally!Job
<1> HIDE DEF j0
<1>8. j \in Tally!JobRecord /\ j.step = "finalize" /\ j.game = g /\ j.missing = Tally!Missing(g)
  BY <1>5, <1>7 DEF Tally!JobRecord
<1>9. /\ job' = [job EXCEPT ![u] = j]
      /\ UNCHANGED <<run, game, playing, races, filed, totals, active, past>>
  BY <1>3 DEF Tally!OwnerReplaces, j0, d
<1> HIDE DEF j
<1>10. Tally!TypeOK' /\ job'[u] = j /\ \A w \in Users \ {u} : job'[w] = job[w]
  BY <1>8, <1>9, GivenTypes
<1> HIDE DEF g
<1> QED
  BY <1>1, <1>8, <1>9, <1>10

LEMMA WithResultTypes ==
    ASSUME Tally!TypeOK, Tally!NoneAssumption, NEW g \in Games, NEW u \in Users,
           NEW r \in Tally!Reports,
           Tally!AcceptsReport(g, u), game' = Tally!WithResult(g, u, r)
    PROVE  /\ game' \in [Games -> Tally!GameRecord \union {None}]
           /\ game[g] \in Tally!GameRecord /\ game'[g] \in Tally!GameRecord
           /\ \A h \in Games \ {g} : game'[h] = game[h]
           /\ game'[g].ranked = game[g].ranked /\ game'[g].members = game[g].members
           /\ game'[g].results[u] = r /\ game[g].results[u] = None
           /\ \A w \in Users \ {u} : game'[g].results[w] = game[g].results[w]
           /\ Tally!Reported(g)' = Tally!Reported(g) \union {u}
<1>1. game[g] # None /\ game[g].results[u] = None
  BY DEF Tally!AcceptsReport, Tally!Live, Tally!Reported
<1>2. game[g] \in Tally!GameRecord
  BY <1>1, GameTypes
<1> DEFINE new == [game[g].results EXCEPT ![u] = r]
           next == [game[g] EXCEPT !.results = new]
<1>3. new \in [Users -> Tally!Reports \union {None}] /\ new[u] = r
      /\ \A w \in Users \ {u} : new[w] = game[g].results[w]
  BY <1>2 DEF Tally!GameRecord
<1>4. game' = [game EXCEPT ![g] = next]
  BY DEF Tally!WithResult
<1> HIDE DEF new
<1>5. next \in Tally!GameRecord /\ next.results = new /\ next.ranked = game[g].ranked
      /\ next.members = game[g].members
  BY <1>2, <1>3 DEF Tally!GameRecord
<1> HIDE DEF next
<1>6. game' \in [Games -> Tally!GameRecord \union {None}] /\ game'[g] = next
      /\ \A h \in Games \ {g} : game'[h] = game[h]
  BY <1>4, <1>5 DEF Tally!TypeOK
<1>7. r # None
  BY DEF Tally!NoneAssumption
<1> QED
  BY <1>1, <1>2, <1>3, <1>5, <1>6, <1>7 DEF Tally!Reported

\* The two outcomes of a report that reaches the directory.
Accepted(g, u, r) ==
    /\ game[g] # None /\ game[g].results[u] = None
    /\ game'[g].ranked = game[g].ranked /\ game'[g].members = game[g].members
    /\ game'[g].results[u] = r
    /\ \A w \in Users \ {u} : game'[g].results[w] = game[g].results[w]
    /\ Tally!Reported(g)' = Tally!Reported(g) \union {u}
    /\ \A h \in Games \ {g} : game'[h] = game[h]
    /\ game'[g] # None

LEMMA AcceptReportTypes ==
    ASSUME Tally!TypeOK, Tally!NoneAssumption, NEW u \in Users, Tally!AcceptReport(u),
           NEW g \in Games, g = job[u].game
    PROVE  /\ Tally!TypeOK' /\ \A w \in Users \ {u} : job'[w] = job[w]
           /\ job[u] # None /\ job[u].step = "accept"
           /\ UNCHANGED <<run, races, filed, totals, active, past>>
           /\ \/ /\ Accepted(g, u, job[u].result) /\ job'[u] \in Tally!JobRecord
                 /\ job'[u].game = g /\ job'[u].who = job[u].who
                 /\ job'[u].result = job[u].result /\ job'[u].missing = job[u].missing
                 /\ job'[u].step = IF game[g].ranked THEN "file" ELSE "filed"
                 /\ job'[u].complete = Tally!Complete(g, u)
              \/ game' = game /\ job'[u] = None
<1>1. job[u] # None /\ job[u].step = "accept"
  BY DEF Tally!AcceptReport
<1>2. job[u] \in Tally!JobRecord
  BY <1>1, JobTypes
<1>3. UNCHANGED <<run, playing, races, filed, totals, active, past>>
  BY DEF Tally!AcceptReport
<1>4. CASE Tally!AcceptsReport(g, u)
  <2> DEFINE s == IF game[g].ranked THEN "file" ELSE "filed"
             c == Tally!Complete(g, u)
             j == [job[u] EXCEPT !.step = s, !.complete = c]
  <2>1. game' = Tally!WithResult(g, u, job[u].result) /\ job' = [job EXCEPT ![u] = j]
    BY <1>4 DEF Tally!AcceptReport
  <2>2. c \in BOOLEAN /\ s \in {"file", "filed"}
    BY DEF Tally!Complete
  <2> HIDE DEF s, c
  <2>3. j \in Tally!JobRecord /\ j.step = s /\ j.complete = c /\ j.game = job[u].game
        /\ j.who = job[u].who /\ j.result = job[u].result /\ j.missing = job[u].missing
    BY <1>2, <2>2 DEF Tally!JobRecord
  <2> HIDE DEF j
  <2>4. job' \in [Users -> Tally!JobRecord \union {None}] /\ job'[u] = j
        /\ \A w \in Users \ {u} : job'[w] = job[w]
    BY <2>1, <2>3 DEF Tally!TypeOK
  <2>5. job[u].result \in Tally!Reports
    BY <1>2 DEF Tally!JobRecord
  <2>6. game' \in [Games -> Tally!GameRecord \union {None}] /\ Accepted(g, u, job[u].result)
    BY <1>4, <2>1, <2>5, WithResultTypes DEF Accepted, Tally!AcceptsReport, Tally!Live,
       Tally!NoneAssumption
  <2>7. Tally!TypeOK'
    BY <1>3, <2>4, <2>6 DEF Tally!TypeOK, Tally!Keys
  <2> QED
    BY <1>1, <1>3, <2>3, <2>4, <2>6, <2>7 DEF s, c
<1>5. CASE ~Tally!AcceptsReport(g, u)
  <2>1. job' = [job EXCEPT ![u] = None] /\ game' = game
    BY <1>5 DEF Tally!AcceptReport
  <2>2. Tally!TypeOK'
    BY <1>3, <2>1 DEF Tally!TypeOK, Tally!Keys
  <2> QED
    BY <1>1, <1>3, <2>1, <2>2 DEF Tally!TypeOK
<1> QED
  BY <1>4, <1>5

LEMMA AcceptMissingTypes ==
    ASSUME Tally!TypeOK, Tally!NoneAssumption, NEW u \in Users, Tally!AcceptMissing(u),
           NEW g \in Games, g = job[u].game
    PROVE  /\ Tally!TypeOK' /\ \A w \in Users \ {u} : job'[w] = job[w]
           /\ job[u] # None /\ job[u].step = "finalize"
           /\ UNCHANGED <<run, races, filed, totals, active, past>>
           /\ \E w \in job[u].missing :
                 /\ w \in Users /\ job'[u] \in Tally!JobRecord
                 /\ job'[u].game = g /\ job'[u].who = w /\ job'[u].result = job[u].result
                 /\ job'[u].missing = job[u].missing \ {w}
                 /\ \/ /\ Accepted(g, w, job[u].result) /\ job'[u].step = "file missing"
                    \/ /\ ~Tally!AcceptsReport(g, w) /\ game' = game /\ job'[u].step = "finalize"
<1>1. job[u] # None /\ job[u].step = "finalize"
  BY DEF Tally!AcceptMissing
<1>2. job[u] \in Tally!JobRecord
  BY <1>1, JobTypes
<1>3. UNCHANGED <<run, playing, races, filed, totals, active, past>>
  BY DEF Tally!AcceptMissing
<1>4. PICK w \in job[u].missing :
         LET next == [job[u] EXCEPT !.who = w, !.missing = @ \ {w}]
         IN  IF Tally!AcceptsReport(g, w)
             THEN /\ game' = Tally!WithResult(g, w, job[u].result)
                  /\ job' = [job EXCEPT ![u] = [next EXCEPT !.step = "file missing"]]
             ELSE job' = [job EXCEPT ![u] = next] /\ UNCHANGED game
  BY DEF Tally!AcceptMissing
<1>5. w \in Users /\ job[u].result \in Tally!Reports
  BY <1>2 DEF Tally!JobRecord
<1> DEFINE m == job[u].missing \ {w}
           next == [job[u] EXCEPT !.who = w, !.missing = m]
           last == [next EXCEPT !.step = "file missing"]
<1>6. m \in SUBSET Users
  BY <1>2 DEF Tally!JobRecord
<1> HIDE DEF m
<1>7. next \in Tally!JobRecord /\ next.who = w /\ next.missing = m /\ next.step = "finalize"
      /\ next.game = g /\ next.result = job[u].result
  BY <1>1, <1>2, <1>5, <1>6 DEF Tally!JobRecord
<1>8. IF Tally!AcceptsReport(g, w)
      THEN game' = Tally!WithResult(g, w, job[u].result) /\ job' = [job EXCEPT ![u] = last]
      ELSE job' = [job EXCEPT ![u] = next] /\ game' = game
  BY <1>4 DEF m
<1> HIDE DEF next
<1>9. last \in Tally!JobRecord /\ last.who = w /\ last.missing = m /\ last.step = "file missing"
      /\ last.game = g /\ last.result = job[u].result
  BY <1>7 DEF Tally!JobRecord
<1> HIDE DEF last
<1>10. CASE Tally!AcceptsReport(g, w)
  <2>1. job' \in [Users -> Tally!JobRecord \union {None}] /\ job'[u] = last
        /\ \A v \in Users \ {u} : job'[v] = job[v]
    BY <1>8, <1>9, <1>10 DEF Tally!TypeOK
  <2>2. game' \in [Games -> Tally!GameRecord \union {None}] /\ Accepted(g, w, job[u].result)
    BY <1>5, <1>8, <1>10, WithResultTypes DEF Accepted, Tally!AcceptsReport, Tally!Live,
       Tally!NoneAssumption
  <2>3. Tally!TypeOK'
    BY <1>3, <2>1, <2>2 DEF Tally!TypeOK, Tally!Keys
  <2> QED
    BY <1>1, <1>3, <1>5, <1>9, <2>1, <2>2, <2>3 DEF m
<1>11. CASE ~Tally!AcceptsReport(g, w)
  <2>1. job' \in [Users -> Tally!JobRecord \union {None}] /\ job'[u] = next /\ game' = game
        /\ \A v \in Users \ {u} : job'[v] = job[v]
    BY <1>7, <1>8, <1>11 DEF Tally!TypeOK
  <2>2. Tally!TypeOK'
    BY <1>3, <2>1 DEF Tally!TypeOK, Tally!Keys
  <2> QED
    BY <1>1, <1>3, <1>5, <1>7, <1>11, <2>1, <2>2 DEF m
<1> QED
  BY <1>10, <1>11

-----------------------------------------------------------------------------
(* The transaction of the store.                                           *)

\* What it does to the row of the race.
RowFollows(k, c, complete) ==
    /\ races'[k] \in Tally!RaceRecord
    /\ races[k] # None => races'[k].category = races[k].category
    /\ races'[k].category = c \/ races'[k].status = "disputed"
    /\ races[k] # None /\ races[k].status = "disputed" => races'[k].status = "disputed"
    /\ races'[k].status = "complete" =>
          complete \/ (races[k] # None /\ races[k].status = "complete")
    /\ \A l \in Tally!Keys \ {k} : races'[l] = races[l]

LEMMA RowOfARace ==
    ASSUME Tally!TypeOK, Tally!NoneAssumption, NEW k \in Tally!Keys, NEW c \in Categories,
           NEW complete \in BOOLEAN,
           races' = [races EXCEPT ![k] = Tally!RaceRow(k, c, complete)]
    PROVE  races' \in [Tally!Keys -> Tally!RaceRecord \union {None}] /\ RowFollows(k, c, complete)
<1> DEFINE row == Tally!RaceRow(k, c, complete)
<1>1. races[k] # None => races[k] \in Tally!RaceRecord
  BY DEF Tally!TypeOK
<1>2. /\ row \in Tally!RaceRecord
      /\ races[k] # None => row.category = races[k].category
      /\ row.category = c \/ row.status = "disputed"
      /\ races[k] # None /\ races[k].status = "disputed" => row.status = "disputed"
      /\ row.status = "complete" => complete \/ (races[k] # None /\ races[k].status = "complete")
  <2>1. CASE races[k] = None
    BY <2>1 DEF Tally!RaceRow, Tally!RaceRecord
  <2>2. CASE races[k] # None /\ races[k].category # c
    <3>1. row = [races[k] EXCEPT !.status = "disputed"]
      BY <2>2 DEF Tally!RaceRow
    <3>2. row \in Tally!RaceRecord /\ row.category = races[k].category /\ row.status = "disputed"
      BY <1>1, <2>2, <3>1 DEF Tally!RaceRecord
    <3> QED
      BY <3>2
  <2>3. CASE races[k] # None /\ races[k].category = c /\ complete /\ races[k].status # "disputed"
    <3>1. row = [races[k] EXCEPT !.status = "complete"]
      BY <2>3 DEF Tally!RaceRow
    <3>2. row \in Tally!RaceRecord /\ row.category = races[k].category
      BY <1>1, <2>3, <3>1 DEF Tally!RaceRecord
    <3> QED
      BY <2>3, <3>2
  <2>4. CASE races[k] # None /\ races[k].category = c /\ ~(complete /\ races[k].status # "disputed")
    <3>1. row = races[k]
      BY <2>4 DEF Tally!RaceRow
    <3> QED
      BY <1>1, <2>4, <3>1
  <2> QED
    BY <2>1, <2>2, <2>3, <2>4
<1> HIDE DEF row
<1>3. races' = [races EXCEPT ![k] = row]
  BY DEF row
<1>4. races' \in [Tally!Keys -> Tally!RaceRecord \union {None}] /\ races'[k] = row
      /\ \A l \in Tally!Keys \ {k} : races'[l] = races[l]
  BY <1>2, <1>3 DEF Tally!TypeOK
<1> QED
  BY <1>2, <1>4 DEF RowFollows

\* What it does to the results and the totals of the player.
RecordedOnce(k, u, r) ==
    /\ \A l \in Tally!Keys, w \in Users : ~(l = k /\ w = u) => filed'[l][w] = filed[l][w]
    /\ filed'[k][u] = IF filed[k][u] = None THEN r ELSE filed[k][u]
    /\ \A w \in Users \ {u} : totals'[w] = totals[w]
    /\ \A c \in Categories, o \in Tally!Outcomes :
          totals'[u][c][o] =
               IF filed[k][u] = None /\ c \in Tally!Counts(r.category) /\ o = r.outcome
               THEN totals[u][c][o] + 1 ELSE totals[u][c][o]

LEMMA RecordTypes ==
    ASSUME Tally!TypeOK, Tally!NoneAssumption, Tally!ReportsAssumption,
           NEW g \in Games, NEW u \in Users, NEW r \in Tally!Reports, NEW complete \in BOOLEAN,
           Tally!Record(g, u, r, complete)
    PROVE  /\ races' \in [Tally!Keys -> Tally!RaceRecord \union {None}]
           /\ filed' \in [Tally!Keys -> [Users -> Tally!Reports \union {None}]]
           /\ totals' \in [Users -> [Categories -> [Tally!Outcomes -> Nat]]]
           /\ \A k \in Tally!Keys, w \in Users : filed'[k][w] # None => races'[k] # None
           /\ \/ u \notin active /\ UNCHANGED <<races, filed, totals>>
              \/ /\ u \in active /\ RowFollows(Tally!Key(g), r.category, complete)
                 /\ RecordedOnce(Tally!Key(g), u, r)
<1>1. CASE u \notin active
  <2>1. UNCHANGED <<races, filed, totals>>
    BY <1>1 DEF Tally!Record
  <2> QED
    BY <1>1, <2>1 DEF Tally!TypeOK
<1>2. CASE u \in active
  <2> DEFINE k == Tally!Key(g)
             new == filed[k][u] = None
             row == [filed[k] EXCEPT ![u] = r]
             cell == [c \in Categories |->
                         IF new /\ c \in Tally!Counts(r.category)
                         THEN [totals[u][c] EXCEPT ![r.outcome] = @ + 1] ELSE totals[u][c]]
  <2>1. k \in Tally!Keys
    BY KeyTypes
  <2>2. /\ races' = [races EXCEPT ![k] = Tally!RaceRow(k, r.category, complete)]
        /\ filed' = IF new THEN [filed EXCEPT ![k] = row] ELSE filed
        /\ totals' = [totals EXCEPT ![u] = cell]
    <3>1. races' = [races EXCEPT ![k] = Tally!RaceRow(k, r.category, complete)]
      BY <1>2 DEF Tally!Record
    <3>2. filed' = IF new THEN [filed EXCEPT ![k] = row] ELSE filed
      BY <1>2 DEF Tally!Record
    <3>3. totals' = [totals EXCEPT ![u] = cell]
      BY <1>2 DEF Tally!Record
    <3> QED
      BY <3>1, <3>2, <3>3
  <2>3. r.category \in Categories /\ r.outcome \in Tally!Outcomes
    BY DEF Tally!Reports
  <2>4. races' \in [Tally!Keys -> Tally!RaceRecord \union {None}] /\ RowFollows(k, r.category, complete)
    BY <2>1, <2>2, <2>3, RowOfARace
  <2>5. row \in [Users -> Tally!Reports \union {None}] /\ row[u] = r
        /\ \A w \in Users \ {u} : row[w] = filed[k][w]
    BY <2>1 DEF Tally!TypeOK
  <2>6. /\ cell \in [Categories -> [Tally!Outcomes -> Nat]]
        /\ \A c \in Categories, o \in Tally!Outcomes :
              cell[c][o] = IF new /\ c \in Tally!Counts(r.category) /\ o = r.outcome
                           THEN totals[u][c][o] + 1 ELSE totals[u][c][o]
    <3>1. totals[u] \in [Categories -> [Tally!Outcomes -> Nat]]
      BY DEF Tally!TypeOK
    <3>2. ASSUME NEW c \in Categories
          PROVE  /\ cell[c] \in [Tally!Outcomes -> Nat]
                 /\ \A o \in Tally!Outcomes :
                       cell[c][o] = IF new /\ c \in Tally!Counts(r.category) /\ o = r.outcome
                                    THEN totals[u][c][o] + 1 ELSE totals[u][c][o]
      <4> DEFINE t == totals[u][c]
      <4>1. t \in [Tally!Outcomes -> Nat]
        BY <3>1
      <4> HIDE DEF t
      <4>2. CASE new /\ c \in Tally!Counts(r.category)
        <5>1. cell[c] = [t EXCEPT ![r.outcome] = t[r.outcome] + 1]
          BY <4>2 DEF t
        <5> DEFINE up == t[r.outcome] + 1
        <5>2. up \in Nat
          BY <2>3, <4>1
        <5>3. cell[c] = [t EXCEPT ![r.outcome] = up]
          BY <5>1
        <5> HIDE DEF up, cell
        <5>4. cell[c] \in [Tally!Outcomes -> Nat]
              /\ \A o \in Tally!Outcomes : cell[c][o] = IF o = r.outcome THEN up ELSE t[o]
          BY <2>3, <4>1, <5>2, <5>3
        <5> QED
          BY <4>2, <5>4 DEF up, t
      <4>3. CASE ~(new /\ c \in Tally!Counts(r.category))
        <5>1. cell[c] = t
          BY <4>3 DEF t
        <5> HIDE DEF cell
        <5> QED
          BY <4>1, <4>3, <5>1 DEF t
      <4> QED
        BY <4>2, <4>3
    <3>3. cell = [c \in Categories |-> cell[c]]
      OBVIOUS
    <3> HIDE DEF cell
    <3>4. cell \in [Categories -> [Tally!Outcomes -> Nat]]
      BY <3>2, <3>3
    <3> QED
      BY <3>2, <3>4
  <2> HIDE DEF cell, row
  <2>7. totals' \in [Users -> [Categories -> [Tally!Outcomes -> Nat]]] /\ totals'[u] = cell
        /\ \A w \in Users \ {u} : totals'[w] = totals[w]
    BY <2>2, <2>6 DEF Tally!TypeOK
  <2>8. filed' \in [Tally!Keys -> [Users -> Tally!Reports \union {None}]]
        /\ filed'[k] = (IF new THEN row ELSE filed[k])
        /\ \A l \in Tally!Keys \ {k} : filed'[l] = filed[l]
    BY <2>1, <2>2, <2>5 DEF Tally!TypeOK
  <2>9. RecordedOnce(k, u, r)
    <3>1. \A l \in Tally!Keys, w \in Users : ~(l = k /\ w = u) => filed'[l][w] = filed[l][w]
      BY <2>5, <2>8
    <3>2. filed'[k][u] = IF filed[k][u] = None THEN r ELSE filed[k][u]
      BY <2>5, <2>8
    <3> QED
      BY <3>1, <3>2, <2>6, <2>7 DEF RecordedOnce
  <2>10. \A l \in Tally!Keys, w \in Users : filed'[l][w] # None => races'[l] # None
    <3> SUFFICES ASSUME NEW l \in Tally!Keys, NEW w \in Users, filed'[l][w] # None
                 PROVE  races'[l] # None
      OBVIOUS
    <3>1. CASE l = k
      BY <3>1, <2>4 DEF RowFollows, Tally!NoneAssumption
    <3>2. CASE l # k
      BY <3>2, <2>4, <2>8 DEF RowFollows, Tally!TypeOK
    <3> QED
      BY <3>1, <3>2
  <2> HIDE DEF k
  <2> QED
    BY <1>2, <2>4, <2>7, <2>8, <2>9, <2>10 DEF k
<1> QED
  BY <1>1, <1>2

\* A step of a job that changes only how far it is.
LEMMA StageTypes ==
    ASSUME Tally!TypeOK, Tally!NoneAssumption, NEW u \in Users, job[u] # None,
           NEW s \in {"accept", "file", "filed", "finalize", "file missing"},
           job' = [job EXCEPT ![u].step = s]
    PROVE  /\ job' \in [Users -> Tally!JobRecord \union {None}]
           /\ job'[u] \in Tally!JobRecord /\ job'[u].step = s
           /\ job'[u].game = job[u].game /\ job'[u].who = job[u].who
           /\ job'[u].result = job[u].result /\ job'[u].complete = job[u].complete
           /\ job'[u].missing = job[u].missing
           /\ \A w \in Users \ {u} : job'[w] = job[w]
<1> DEFINE j == [job[u] EXCEPT !.step = s]
<1>1. job[u] \in Tally!JobRecord
  BY JobTypes
<1>2. j \in Tally!JobRecord /\ j.step = s /\ j.game = job[u].game /\ j.who = job[u].who
      /\ j.result = job[u].result /\ j.complete = job[u].complete /\ j.missing = job[u].missing
  BY <1>1 DEF Tally!JobRecord
<1>3. job' = [job EXCEPT ![u] = j]
  OBVIOUS
<1> HIDE DEF j
<1>4. job' \in [Users -> Tally!JobRecord \union {None}] /\ job'[u] = j
      /\ \A w \in Users \ {u} : job'[w] = job[w]
  BY <1>2, <1>3 DEF Tally!TypeOK
<1> QED
  BY <1>2, <1>4

\* The two actions that file a report.
Files(u, who, complete) ==
    \/ Tally!FileReport(u) /\ who = u /\ complete = job[u].complete
    \/ Tally!FileMissing(u) /\ who = job[u].who /\ complete = TRUE

LEMMA FilesTypes ==
    ASSUME Tally!TypeOK, Tally!NoneAssumption, Tally!ReportsAssumption, NEW u \in Users,
           NEW who, NEW complete,
           Files(u, who, complete), NEW g, g = job[u].game
    PROVE  /\ Tally!TypeOK' /\ who \in Users /\ complete \in BOOLEAN /\ g \in Games
           /\ UNCHANGED <<run, game, active, past>>
           /\ job[u] # None /\ job[u].result \in Tally!Reports
           /\ job[u].step \in {"file", "file missing"}
           /\ Tally!FileReport(u) => job[u].step = "file"
           /\ ~Tally!FileReport(u) => job[u].step = "file missing"
           /\ job'[u] \in Tally!JobRecord /\ job'[u].game = g
           /\ job'[u].missing = job[u].missing
           /\ job'[u].step = IF Tally!FileReport(u) THEN "filed" ELSE "finalize"
           /\ \A w \in Users \ {u} : job'[w] = job[w]
           /\ \/ who \notin active /\ UNCHANGED <<races, filed, totals>>
              \/ /\ who \in active /\ RowFollows(Tally!Key(g), job[u].result.category, complete)
                 /\ RecordedOnce(Tally!Key(g), who, job[u].result)
<1>1. /\ job[u] # None
      /\ Tally!FileReport(u) => job[u].step = "file"
      /\ ~Tally!FileReport(u) => job[u].step = "file missing" /\ Tally!FileMissing(u)
      /\ job[u].step \in {"file", "file missing"}
      /\ UNCHANGED <<run, game, playing, active, past>>
      /\ Tally!Record(g, who, job[u].result, complete)
  BY DEF Files, Tally!FileReport, Tally!FileMissing
<1>2. job[u] \in Tally!JobRecord
  BY <1>1, JobTypes
<1>3. who \in Users /\ complete \in BOOLEAN /\ job[u].result \in Tally!Reports /\ g \in Games
  BY <1>2 DEF Files, Tally!JobRecord
<1> DEFINE s == IF Tally!FileReport(u) THEN "filed" ELSE "finalize"
<1>4. job' = [job EXCEPT ![u].step = s]
  BY <1>1 DEF Tally!FileReport, Tally!FileMissing
<1>5. s \in {"accept", "file", "filed", "finalize", "file missing"}
  OBVIOUS
<1> HIDE DEF s
<1>6. /\ job' \in [Users -> Tally!JobRecord \union {None}]
      /\ job'[u] \in Tally!JobRecord /\ job'[u].step = s
      /\ job'[u].game = job[u].game /\ job'[u].who = job[u].who
      /\ job'[u].missing = job[u].missing
      /\ \A w \in Users \ {u} : job'[w] = job[w]
  BY <1>1, <1>4, <1>5, StageTypes
<1>7. /\ races' \in [Tally!Keys -> Tally!RaceRecord \union {None}]
      /\ filed' \in [Tally!Keys -> [Users -> Tally!Reports \union {None}]]
      /\ totals' \in [Users -> [Categories -> [Tally!Outcomes -> Nat]]]
      /\ \A k \in Tally!Keys, w \in Users : filed'[k][w] # None => races'[k] # None
      /\ \/ who \notin active /\ UNCHANGED <<races, filed, totals>>
         \/ /\ who \in active /\ RowFollows(Tally!Key(g), job[u].result.category, complete)
            /\ RecordedOnce(Tally!Key(g), who, job[u].result)
  BY <1>1, <1>3, RecordTypes
<1>8. Tally!TypeOK'
  BY <1>1, <1>6, <1>7 DEF Tally!TypeOK, Tally!Keys
<1> QED
  BY <1>1, <1>3, <1>6, <1>7, <1>8 DEF s

LEMMA ReplyTypes ==
    ASSUME Tally!TypeOK, NEW u \in Users, Tally!Reply(u)
    PROVE  /\ Tally!TypeOK' /\ job'[u] = None /\ \A w \in Users \ {u} : job'[w] = job[w]
           /\ job[u] # None /\ job[u].step = "filed"
           /\ UNCHANGED <<run, game, races, filed, totals, active, past>>
<1>1. /\ job' = [job EXCEPT ![u] = None] /\ job[u] # None /\ job[u].step = "filed"
      /\ UNCHANGED <<run, game, races, filed, totals, active, past>>
  BY DEF Tally!Reply
<1>2. playing' \in [Users -> Games \union {None}]
  BY DEF Tally!Reply, Tally!TypeOK
<1>3. job' \in [Users -> Tally!JobRecord \union {None}] /\ job'[u] = None
      /\ \A w \in Users \ {u} : job'[w] = job[w]
  BY <1>1 DEF Tally!TypeOK
<1>4. Tally!TypeOK'
  BY <1>1, <1>2, <1>3 DEF Tally!TypeOK, Tally!Keys
<1> QED
  BY <1>1, <1>3, <1>4

\* A game that loses members, which keeps all the rest.
LEMMA FewerMembers ==
    ASSUME Tally!TypeOK, Tally!NoneAssumption, NEW g \in Games, game[g] # None,
           NEW party \in SUBSET Users, party \subseteq game[g].members,
           game' = [game EXCEPT ![g].members = party]
    PROVE  /\ game' \in [Games -> Tally!GameRecord \union {None}]
           /\ \A h \in Games : GoesOn(h) /\ (game[h] = None => game'[h] = None)
           /\ \A h \in Games \ {g} : game'[h] = game[h]
           /\ game'[g] # None /\ game'[g].members = party
           /\ game'[g].ranked = game[g].ranked /\ game'[g].results = game[g].results
<1> DEFINE next == [game[g] EXCEPT !.members = party]
<1>1. game[g] \in Tally!GameRecord
  BY GameTypes
<1>2. next \in Tally!GameRecord /\ next.members = party /\ next.ranked = game[g].ranked
      /\ next.results = game[g].results
  BY <1>1 DEF Tally!GameRecord
<1>3. game' = [game EXCEPT ![g] = next]
  OBVIOUS
<1> HIDE DEF next
<1>4. game' \in [Games -> Tally!GameRecord \union {None}] /\ game'[g] = next
      /\ \A h \in Games \ {g} : game'[h] = game[h]
  BY <1>2, <1>3 DEF Tally!TypeOK
<1>5. next # None
  BY <1>2 DEF Tally!NoneAssumption
<1> QED
  BY <1>2, <1>4, <1>5 DEF GoesOn

LEMMA CloseReplacedTypes ==
    ASSUME Tally!TypeOK, Tally!NoneAssumption, NEW u \in Users, Tally!CloseReplaced(u),
           game[job[u].game] # None
    PROVE  /\ Tally!TypeOK' /\ job'[u] = None /\ \A w \in Users \ {u} : job'[w] = job[w]
           /\ job[u] # None /\ job[u].missing = {} /\ job[u].step = "finalize"
           /\ \A h \in Games : GoesOn(h) /\ (game[h] = None => game'[h] = None)
           /\ \A h \in Games : game'[h] # None => game'[h].results = game[h].results
           /\ UNCHANGED <<run, races, filed, totals, active, past>>
<1> DEFINE g == job[u].game
<1>1. /\ job' = [job EXCEPT ![u] = None] /\ job[u] # None /\ job[u].missing = {}
      /\ job[u].step = "finalize"
      /\ game' = [game EXCEPT ![g].members = {}]
      /\ UNCHANGED <<run, races, filed, totals, active, past>>
  BY DEF Tally!CloseReplaced
<1>2. g \in Games
  BY <1>1, JobTypes DEF Tally!JobRecord
<1>3. playing' \in [Users -> Games \union {None}]
  BY DEF Tally!CloseReplaced, Tally!TypeOK
<1>4. job' \in [Users -> Tally!JobRecord \union {None}] /\ job'[u] = None
      /\ \A w \in Users \ {u} : job'[w] = job[w]
  BY <1>1 DEF Tally!TypeOK
<1>5. /\ game' \in [Games -> Tally!GameRecord \union {None}]
      /\ \A h \in Games : GoesOn(h) /\ (game[h] = None => game'[h] = None)
      /\ \A h \in Games \ {g} : game'[h] = game[h]
      /\ game'[g].results = game[g].results
  BY <1>1, <1>2, FewerMembers
<1>6. Tally!TypeOK'
  BY <1>1, <1>3, <1>4, <1>5 DEF Tally!TypeOK, Tally!Keys
<1> QED
  BY <1>1, <1>4, <1>5, <1>6

LEMMA LeavesTypes ==
    ASSUME Tally!TypeOK, Tally!NoneAssumption, NEW u \in Users, Tally!Leaves(u)
    PROVE  /\ Tally!TypeOK'
           /\ \A h \in Games : GoesOn(h) /\ (game[h] = None => game'[h] = None)
           /\ \A h \in Games : game'[h] # None => game'[h].results = game[h].results
           /\ UNCHANGED <<run, job, races, filed, totals, active, past>>
<1> DEFINE g == playing[u]
           party == game[g].members \ {u}
<1>1. g \in Games /\ game[g] # None
  BY DEF Tally!Leaves, Tally!TypeOK, Tally!Live
<1>2. party \in SUBSET Users /\ party \subseteq game[g].members
  BY <1>1, GameTypes DEF Tally!GameRecord
<1>3. game' = [game EXCEPT ![g].members = party]
      /\ UNCHANGED <<run, job, races, filed, totals, active, past>>
  BY DEF Tally!Leaves
<1> HIDE DEF party
<1>4. playing' \in [Users -> Games \union {None}]
  BY DEF Tally!Leaves, Tally!TypeOK
<1>5. /\ game' \in [Games -> Tally!GameRecord \union {None}]
      /\ \A h \in Games : GoesOn(h) /\ (game[h] = None => game'[h] = None)
      /\ \A h \in Games \ {g} : game'[h] = game[h]
      /\ game'[g].results = game[g].results
  BY <1>1, <1>2, <1>3, FewerMembers
<1>6. Tally!TypeOK'
  BY <1>3, <1>4, <1>5 DEF Tally!TypeOK, Tally!Keys
<1> QED
  BY <1>3, <1>5, <1>6

LEMMA ResetTypes ==
    ASSUME Tally!TypeOK, Tally!ReportsAssumption, NEW u \in Users, NEW cs \in SUBSET Categories,
           Tally!ResetStats(u, cs)
    PROVE  /\ Tally!TypeOK'
           /\ UNCHANGED <<run, game, job, races, filed, active>>
           /\ \A w \in Users, c \in Categories, o \in Tally!Outcomes :
                 totals'[w][c][o] = IF w = u /\ c \in cs THEN 0 ELSE totals[w][c][o]
           /\ \A k \in Tally!Keys, w \in Users, c \in Categories :
                 <<k, w, c>> \in past'.reset <=>
                     <<k, w, c>> \in past.reset \/ (filed[k][u] # None /\ w = u /\ c \in cs)
<1> DEFINE cell == [c \in Categories |-> IF c \in cs THEN Tally!Zero ELSE totals[u][c]]
           new == {k \in Tally!Keys : filed[k][u] # None} \X {u} \X cs
<1>1. /\ totals' = [totals EXCEPT ![u] = cell]
      /\ past.edits < MaxEdits
      /\ past' = [edits |-> past.edits + 1, reset |-> past.reset \union new]
      /\ UNCHANGED <<run, game, playing, job, races, filed, active>>
  BY DEF Tally!ResetStats
<1>2. cell \in [Categories -> [Tally!Outcomes -> Nat]]
  BY DEF Tally!TypeOK, Tally!Zero
<1>3. \A c \in Categories, o \in Tally!Outcomes :
         cell[c][o] = IF c \in cs THEN 0 ELSE totals[u][c][o]
  BY DEF Tally!Zero
<1> HIDE DEF cell
<1>4. totals' \in [Users -> [Categories -> [Tally!Outcomes -> Nat]]] /\ totals'[u] = cell
      /\ \A w \in Users \ {u} : totals'[w] = totals[w]
  BY <1>1, <1>2 DEF Tally!TypeOK
<1>5. new \subseteq (Tally!Keys \X Users \X Categories)
  OBVIOUS
<1>6. \A k \in Tally!Keys, w \in Users, c \in Categories :
         <<k, w, c>> \in new <=> filed[k][u] # None /\ w = u /\ c \in cs
  OBVIOUS
<1> HIDE DEF new
<1>7. past' \in [reset : SUBSET (Tally!Keys \X Users \X Categories), edits : 0..MaxEdits]
      /\ past'.reset = past.reset \union new
  <2>1. past.edits \in 0..MaxEdits /\ past.reset \in SUBSET (Tally!Keys \X Users \X Categories)
    BY DEF Tally!TypeOK
  <2>2. past.edits + 1 \in 0..MaxEdits
    BY <1>1, <2>1 DEF Tally!ReportsAssumption
  <2> DEFINE n == past.edits + 1
             r == past.reset \union new
  <2>3. past' = [edits |-> n, reset |-> r] /\ n \in 0..MaxEdits
        /\ r \in SUBSET (Tally!Keys \X Users \X Categories)
    BY <1>1, <1>5, <2>1, <2>2
  <2> HIDE DEF n
  <2> QED
    BY <2>3
<1>8. Tally!TypeOK'
  BY <1>1, <1>4, <1>7 DEF Tally!TypeOK, Tally!Keys
<1> QED
  BY <1>1, <1>3, <1>4, <1>6, <1>7, <1>8

LEMMA RestartTypes ==
    ASSUME Tally!TypeOK, Tally!ReportsAssumption, Tally!Restart
    PROVE  /\ Tally!TypeOK' /\ run' = run + 1 /\ run \in Nat
           /\ \A g \in Games : game'[g] = None
           /\ \A u \in Users : job'[u] = None
           /\ UNCHANGED <<races, filed, totals, active, past>>
<1>1. run' \in 1..MaxRuns /\ run' = run + 1 /\ run \in Nat
  BY DEF Tally!Restart, Tally!TypeOK, Tally!ReportsAssumption
<1>2. /\ game' = [g \in Games |-> None] /\ playing' = [u \in Users |-> None]
      /\ job' = [u \in Users |-> None] /\ UNCHANGED <<races, filed, totals, active, past>>
  BY DEF Tally!Restart
<1>3. Tally!TypeOK'
  BY <1>1, <1>2 DEF Tally!TypeOK, Tally!Keys
<1> QED
  BY <1>1, <1>2, <1>3

-----------------------------------------------------------------------------
(* The steps that leave the store alone.                                   *)

LEMMA JobStaysSound ==
    ASSUME Tally!TypeOK, Tally!TypeOK', Tally!NoneAssumption, NEW w \in Users, job[w] # None,
           JobIsSound(w),
           job'[w] = job[w], GoesOn(job[w].game)
    PROVE  JobIsSound(w)'
<1> DEFINE j == job[w]
           g == j.game
<1>1. j \in Tally!JobRecord /\ g \in Games /\ j.who \in Users /\ j.result # None
  BY JobTypes DEF Tally!JobRecord, Tally!NoneAssumption
<1>2. game[g] # None /\ game'[g] # None /\ game'[g].ranked = game[g].ranked
      /\ game'[g].members \subseteq game[g].members
      /\ \A u \in Users : game[g].results[u] # None => game'[g].results[u] = game[g].results[u]
  BY DEF JobIsSound, GoesOn
<1>3. Tally!Reported(g) \subseteq Tally!Reported(g)'
  BY <1>2 DEF Tally!Reported
<1> QED
  BY <1>1, <1>2, <1>3 DEF JobIsSound

\* A game that a step leaves alone or lets go on, or that it starts.
Starting(g) ==
    /\ game'[g] # None
    /\ MostWanted => game'[g].ranked
    /\ \A u \in Users : game'[g].results[u] = None

GamesGoOn ==
    \A g \in Games : GoesOn(g) /\ (game[g] = None => game'[g] = None \/ Starting(g))

\* What a step that leaves the store alone may do to the reports on their way.
ReportsGoOn ==
    /\ \A w \in Users : job'[w] # None =>
          JobIsSound(w)' \/ (job'[w] = job[w] /\ job[w] # None)
    /\ \A g \in Games, u \in Users :
          /\ Filing(g, u) => Filing(g, u)'
          /\ game[g] # None /\ game[g].results[u] = None /\ game'[g].results[u] # None
                => (game[g].ranked => Filing(g, u)')
          /\ MissingOf(g, u) =>
                \/ MissingOf(g, u)' \/ game'[g] = None
                \/ u \notin game'[g].members \/ game'[g].results[u] # None

LEMMA StoreStays ==
    ASSUME ReportsInv, Tally!TypeOK', Tally!NoneAssumption, Tally!ReportsAssumption,
           UNCHANGED <<run, races, filed, totals, past>>, active' \subseteq active,
           GamesGoOn, ReportsGoOn
    PROVE  ReportsInv'
<1>1. MostWantedRanks'
  BY DEF ReportsInv, MostWantedRanks, GamesGoOn, GoesOn, Starting
<1>2. JobsAreSound'
  <2> SUFFICES ASSUME NEW w \in Users, job'[w] # None
               PROVE  JobIsSound(w)'
    BY DEF JobsAreSound
  <2>1. CASE job'[w] = job[w] /\ job[w] # None
    <3>1. JobIsSound(w) /\ job[w].game \in Games
      BY <2>1, JobTypes DEF ReportsInv, JobsAreSound, Tally!JobRecord
    <3> QED
      BY <2>1, <3>1, JobStaysSound DEF ReportsInv, GamesGoOn
  <2> QED
    BY <2>1 DEF ReportsGoOn
<1>3. \A g \in Games : Tally!Key(g)' = Tally!Key(g) /\ Tally!Key(g) \in Tally!Keys
  BY KeyTypes DEF Tally!Key, ReportsInv
<1>4. \A g \in Games : game[g] = None =>
         races[Tally!Key(g)] = None /\ \A u \in Users : filed[Tally!Key(g)][u] = None
  BY <1>3 DEF ReportsInv, StoreFollows, Tally!TypeOK
<1>5. StoreFollows'
  <2>1. \A g \in Games : races'[Tally!Key(g)'] # None => game'[g] # None /\ game'[g].ranked
    BY <1>3, <1>4 DEF ReportsInv, StoreFollows, GamesGoOn, GoesOn
  <2>2. \A g \in Games, u \in Users :
           filed'[Tally!Key(g)'][u] # None => game'[g].results[u] = filed'[Tally!Key(g)'][u]
    BY <1>3, <1>4 DEF ReportsInv, StoreFollows, GamesGoOn, GoesOn
  <2>3. \A k \in Tally!Keys : k[1] > run' => races'[k] = None
    BY DEF ReportsInv, StoreFollows
  <2>4. \A k \in Tally!Keys, u \in Users : filed'[k][u] # None =>
           races'[k].category = filed'[k][u].category \/ races'[k].status = "disputed"
    BY DEF ReportsInv, StoreFollows
  <2> QED
    BY <2>1, <2>2, <2>3, <2>4 DEF StoreFollows, Tally!Keys
<1>6. NothingIsDropped'
  <2> SUFFICES ASSUME NEW g \in Games, NEW u \in Users,
                      game'[g] # None, game'[g].ranked, game'[g].results[u] # None, u \in active'
               PROVE  filed'[Tally!Key(g)'][u] # None \/ Filing(g, u)'
    BY DEF NothingIsDropped
  <2>1. game[g] # None /\ game[g].ranked
    BY DEF GamesGoOn, Starting, GoesOn
  <2>2. CASE game[g].results[u] # None
    BY <1>3, <2>1, <2>2 DEF ReportsInv, NothingIsDropped, ReportsGoOn
  <2>3. CASE game[g].results[u] = None
    BY <2>1, <2>3 DEF ReportsGoOn
  <2> QED
    BY <2>2, <2>3
<1>7. CompleteIsComplete'
  <2> SUFFICES ASSUME NEW g \in Games, races'[Tally!Key(g)'] # None,
                      races'[Tally!Key(g)'].status = "complete", NEW u \in Users, u \in game'[g].members
               PROVE  game'[g].results[u] # None \/ MissingOf(g, u)'
    <3>1. \A g \in Games : game'[g] # None => game'[g].members \subseteq Users
      BY GameTypes DEF Tally!TypeOK, Tally!GameRecord, Tally!NoneAssumption
    <3>2. \A g \in Games : races'[Tally!Key(g)'] # None => game'[g] # None
      BY <1>5 DEF StoreFollows
    <3> QED
      BY <3>1, <3>2 DEF CompleteIsComplete
  <2>1. races[Tally!Key(g)] # None /\ races[Tally!Key(g)].status = "complete" /\ game[g] # None
    BY <1>3, <1>4
  <2>2. u \in game[g].members /\ game'[g] # None
        /\ (game[g].results[u] # None => game'[g].results[u] # None)
    BY <2>1 DEF GamesGoOn, GoesOn
  <2>3. game[g].results[u] # None \/ MissingOf(g, u)
    BY <2>1, <2>2 DEF ReportsInv, CompleteIsComplete
  <2> QED
    BY <2>2, <2>3 DEF ReportsGoOn
<1>8. TotalsHold'
  BY DEF ReportsInv, TotalsHold, FiledOf, CountedRaces, Tally!Keys
<1> QED
  BY <1>1, <1>2, <1>5, <1>6, <1>7, <1>8 DEF ReportsInv

\* Only the job of u changes, and it neither gives up a report nor a missing player.
LEMMA OneJobChanges ==
    ASSUME Tally!TypeOK, NEW u \in Users, \A w \in Users \ {u} : job'[w] = job[w],
           NEW g \in Games, NEW w \in Users
    PROVE  /\ ~(job[u] # None /\ job[u].game = g /\ job[u].who = w
                /\ job[u].step \in {"file", "file missing"})
                 => (Filing(g, w) => Filing(g, w)')
           /\ ~(job[u] # None /\ job[u].game = g /\ w \in job[u].missing)
                 => (MissingOf(g, w) => MissingOf(g, w)')
BY DEF Filing, MissingOf

LEMMA StartsInv ==
    ASSUME ReportsInv, Tally!NoneAssumption, Tally!ReportsAssumption,
           NEW g \in Games, NEW party \in SUBSET Users, NEW owner \in Users,
           NEW ranked \in BOOLEAN, Tally!Starts(g, party, owner, ranked)
    PROVE  ReportsInv'
<1>1. /\ Tally!TypeOK' /\ \A h \in Games \ {g} : game'[h] = game[h]
      /\ game[g] = None /\ Starting(g)
      /\ UNCHANGED <<run, job, races, filed, totals, active, past>>
  <2> Tally!TypeOK
    BY DEF ReportsInv
  <2>1. /\ Tally!TypeOK'
        /\ game'[g] \in Tally!GameRecord /\ game'[g].ranked = ranked /\ (MostWanted => ranked)
        /\ game'[g].members = party /\ \A u \in Users : game'[g].results[u] = None
        /\ \A h \in Games \ {g} : game'[h] = game[h]
        /\ game[g] = None
    BY StartsTypes
  <2>2. Starting(g)
    BY <2>1 DEF Starting, Tally!NoneAssumption
  <2>3. UNCHANGED <<run, job, races, filed, totals, active, past>>
    BY DEF Tally!Starts
  <2> QED
    BY <2>1, <2>2, <2>3
<1>2. GamesGoOn
  BY <1>1 DEF GamesGoOn, GoesOn
<1>3. ReportsGoOn
  BY <1>1 DEF ReportsGoOn, Filing, MissingOf
<1> QED
  BY <1>1, <1>2, <1>3, StoreStays

LEMMA RankArrivesInv ==
    ASSUME ReportsInv, Tally!NoneAssumption, Tally!ReportsAssumption,
           NEW u \in Users, NEW r \in Tally!Reports, Tally!RankArrives(u, r)
    PROVE  ReportsInv'
<1>1. /\ Tally!TypeOK' /\ job'[u] \in Tally!JobRecord /\ \A w \in Users \ {u} : job'[w] = job[w]
      /\ job[u] = None /\ game[job'[u].game] # None
      /\ job'[u].step = "accept" /\ job'[u].who = u /\ job'[u].missing = {}
      /\ UNCHANGED <<run, game, races, filed, totals, active, past>>
  BY RankArrivesTypes DEF ReportsInv
<1>2. GamesGoOn
  BY <1>1 DEF GamesGoOn, GoesOn
<1>3. JobIsSound(u)'
  BY <1>1 DEF JobIsSound
<1>4. ReportsGoOn
  BY <1>1, <1>3, OneJobChanges DEF ReportsGoOn, ReportsInv
<1> QED
  BY <1>1, <1>2, <1>4, StoreStays

LEMMA OwnerReplacesInv ==
    ASSUME ReportsInv, Tally!NoneAssumption, Tally!ReportsAssumption, NEW u \in Users,
           Tally!OwnerReplaces(u)
    PROVE  ReportsInv'
<1>1. /\ Tally!TypeOK' /\ job'[u] \in Tally!JobRecord /\ \A w \in Users \ {u} : job'[w] = job[w]
      /\ job[u] = None /\ game[job'[u].game] # None
      /\ job'[u].step = "finalize" /\ job'[u].missing = Tally!Missing(job'[u].game)
      /\ MostWanted
      /\ UNCHANGED <<run, game, races, filed, totals, active, past>>
  BY OwnerReplacesTypes DEF ReportsInv
<1>2. GamesGoOn
  BY <1>1 DEF GamesGoOn, GoesOn
<1>3. PICK g \in Games : g = job'[u].game
  BY <1>1 DEF Tally!JobRecord
<1>4. JobIsSound(u)'
  <2>1. game[g] # None /\ game[g].ranked
    BY <1>1, <1>3 DEF ReportsInv, MostWantedRanks
  <2>2. Tally!Missing(g) # {} => game[g].members \subseteq Tally!Reported(g) \union Tally!Missing(g)
    BY DEF Tally!Missing
  <2>3. Tally!Reported(g)' = Tally!Reported(g)
    BY <1>1 DEF Tally!Reported
  <2> QED
    BY <1>1, <1>3, <2>1, <2>2, <2>3 DEF JobIsSound
<1>5. ReportsGoOn
  BY <1>1, <1>4, OneJobChanges DEF ReportsGoOn, ReportsInv
<1> QED
  BY <1>1, <1>2, <1>5, StoreStays

\* The result of u is accepted; the games go on.
LEMMA AcceptedGoesOn ==
    ASSUME ReportsInv, Tally!NoneAssumption, NEW g \in Games, NEW u \in Users,
           NEW r \in Tally!Reports,
           Accepted(g, u, r)
    PROVE  /\ GamesGoOn /\ game[g] # None
           /\ \A h \in Games, w \in Users :
                 game[h] # None /\ game[h].results[w] = None /\ game'[h].results[w] # None
                    => h = g /\ w = u
<1>1. GoesOn(g)
  BY DEF Accepted, GoesOn
<1>2. \A h \in Games \ {g} : GoesOn(h) /\ game'[h] = game[h]
  BY DEF Accepted, GoesOn
<1>3. GamesGoOn
  BY <1>1, <1>2 DEF GamesGoOn, Accepted
<1> QED
  BY <1>2, <1>3 DEF Accepted

LEMMA AcceptReportInv ==
    ASSUME ReportsInv, Tally!NoneAssumption, Tally!ReportsAssumption, NEW u \in Users,
           Tally!AcceptReport(u)
    PROVE  ReportsInv'
<1> SUFFICES ASSUME NEW g, g = job[u].game, NEW r, r = job[u].result
             PROVE  ReportsInv'
  OBVIOUS
<1>0. g \in Games
  <2>1. job[u] # None
    BY DEF Tally!AcceptReport
  <2> QED
    BY <2>1, JobTypes DEF ReportsInv, Tally!JobRecord
<1>1. /\ Tally!TypeOK' /\ \A w \in Users \ {u} : job'[w] = job[w]
      /\ job[u] # None /\ job[u].step = "accept"
      /\ UNCHANGED <<run, races, filed, totals, active, past>>
      /\ \/ /\ Accepted(g, u, r) /\ job'[u] \in Tally!JobRecord
            /\ job'[u].game = g /\ job'[u].who = job[u].who
            /\ job'[u].result = r /\ job'[u].missing = job[u].missing
            /\ job'[u].step = IF game[g].ranked THEN "file" ELSE "filed"
            /\ job'[u].complete = Tally!Complete(g, u)
         \/ game' = game /\ job'[u] = None
  BY <1>0, AcceptReportTypes DEF ReportsInv
<1>2. g \in Games /\ r \in Tally!Reports /\ job[u].who = u /\ job[u].missing = {}
  BY <1>1, JobTypes DEF ReportsInv, JobsAreSound, JobIsSound, Tally!JobRecord
<1>3. CASE game' = game /\ job'[u] = None
  <2>1. GamesGoOn
    BY <1>3 DEF GamesGoOn, GoesOn
  <2>2. ReportsGoOn
    BY <1>1, <1>2, <1>3, OneJobChanges DEF ReportsGoOn, ReportsInv
  <2> QED
    BY <1>1, <2>1, <2>2, StoreStays
<1>4. ASSUME Accepted(g, u, r), job'[u] \in Tally!JobRecord,
             job'[u].game = g, job'[u].who = job[u].who, job'[u].result = r,
             job'[u].missing = job[u].missing,
             job'[u].step = IF game[g].ranked THEN "file" ELSE "filed",
             job'[u].complete = Tally!Complete(g, u)
      PROVE  ReportsInv'
  <2>1. GamesGoOn /\ \A h \in Games, w \in Users :
           game[h] # None /\ game[h].results[w] = None /\ game'[h].results[w] # None
              => h = g /\ w = u
    BY <1>2, <1>4, AcceptedGoesOn
  <2>2. /\ game'[g] # None /\ game'[g].ranked = game[g].ranked
        /\ game'[g].results[u] = r /\ game'[g].members = game[g].members
        /\ Tally!Reported(g)' = Tally!Reported(g) \union {u}
    BY <1>4 DEF Accepted
  <2>3. JobIsSound(u)'
    <3>1. job'[u].step = "file" /\ job'[u].complete => game'[g].members \subseteq Tally!Reported(g)'
      BY <1>4, <2>2 DEF Tally!Complete
    <3> QED
      BY <1>2, <1>4, <2>2, <3>1 DEF JobIsSound
  <2>4. game[g].ranked => Filing(g, u)'
    BY <1>2, <1>4 DEF Filing, Tally!NoneAssumption
  <2>5. ReportsGoOn
    <3>1. ASSUME NEW w \in Users, job'[w] # None
          PROVE  JobIsSound(w)' \/ (job'[w] = job[w] /\ job[w] # None)
      <4>1. CASE w = u
        BY <2>3, <4>1
      <4>2. CASE w # u
        <5>1. job'[w] = job[w]
          BY <1>1, <4>2
        <5> QED
          BY <3>1, <5>1
      <4> QED
        BY <4>1, <4>2
    <3>2. ASSUME NEW h \in Games, NEW w \in Users
          PROVE  (Filing(h, w) => Filing(h, w)') /\ (MissingOf(h, w) => MissingOf(h, w)')
      <4>1. Tally!TypeOK /\ job[u].step \notin {"file", "file missing"} /\ w \notin job[u].missing
        BY <1>1, <1>2 DEF ReportsInv
      <4>2. \A v \in Users \ {u} : job'[v] = job[v]
        BY <1>1
      <4> QED
        BY <4>1, <4>2, OneJobChanges
    <3>3. \A h \in Games, w \in Users :
             game[h] # None /\ game[h].results[w] = None /\ game'[h].results[w] # None
                => (game[h].ranked => Filing(h, w)')
      BY <2>1, <2>4
    <3> QED
      BY <3>1, <3>2, <3>3 DEF ReportsGoOn
  <2> QED
    BY <1>1, <2>1, <2>5, StoreStays
<1> QED
  BY <1>1, <1>3, <1>4

LEMMA AcceptMissingInv ==
    ASSUME ReportsInv, Tally!NoneAssumption, Tally!ReportsAssumption, NEW u \in Users,
           Tally!AcceptMissing(u)
    PROVE  ReportsInv'
<1> SUFFICES ASSUME NEW g, g = job[u].game, NEW r, r = job[u].result
             PROVE  ReportsInv'
  OBVIOUS
<1>0. g \in Games
  <2>1. job[u] # None
    BY DEF Tally!AcceptMissing
  <2> QED
    BY <2>1, JobTypes DEF ReportsInv, Tally!JobRecord
<1>1. /\ Tally!TypeOK' /\ \A w \in Users \ {u} : job'[w] = job[w]
      /\ job[u] # None /\ job[u].step = "finalize"
      /\ UNCHANGED <<run, races, filed, totals, active, past>>
      /\ \E w \in job[u].missing :
            /\ w \in Users /\ job'[u] \in Tally!JobRecord
            /\ job'[u].game = g /\ job'[u].who = w /\ job'[u].result = r
            /\ job'[u].missing = job[u].missing \ {w}
            /\ \/ /\ Accepted(g, w, r) /\ job'[u].step = "file missing"
               \/ /\ ~Tally!AcceptsReport(g, w) /\ game' = game /\ job'[u].step = "finalize"
  BY <1>0, AcceptMissingTypes DEF ReportsInv
<1>2. PICK w \in job[u].missing :
            /\ w \in Users /\ job'[u] \in Tally!JobRecord
            /\ job'[u].game = g /\ job'[u].who = w /\ job'[u].result = r
            /\ job'[u].missing = job[u].missing \ {w}
            /\ \/ /\ Accepted(g, w, r) /\ job'[u].step = "file missing"
               \/ /\ ~Tally!AcceptsReport(g, w) /\ game' = game /\ job'[u].step = "finalize"
  BY <1>1
<1>3. g \in Games /\ r \in Tally!Reports /\ JobIsSound(u)
  BY <1>1, JobTypes DEF ReportsInv, JobsAreSound, Tally!JobRecord
<1>4. /\ game[g] # None /\ game[g].ranked
      /\ game[g].members \subseteq Tally!Reported(g) \union job[u].missing
  BY <1>1, <1>2, <1>3 DEF JobIsSound
<1>5. job'[u] # None /\ job[u].step \notin {"file", "file missing"}
  BY <1>1, <1>2 DEF Tally!NoneAssumption
\* The one that is no longer missing has reported, has left, or the game is over.
<1>6. \A h \in Games, v \in Users :
         MissingOf(h, v) /\ ~(h = g /\ v = w) => MissingOf(h, v)'
  BY <1>1, <1>2, <1>5 DEF MissingOf
<1>7. \A h \in Games, v \in Users : Filing(h, v) => Filing(h, v)'
  BY <1>1, <1>5, OneJobChanges DEF ReportsInv
<1>8. CASE Accepted(g, w, r) /\ job'[u].step = "file missing"
  <2>1. GamesGoOn /\ \A h \in Games, v \in Users :
           game[h] # None /\ game[h].results[v] = None /\ game'[h].results[v] # None
              => h = g /\ v = w
    BY <1>2, <1>3, <1>8, AcceptedGoesOn
  <2>2. /\ game'[g] # None /\ game'[g].ranked = game[g].ranked
        /\ game'[g].results[w] = r /\ game'[g].members = game[g].members
        /\ Tally!Reported(g)' = Tally!Reported(g) \union {w}
    BY <1>8 DEF Accepted
  <2>3. JobIsSound(u)'
    <3>1. game'[g].members \subseteq Tally!Reported(g)' \union job'[u].missing
      BY <1>2, <1>4, <2>2
    <3> QED
      BY <1>2, <1>4, <1>8, <2>2, <3>1 DEF JobIsSound
  <2>4. Filing(g, w)'
    BY <1>2, <1>5, <1>8 DEF Filing
  <2>5. r # None
    BY <1>3 DEF Tally!NoneAssumption
  <2>6. ReportsGoOn
    <3>1. \A v \in Users : job'[v] # None => JobIsSound(v)' \/ (job'[v] = job[v] /\ job[v] # None)
      BY <1>1, <2>3
    <3>2. \A h \in Games, v \in Users :
              MissingOf(h, v) => MissingOf(h, v)' \/ game'[h].results[v] # None
      BY <1>6, <2>2, <2>5
    <3> QED
      BY <1>7, <2>1, <2>4, <3>1, <3>2 DEF ReportsGoOn
  <2> QED
    BY <1>1, <2>1, <2>6, StoreStays
<1>9. CASE ~Tally!AcceptsReport(g, w) /\ game' = game /\ job'[u].step = "finalize"
  <2>1. GamesGoOn
    BY <1>9 DEF GamesGoOn, GoesOn
  <2>2. w \notin game[g].members \/ game[g].results[w] # None
    BY <1>2, <1>4, <1>9 DEF Tally!AcceptsReport, Tally!Live, Tally!Reported
  <2>3. Tally!Reported(g)' = Tally!Reported(g) /\ (game[g].results[w] # None => w \in Tally!Reported(g))
    BY <1>2, <1>9 DEF Tally!Reported
  <2>4. JobIsSound(u)'
    <3>1. game'[g].members \subseteq Tally!Reported(g)' \union job'[u].missing
      BY <1>2, <1>4, <1>9, <2>2, <2>3
    <3> QED
      BY <1>2, <1>4, <1>9, <3>1 DEF JobIsSound
  <2>5. ReportsGoOn
    <3>1. \A v \in Users : job'[v] # None => JobIsSound(v)' \/ (job'[v] = job[v] /\ job[v] # None)
      BY <1>1, <2>4
    <3>2. \A h \in Games, v \in Users : MissingOf(h, v) =>
             MissingOf(h, v)' \/ v \notin game'[h].members \/ game'[h].results[v] # None
      BY <1>6, <1>9, <2>2
    <3> QED
      BY <1>7, <1>9, <3>1, <3>2 DEF ReportsGoOn
  <2> QED
    BY <1>1, <2>1, <2>5, StoreStays
<1> QED
  BY <1>2, <1>8, <1>9

LEMMA ReplyInv ==
    ASSUME ReportsInv, Tally!NoneAssumption, Tally!ReportsAssumption, NEW u \in Users,
           Tally!Reply(u)
    PROVE  ReportsInv'
<1>1. /\ Tally!TypeOK' /\ job'[u] = None /\ \A w \in Users \ {u} : job'[w] = job[w]
      /\ job[u] # None /\ job[u].step = "filed"
      /\ UNCHANGED <<run, game, races, filed, totals, active, past>>
  BY ReplyTypes DEF ReportsInv
<1>2. job[u].missing = {}
  BY <1>1 DEF ReportsInv, JobsAreSound, JobIsSound
<1>3. GamesGoOn
  BY <1>1 DEF GamesGoOn, GoesOn
<1>4. ReportsGoOn
  BY <1>1, <1>2, OneJobChanges DEF ReportsGoOn, ReportsInv
<1> QED
  BY <1>1, <1>3, <1>4, StoreStays

LEMMA LeavingInv ==
    ASSUME ReportsInv, Tally!NoneAssumption, Tally!ReportsAssumption, NEW u \in Users,
           Tally!CloseReplaced(u) \/ Tally!Leaves(u)
    PROVE  ReportsInv'
<1>1. CASE Tally!CloseReplaced(u)
  <2>1. job[u] # None
    BY <1>1 DEF Tally!CloseReplaced
  <2>2. game[job[u].game] # None
    BY <2>1 DEF ReportsInv, JobsAreSound, JobIsSound
  <2>3. /\ Tally!TypeOK' /\ job'[u] = None /\ \A w \in Users \ {u} : job'[w] = job[w]
        /\ job[u] # None /\ job[u].missing = {} /\ job[u].step = "finalize"
        /\ \A h \in Games : GoesOn(h) /\ (game[h] = None => game'[h] = None)
        /\ \A h \in Games : game'[h] # None => game'[h].results = game[h].results
        /\ UNCHANGED <<run, races, filed, totals, active, past>>
    BY <1>1, <2>2, CloseReplacedTypes DEF ReportsInv
  <2>4. GamesGoOn
    BY <2>3 DEF GamesGoOn
  <2>5. ReportsGoOn
    BY <2>3, OneJobChanges DEF ReportsGoOn, ReportsInv, GoesOn
  <2> QED
    BY <2>3, <2>4, <2>5, StoreStays
<1>2. CASE Tally!Leaves(u)
  <2>1. /\ Tally!TypeOK'
        /\ \A h \in Games : GoesOn(h) /\ (game[h] = None => game'[h] = None)
        /\ \A h \in Games : game'[h] # None => game'[h].results = game[h].results
        /\ UNCHANGED <<run, job, races, filed, totals, active, past>>
    BY <1>2, LeavesTypes DEF ReportsInv
  <2>2. GamesGoOn
    BY <2>1 DEF GamesGoOn
  <2>3. ReportsGoOn
    BY <2>1 DEF ReportsGoOn, GoesOn, Filing, MissingOf
  <2> QED
    BY <2>1, <2>2, <2>3, StoreStays
<1> QED
  BY <1>1, <1>2

LEMMA DeactivateInv ==
    ASSUME ReportsInv, Tally!NoneAssumption, Tally!ReportsAssumption, NEW u \in Users,
           Tally!Deactivate(u)
    PROVE  ReportsInv'
<1>1. /\ active' \subseteq active
      /\ UNCHANGED <<run, game, playing, job, races, filed, totals, past>>
  BY DEF Tally!Deactivate
<1>2. Tally!TypeOK'
  BY <1>1 DEF ReportsInv, Tally!TypeOK, Tally!Keys
<1>3. GamesGoOn
  BY <1>1 DEF GamesGoOn, GoesOn
<1>4. ReportsGoOn
  BY <1>1 DEF ReportsGoOn, Filing, MissingOf
<1> QED
  BY <1>1, <1>2, <1>3, <1>4, StoreStays

-----------------------------------------------------------------------------
(* The steps of the store.                                                 *)

\* A result that is filed for the first time counts once in each of its categories.
LEMMA RecordedTotals ==
    ASSUME Tally!TypeOK, Tally!TypeOK', Tally!NoneAssumption, TotalsHold, past' = past,
           NEW k \in Tally!Keys, NEW u \in Users, NEW r \in Tally!Reports, RecordedOnce(k, u, r)
    PROVE  TotalsHold'
<1>1. \A l \in Tally!Keys, w \in Users : filed[l][w] # None => filed'[l][w] = filed[l][w]
  BY DEF RecordedOnce
<1>2. \A w \in Users : IsFiniteSet(FiledOf(w)')
  <2> SUFFICES ASSUME NEW w \in Users
               PROVE  IsFiniteSet(FiledOf(w)')
    OBVIOUS
  <2>1. FiledOf(w)' \subseteq FiledOf(w) \union {k}
    BY DEF FiledOf, RecordedOnce, Tally!Keys
  <2>2. IsFiniteSet(FiledOf(w) \union {k})
    BY FS_AddElement DEF TotalsHold
  <2> QED
    BY <2>1, <2>2, FS_Subset
<1>3. \A l \in Tally!Keys, w \in Users, c \in Categories :
         <<l, w, c>> \in past'.reset => filed'[l][w] # None
  BY <1>1 DEF TotalsHold
<1>4. ASSUME NEW w \in Users, NEW c \in Categories, NEW o \in Tally!Outcomes
      PROVE  totals'[w][c][o] = Cardinality(CountedRaces(w, c, o)')
  <2> DEFINE S == CountedRaces(w, c, o)
             T == {l \in Tally!Keys : /\ filed'[l][w] # None /\ <<l, w, c>> \notin past.reset
                                      /\ filed'[l][w].outcome = o
                                      /\ c = filed'[l][w].category \/ (MostWanted /\ c = 0)}
  <2>1. CountedRaces(w, c, o)' = T
    BY DEF CountedRaces, Tally!Keys
  <2>2. totals[w][c][o] = Cardinality(S)
    BY DEF TotalsHold
  <2>3. IsFiniteSet(S)
    <3>1. S \subseteq FiledOf(w) /\ IsFiniteSet(FiledOf(w))
      BY DEF CountedRaces, FiledOf, TotalsHold
    <3> QED
      BY <3>1, FS_Subset
  <2>4. CASE w = u /\ filed[k][u] = None /\ c \in Tally!Counts(r.category) /\ o = r.outcome
    <3>1. totals'[w][c][o] = totals[w][c][o] + 1
      BY <2>4 DEF RecordedOnce
    <3>2. <<k, u, c>> \notin past.reset
      BY <2>4 DEF TotalsHold
    <3>3. filed'[k][u] = r /\ r # None
      BY <2>4 DEF RecordedOnce, Tally!NoneAssumption
    <3>4. c = r.category \/ (MostWanted /\ c = 0)
      BY <2>4 DEF Tally!Counts
    <3>5. \A l \in Tally!Keys \ {k} : filed'[l][w] = filed[l][w]
      BY DEF RecordedOnce
    <3>6. k \notin S
      BY <2>4 DEF CountedRaces
    <3>7. T = S \union {k}
      <4>1. k \in T
        BY <2>4, <3>2, <3>3, <3>4
      <4>2. \A l \in Tally!Keys \ {k} : l \in T <=> l \in S
        BY <3>5 DEF CountedRaces
      <4>3. T \subseteq Tally!Keys /\ S \subseteq Tally!Keys
        BY DEF CountedRaces
      <4> QED
        BY <4>1, <4>2, <4>3
    <3> HIDE DEF S, T
    <3>8. Cardinality(S \union {k}) = Cardinality(S) + 1
      BY <2>3, <3>6, FS_AddElement
    <3> QED
      BY <2>1, <2>2, <3>1, <3>7, <3>8
  <2>5. CASE ~(w = u /\ filed[k][u] = None /\ c \in Tally!Counts(r.category) /\ o = r.outcome)
    <3>1. totals'[w][c][o] = totals[w][c][o]
      BY <2>5 DEF RecordedOnce
    <3>2. \A l \in Tally!Keys : l \in T <=> l \in S
      <4> SUFFICES ASSUME NEW l \in Tally!Keys
                   PROVE  l \in T <=> l \in S
        OBVIOUS
      <4>1. CASE filed'[l][w] = filed[l][w]
        BY <4>1 DEF CountedRaces
      <4>2. CASE filed'[l][w] # filed[l][w]
        <5>1. l = k /\ w = u /\ filed[k][u] = None /\ filed'[k][u] = r
          BY <4>2 DEF RecordedOnce
        <5>2. l \notin S
          BY <5>1 DEF CountedRaces
        <5>3. l \notin T
          BY <2>5, <5>1 DEF Tally!Counts
        <5> QED
          BY <5>2, <5>3
      <4> QED
        BY <4>1, <4>2
    <3>3. T = S
      BY <3>2 DEF CountedRaces
    <3> QED
      BY <2>1, <2>2, <3>1, <3>3
  <2> QED
    BY <2>4, <2>5
<1> QED
  BY <1>2, <1>3, <1>4 DEF TotalsHold

LEMMA FilesInv ==
    ASSUME ReportsInv, Tally!NoneAssumption, Tally!ReportsAssumption, NEW u \in Users, NEW who,
           NEW complete, Files(u, who, complete)
    PROVE  ReportsInv'
<1> SUFFICES ASSUME NEW g, g = job[u].game, NEW r, r = job[u].result, NEW k, k = Tally!Key(g)
             PROVE  ReportsInv'
  OBVIOUS
<1>1. /\ Tally!TypeOK' /\ who \in Users /\ complete \in BOOLEAN /\ g \in Games
      /\ UNCHANGED <<run, game, active, past>>
      /\ job[u] # None /\ r \in Tally!Reports
      /\ job[u].step \in {"file", "file missing"}
      /\ Tally!FileReport(u) => job[u].step = "file"
      /\ ~Tally!FileReport(u) => job[u].step = "file missing"
      /\ job'[u] \in Tally!JobRecord /\ job'[u].game = g
      /\ job'[u].missing = job[u].missing
      /\ job'[u].step = IF Tally!FileReport(u) THEN "filed" ELSE "finalize"
      /\ \A w \in Users \ {u} : job'[w] = job[w]
      /\ \/ who \notin active /\ UNCHANGED <<races, filed, totals>>
         \/ /\ who \in active /\ RowFollows(k, r.category, complete)
            /\ RecordedOnce(k, who, r)
  BY FilesTypes DEF ReportsInv
<1>2. /\ JobIsSound(u) /\ k \in Tally!Keys /\ k[1] = run
      /\ \A h \in Games : /\ Tally!Key(h)' = Tally!Key(h) /\ Tally!Key(h) \in Tally!Keys
                          /\ Tally!Key(h) = k => h = g
  BY <1>1, KeyTypes DEF ReportsInv, JobsAreSound, Tally!Key
<1>3. /\ game[g] # None /\ game[g].ranked /\ who = job[u].who /\ game[g].results[who] = r
      /\ r # None /\ job'[u] # None
  BY <1>1, <1>2 DEF JobIsSound, Files, Tally!NoneAssumption
<1>4. game[g].members \subseteq Tally!Reported(g) \union job[u].missing \/ ~complete
  BY <1>1, <1>2 DEF JobIsSound, Files, Tally!FileMissing
<1>5. MostWantedRanks'
  BY <1>1 DEF ReportsInv, MostWantedRanks
<1>0. /\ game' = game /\ active' = active
      /\ \A h \in Games : Tally!Key(h)' = Tally!Key(h)
  BY <1>1, <1>2
<1>6. JobsAreSound'
  <2>1. \A h \in Games : GoesOn(h)
    BY <1>1 DEF GoesOn
  <2>2. ASSUME NEW w \in Users \ {u}, job'[w] # None
        PROVE  JobIsSound(w)'
    <3>1. job[w] # None /\ job'[w] = job[w] /\ JobIsSound(w) /\ job[w].game \in Games
      BY <1>1, <2>2, JobTypes DEF ReportsInv, JobsAreSound, Tally!JobRecord
    <3> QED
      BY <1>1, <2>1, <3>1, JobStaysSound DEF ReportsInv
  <2>3. Tally!Reported(g)' = Tally!Reported(g)
    BY <1>1 DEF Tally!Reported
  <2>4. JobIsSound(u)'
    BY <1>1, <1>2, <1>3, <2>3 DEF JobIsSound
  <2> QED
    BY <2>2, <2>4 DEF JobsAreSound
<1>7. \A h \in Games, w \in Users :
         /\ Filing(h, w) /\ ~(h = g /\ w = who) => Filing(h, w)'
         /\ MissingOf(h, w) => MissingOf(h, w)'
  <2>0. /\ \A v \in Users \ {u} : job'[v] = job[v]
        /\ job'[u] # None /\ job'[u].game = job[u].game /\ job'[u].missing = job[u].missing
    <3>1. job'[u] # None
      BY <1>3
    <3> QED
      BY <1>1, <3>1
  <2>1. ASSUME NEW h \in Games, NEW w \in Users, Filing(h, w), ~(h = g /\ w = who)
        PROVE  Filing(h, w)'
    <3>1. PICK v \in Users : /\ job[v] # None /\ job[v].game = h /\ job[v].who = w
                             /\ job[v].step \in {"file", "file missing"}
      BY <2>1 DEF Filing
    <3>2. v # u
      BY <1>3, <2>1, <3>1
    <3>3. job'[v] = job[v]
      BY <1>1, <3>2
    <3> QED
      BY <3>1, <3>3 DEF Filing
  <2>2. ASSUME NEW h \in Games, NEW w \in Users, MissingOf(h, w)
        PROVE  MissingOf(h, w)'
    <3>1. PICK v \in Users : job[v] # None /\ job[v].game = h /\ w \in job[v].missing
      BY <2>2 DEF MissingOf
    <3>2. job'[v] # None /\ job'[v].game = job[v].game /\ job'[v].missing = job[v].missing
      BY <2>0, <3>1
    <3> QED
      BY <3>1, <3>2 DEF MissingOf
  <2> QED
    BY <2>1, <2>2
<1>8. CASE who \notin active /\ UNCHANGED <<races, filed, totals>>
  <2>1. StoreFollows' /\ TotalsHold'
    <3>0. UNCHANGED <<run, game, races, filed, totals, past>>
      BY <1>1, <1>8
    <3>1. StoreFollows'
      BY <3>0 DEF ReportsInv, StoreFollows, Tally!Key, Tally!Keys
    <3>2. TotalsHold'
      BY <3>0 DEF ReportsInv, TotalsHold, FiledOf, CountedRaces, Tally!Keys
    <3> QED
      BY <3>1, <3>2
  <2>2. NothingIsDropped'
    <3> SUFFICES ASSUME NEW h \in Games, NEW w \in Users,
                        game[h] # None, game[h].ranked, game[h].results[w] # None, w \in active
                 PROVE  filed[Tally!Key(h)][w] # None \/ Filing(h, w)'
      BY <1>0, <1>8 DEF NothingIsDropped
    <3>1. filed[Tally!Key(h)][w] # None \/ Filing(h, w)
      BY DEF ReportsInv, NothingIsDropped
    <3>2. w # who
      BY <1>8
    <3> QED
      BY <1>7, <3>1, <3>2
  <2>3. CompleteIsComplete'
    <3> SUFFICES ASSUME NEW h \in Games, races[Tally!Key(h)] # None,
                        races[Tally!Key(h)].status = "complete", NEW w \in game[h].members
                 PROVE  game[h].results[w] # None \/ MissingOf(h, w)'
      BY <1>1, <1>2, <1>8 DEF CompleteIsComplete
    <3>1. w \in Users
      BY GameTypes DEF ReportsInv, StoreFollows, Tally!GameRecord
    <3> QED
      BY <1>7, <3>1 DEF ReportsInv, CompleteIsComplete
  <2> QED
    BY <1>1, <1>5, <1>6, <2>1, <2>2, <2>3 DEF ReportsInv
<1>9. ASSUME who \in active, RowFollows(k, r.category, complete), RecordedOnce(k, who, r)
      PROVE  ReportsInv'
  <2>1. \A l \in Tally!Keys \ {k} : races'[l] = races[l]
    BY <1>9 DEF RowFollows
  <2>2. \A l \in Tally!Keys, w \in Users : ~(l = k /\ w = who) => filed'[l][w] = filed[l][w]
    BY <1>9 DEF RecordedOnce
  <2>3. filed'[k][who] = r
    <3>1. filed[k][who] # None => filed[k][who] = r
      BY <1>1, <1>3 DEF ReportsInv, StoreFollows
    <3> QED
      BY <1>9, <3>1 DEF RecordedOnce
  <2>4. StoreFollows'
    <3>1. ASSUME NEW l \in Tally!Keys, l[1] > run'
          PROVE  races'[l] = None
      <4>1. l # k
        <5>1. run \in Int /\ run' = run
          <6>1. Tally!TypeOK /\ MaxRuns \in Nat /\ run' = run
            BY <1>1 DEF ReportsInv, Tally!ReportsAssumption
          <6> QED
            BY <6>1 DEF Tally!TypeOK
        <5> QED
          BY <1>2, <3>1, <5>1
      <4> QED
        BY <1>1, <2>1, <3>1, <4>1 DEF ReportsInv, StoreFollows
    <3>2. ASSUME NEW h \in Games, races'[Tally!Key(h)'] # None
          PROVE  game'[h] # None /\ game'[h].ranked
      <4>1. CASE h = g
        BY <1>1, <1>3, <4>1
      <4>2. CASE h # g
        <5>1. races[Tally!Key(h)] # None
          BY <1>2, <2>1, <3>2, <4>2
        <5> QED
          BY <1>1, <5>1 DEF ReportsInv, StoreFollows
      <4> QED
        BY <4>1, <4>2
    <3>3. ASSUME NEW h \in Games, NEW w \in Users, filed'[Tally!Key(h)'][w] # None
          PROVE  game'[h].results[w] = filed'[Tally!Key(h)'][w]
      <4>1. CASE Tally!Key(h) = k /\ w = who
        BY <1>1, <1>2, <1>3, <2>3, <4>1
      <4>2. CASE ~(Tally!Key(h) = k /\ w = who)
        <5>1. filed'[Tally!Key(h)'][w] = filed[Tally!Key(h)][w]
          BY <1>2, <2>2, <4>2
        <5> QED
          BY <1>1, <3>3, <5>1 DEF ReportsInv, StoreFollows
      <4> QED
        BY <4>1, <4>2
    <3>4. ASSUME NEW l \in Tally!Keys, NEW w \in Users, filed'[l][w] # None
          PROVE  races'[l].category = filed'[l][w].category \/ races'[l].status = "disputed"
      <4>1. CASE l = k /\ w = who
        BY <1>9, <2>3, <4>1 DEF RowFollows
      <4>2. CASE l = k /\ w # who
        <5>1. filed'[l][w] = filed[l][w] /\ races[l] # None
          BY <2>2, <3>4, <4>2 DEF ReportsInv, Tally!TypeOK
        <5>2. races[l].category = filed[l][w].category \/ races[l].status = "disputed"
          BY <3>4, <5>1 DEF ReportsInv, StoreFollows
        <5> QED
          BY <1>9, <4>2, <5>1, <5>2 DEF RowFollows
      <4>3. CASE l # k
        BY <2>1, <2>2, <3>4, <4>3 DEF ReportsInv, StoreFollows
      <4> QED
        BY <4>1, <4>2, <4>3
    <3> QED
      BY <3>1, <3>2, <3>3, <3>4 DEF StoreFollows, Tally!Keys
  <2>5. NothingIsDropped'
    <3> SUFFICES ASSUME NEW h \in Games, NEW w \in Users,
                        game[h] # None, game[h].ranked, game[h].results[w] # None, w \in active
                 PROVE  filed'[Tally!Key(h)][w] # None \/ Filing(h, w)'
      BY <1>0 DEF NothingIsDropped
    <3>1. CASE h = g /\ w = who
      BY <1>3, <2>3, <3>1
    <3>2. CASE ~(h = g /\ w = who)
      <4>1. filed[Tally!Key(h)][w] # None \/ Filing(h, w)
        BY DEF ReportsInv, NothingIsDropped
      <4>2. filed'[Tally!Key(h)][w] = filed[Tally!Key(h)][w]
        BY <1>2, <2>2, <3>2
      <4> QED
        BY <1>7, <3>2, <4>1, <4>2
    <3> QED
      BY <3>1, <3>2
  <2>6. CompleteIsComplete'
    <3> SUFFICES ASSUME NEW h \in Games, races'[Tally!Key(h)] # None,
                        races'[Tally!Key(h)].status = "complete", NEW w \in game[h].members
                 PROVE  game[h].results[w] # None \/ MissingOf(h, w)'
      BY <1>0 DEF CompleteIsComplete
    <3>1. game[h] # None
      <4>1. \A e \in Games : races'[Tally!Key(e)'] # None => game'[e] # None
        BY <2>4 DEF StoreFollows
      <4>2. races'[Tally!Key(h)'] # None
        BY <1>0
      <4> QED
        BY <1>0, <4>1, <4>2
    <3>2. w \in Users
      BY <3>1, GameTypes DEF ReportsInv, Tally!GameRecord
    <3>3. CASE races[Tally!Key(h)] # None /\ races[Tally!Key(h)].status = "complete"
      BY <1>7, <3>2, <3>3 DEF ReportsInv, CompleteIsComplete
    <3>4. CASE ~(races[Tally!Key(h)] # None /\ races[Tally!Key(h)].status = "complete")
      <4>1. h = g /\ complete
        BY <1>2, <1>9, <2>1, <3>4 DEF RowFollows
      <4>2. w \in Tally!Reported(g) \union job[u].missing
        BY <1>4, <4>1
      <4>3. w \in job[u].missing => MissingOf(g, w)'
        BY <1>1, <1>3, <3>2 DEF MissingOf
      <4> QED
        BY <4>1, <4>2, <4>3 DEF Tally!Reported
    <3> QED
      BY <3>3, <3>4
  <2>7. TotalsHold'
    BY <1>1, <1>2, <1>9, RecordedTotals DEF ReportsInv
  <2> QED
    BY <1>1, <1>5, <1>6, <2>4, <2>5, <2>6, <2>7 DEF ReportsInv
<1> QED
  BY <1>1, <1>8, <1>9

LEMMA ResetInv ==
    ASSUME ReportsInv, Tally!NoneAssumption, Tally!ReportsAssumption, NEW u \in Users,
           NEW cs \in SUBSET Categories, Tally!ResetStats(u, cs)
    PROVE  ReportsInv'
<1>1. /\ Tally!TypeOK'
      /\ UNCHANGED <<run, game, job, races, filed, active>>
      /\ \A w \in Users, c \in Categories, o \in Tally!Outcomes :
            totals'[w][c][o] = IF w = u /\ c \in cs THEN 0 ELSE totals[w][c][o]
      /\ \A k \in Tally!Keys, w \in Users, c \in Categories :
            <<k, w, c>> \in past'.reset <=>
                <<k, w, c>> \in past.reset \/ (filed[k][u] # None /\ w = u /\ c \in cs)
  BY ResetTypes DEF ReportsInv
<1>2. MostWantedRanks' /\ JobsAreSound'
  <2>1. game' = game /\ job' = job
    BY <1>1
  <2>2. MostWantedRanks'
    BY <2>1 DEF ReportsInv, MostWantedRanks
  <2>3. \A w \in Users : JobIsSound(w)' <=> JobIsSound(w)
    BY <2>1 DEF JobIsSound, Tally!Reported
  <2>4. JobsAreSound'
    BY <2>1, <2>3 DEF ReportsInv, JobsAreSound
  <2> QED
    BY <2>2, <2>4
<1>3. StoreFollows'
  BY <1>1 DEF ReportsInv, StoreFollows, Tally!Key, Tally!Keys
<1>4. NothingIsDropped' /\ CompleteIsComplete'
  <2>1. \A g \in Games : Tally!Key(g)' = Tally!Key(g)
    BY <1>1 DEF Tally!Key
  <2>2. \A g \in Games, w \in Users :
           (Filing(g, w)' <=> Filing(g, w)) /\ (MissingOf(g, w)' <=> MissingOf(g, w))
    BY <1>1 DEF Filing, MissingOf
  <2>3. NothingIsDropped'
    BY <1>1, <2>1, <2>2 DEF ReportsInv, NothingIsDropped
  <2>4. CompleteIsComplete'
    <3> SUFFICES ASSUME NEW g \in Games, races[Tally!Key(g)] # None,
                        races[Tally!Key(g)].status = "complete", NEW w \in game[g].members
                 PROVE  game[g].results[w] # None \/ MissingOf(g, w)'
      BY <1>1, <2>1 DEF CompleteIsComplete
    <3>1. w \in Users
      BY GameTypes DEF ReportsInv, StoreFollows, Tally!GameRecord
    <3> QED
      BY <2>2, <3>1 DEF ReportsInv, CompleteIsComplete
  <2> QED
    BY <2>3, <2>4
<1>5. TotalsHold'
  <2>1. \A w \in Users : IsFiniteSet(FiledOf(w)')
    BY <1>1 DEF ReportsInv, TotalsHold, FiledOf, Tally!Keys
  <2>2. \A k \in Tally!Keys, w \in Users, c \in Categories :
           <<k, w, c>> \in past'.reset => filed'[k][w] # None
    BY <1>1 DEF ReportsInv, TotalsHold
  <2>3. ASSUME NEW w \in Users, NEW c \in Categories, NEW o \in Tally!Outcomes
        PROVE  totals'[w][c][o] = Cardinality(CountedRaces(w, c, o)')
    <3>1. CASE w = u /\ c \in cs
      <4>1. CountedRaces(w, c, o)' = {}
        BY <1>1, <3>1 DEF CountedRaces, Tally!Keys
      <4>2. Cardinality({}) = 0
        BY FS_EmptySet
      <4> QED
        BY <1>1, <3>1, <4>1, <4>2
    <3>2. CASE ~(w = u /\ c \in cs)
      <4>1. \A k \in Tally!Keys : <<k, w, c>> \in past'.reset <=> <<k, w, c>> \in past.reset
        BY <1>1, <3>2
      <4>2. CountedRaces(w, c, o)' = CountedRaces(w, c, o)
        BY <1>1, <4>1 DEF CountedRaces, Tally!Keys
      <4> QED
        BY <1>1, <3>2, <4>2 DEF ReportsInv, TotalsHold
    <3> QED
      BY <3>1, <3>2
  <2> QED
    BY <2>1, <2>2, <2>3 DEF TotalsHold
<1> QED
  BY <1>1, <1>2, <1>3, <1>4, <1>5 DEF ReportsInv

LEMMA RestartInv ==
    ASSUME ReportsInv, Tally!NoneAssumption, Tally!ReportsAssumption, Tally!Restart
    PROVE  ReportsInv'
<1>1. /\ Tally!TypeOK' /\ run' = run + 1 /\ run \in Nat
      /\ \A g \in Games : game'[g] = None
      /\ \A u \in Users : job'[u] = None
      /\ UNCHANGED <<races, filed, totals, active, past>>
  BY RestartTypes DEF ReportsInv
\* Nothing has been filed under the keys of the new run.
<1>2. \A g \in Games : Tally!Key(g)' \in Tally!Keys /\ races[Tally!Key(g)'] = None
  <2> SUFFICES ASSUME NEW g \in Games
               PROVE  Tally!Key(g)' \in Tally!Keys /\ races[Tally!Key(g)'] = None
    OBVIOUS
  <2>1. Tally!Key(g)' = <<run', g>> /\ Tally!Key(g)' \in Tally!Keys
    BY <1>1 DEF Tally!Key, Tally!Keys, Tally!TypeOK
  <2>2. Tally!Key(g)'[1] > run
    BY <1>1, <2>1
  <2> QED
    BY <2>1, <2>2 DEF ReportsInv, StoreFollows
<1>3. \A g \in Games, u \in Users : filed[Tally!Key(g)'][u] = None
  BY <1>2 DEF ReportsInv, Tally!TypeOK
<1>4. MostWantedRanks' /\ JobsAreSound' /\ NothingIsDropped'
  BY <1>1 DEF MostWantedRanks, JobsAreSound, NothingIsDropped
<1>5. CompleteIsComplete'
  BY <1>1, <1>2 DEF CompleteIsComplete
<1>6. StoreFollows'
  <2>1. \A k \in Tally!Keys : k[1] > run' => k[1] > run
    BY <1>1 DEF Tally!Keys
  <2>2. \A k \in Tally!Keys : k[1] > run' => races'[k] = None
    BY <1>1, <2>1 DEF ReportsInv, StoreFollows
  <2> QED
    BY <1>1, <1>2, <1>3, <2>2 DEF ReportsInv, StoreFollows, Tally!Keys
<1>7. TotalsHold'
  BY <1>1 DEF ReportsInv, TotalsHold, FiledOf, CountedRaces, Tally!Keys
<1> QED
  BY <1>1, <1>4, <1>5, <1>6, <1>7 DEF ReportsInv

-----------------------------------------------------------------------------
(* The theorems about the reports.                                         *)

LEMMA ReportsInitially ==
    ASSUME Tally!NoneAssumption, Tally!ReportsAssumption, Tally!Init
    PROVE  ReportsInv
<1>1. Tally!TypeOK
  BY DEF Tally!Init, Tally!TypeOK, Tally!ReportsAssumption, Tally!Zero, Tally!Keys
<1>2. MostWantedRanks /\ JobsAreSound /\ NothingIsDropped
  BY DEF Tally!Init, MostWantedRanks, JobsAreSound, NothingIsDropped
<1>3. \A g \in Games : Tally!Key(g) \in Tally!Keys
  BY <1>1, KeyTypes
<1>4. StoreFollows /\ CompleteIsComplete
  BY <1>3 DEF Tally!Init, StoreFollows, CompleteIsComplete
<1>5. TotalsHold
  <2>1. \A u \in Users : FiledOf(u) = {}
    BY DEF Tally!Init, FiledOf
  <2>2. \A u \in Users, c \in Categories, o \in Tally!Outcomes :
           CountedRaces(u, c, o) = {} /\ totals[u][c][o] = 0
    BY DEF Tally!Init, CountedRaces, Tally!Zero
  <2>3. past.reset = {}
    BY DEF Tally!Init
  <2> QED
    BY <2>1, <2>2, <2>3, FS_EmptySet DEF TotalsHold
<1> QED
  BY <1>1, <1>2, <1>4, <1>5 DEF ReportsInv

LEMMA ReportsInvariant ==
    ASSUME Tally!NoneAssumption, Tally!ReportsAssumption
    PROVE  Tally!Spec => []ReportsInv
<1>1. Tally!Init => ReportsInv
  BY ReportsInitially
<1>2. ReportsInv /\ [Tally!Next]_Tally!vars => ReportsInv'
  <2> SUFFICES ASSUME ReportsInv, [Tally!Next]_Tally!vars
               PROVE  ReportsInv'
    OBVIOUS
  <2>1. CASE UNCHANGED Tally!vars
    <3>1. UNCHANGED <<run, game, playing, job, races, filed, totals, active, past>>
      BY <2>1 DEF Tally!vars
    <3>2. Tally!TypeOK'
      BY <3>1 DEF ReportsInv, Tally!TypeOK, Tally!Keys
    <3>3. GamesGoOn /\ ReportsGoOn
      BY <3>1 DEF GamesGoOn, GoesOn, ReportsGoOn, Filing, MissingOf
    <3> QED
      BY <3>1, <3>2, <3>3, StoreStays
  <2>2. ASSUME NEW g \in Games, NEW party \in SUBSET Users, NEW owner \in Users,
               NEW ranked \in BOOLEAN, Tally!Starts(g, party, owner, ranked)
        PROVE  ReportsInv'
    BY <2>2, StartsInv
  <2>3. ASSUME NEW u \in Users, \E r \in Tally!Reports : Tally!RankArrives(u, r)
        PROVE  ReportsInv'
    BY <2>3, RankArrivesInv
  <2>4. ASSUME NEW u \in Users,
               \/ Tally!AcceptReport(u) \/ Tally!FileReport(u) \/ Tally!Reply(u)
               \/ Tally!OwnerReplaces(u) \/ Tally!AcceptMissing(u)
               \/ Tally!FileMissing(u) \/ Tally!CloseReplaced(u)
               \/ Tally!Leaves(u) \/ Tally!Deactivate(u)
        PROVE  ReportsInv'
    <3>1. CASE Tally!FileReport(u) \/ Tally!FileMissing(u)
      <4>1. \E who, complete : Files(u, who, complete)
        BY <3>1 DEF Files
      <4> QED
        BY <4>1, FilesInv
    <3> QED
      BY <2>4, <3>1, AcceptReportInv, ReplyInv, OwnerReplacesInv, AcceptMissingInv, LeavingInv,
         DeactivateInv
  <2>5. ASSUME NEW u \in Users,
               \E cs \in {{c} : c \in Categories} \union {Categories} : Tally!ResetStats(u, cs)
        PROVE  ReportsInv'
    <3>1. PICK cs \in SUBSET Categories : Tally!ResetStats(u, cs)
      BY <2>5
    <3> QED
      BY <3>1, ResetInv
  <2>6. CASE Tally!Restart
    BY <2>6, RestartInv
  <2> QED
    BY <2>1, <2>2, <2>3, <2>4, <2>5, <2>6 DEF Tally!Next
<1> QED
  BY <1>1, <1>2, PTL DEF Tally!Spec

\* All that the runs check of the reports, over any number of players, games,
\* categories, server runs and resets.
THEOREM ReportsAreCountedOnce ==
    ASSUME Tally!NoneAssumption, Tally!ReportsAssumption
    PROVE  Tally!Spec => [](Tally!TypeOK /\ Tally!CountedOnce)
<1>1. ReportsInv => Tally!TypeOK /\ Tally!CountedOnce
  <2> SUFFICES ASSUME ReportsInv
               PROVE  Tally!TypeOK /\ Tally!CountedOnce
    OBVIOUS
  <2>1. Tally!TotalsAreTheFiledResults
    BY TallyCounts DEF ReportsInv, TotalsHold, CountedRaces, Tally!TotalsAreTheFiledResults
  <2>2. Tally!AcceptedReportsAreFiled
    <3> SUFFICES ASSUME NEW g \in Games, Tally!Live(g), game[g].ranked,
                        NEW u \in Tally!Reported(g) \intersect active
                 PROVE  filed[Tally!Key(g)][u] = game[g].results[u] \/ Tally!InFlight(g, u)
      BY DEF Tally!AcceptedReportsAreFiled
    <3>1. filed[Tally!Key(g)][u] # None \/ Filing(g, u)
      BY DEF ReportsInv, NothingIsDropped, Tally!Live, Tally!Reported
    <3> QED
      BY <3>1 DEF ReportsInv, StoreFollows, Filing, Tally!InFlight, Tally!Reported
  <2>3. Tally!DisagreementIsDisputed
    BY DEF ReportsInv, StoreFollows, Tally!DisagreementIsDisputed
  <2>4. Tally!CompleteHasEveryone
    <3> SUFFICES ASSUME NEW g \in Games, Tally!Live(g), races[Tally!Key(g)] # None,
                        races[Tally!Key(g)].status = "complete",
                        NEW u \in game[g].members \intersect active
                 PROVE  filed[Tally!Key(g)][u] # None \/ Tally!InFlight(g, u)
      BY DEF Tally!CompleteHasEveryone
    <3>1. u \in Users /\ game[g] # None /\ game[g].ranked
      BY DEF ReportsInv, Tally!TypeOK, StoreFollows
    <3>2. game[g].results[u] # None \/ MissingOf(g, u)
      BY DEF ReportsInv, CompleteIsComplete
    <3>3. CASE game[g].results[u] # None
      <4>1. filed[Tally!Key(g)][u] # None \/ Filing(g, u)
        BY <3>1, <3>3 DEF ReportsInv, NothingIsDropped
      <4> QED
        BY <4>1 DEF Filing, Tally!InFlight
    <3>4. CASE MissingOf(g, u)
      BY <3>4 DEF MissingOf, Tally!InFlight
    <3> QED
      BY <3>2, <3>3, <3>4
  <2> QED
    BY <2>1, <2>2, <2>3, <2>4 DEF Tally!CountedOnce, ReportsInv
<1> QED
  BY <1>1, ReportsInvariant, PTL
=============================================================================
