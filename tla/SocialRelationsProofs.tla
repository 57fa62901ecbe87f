------------------------ MODULE SocialRelationsProofs ------------------------
(***************************************************************************)
(* Proofs about SocialRelations, for any number of personas, threads,      *)
(* events and faults: the relations stay consistent, the cache is current  *)
(* unless something is known to be in its way, and a command of the        *)
(* website is carried out once.                                            *)
(*                                                                         *)
(* The last of them needs to know how far the pump is with the event it    *)
(* holds, and that an event is left in "processing" only by a crash, until *)
(* the next pump starts.                                                   *)
(*                                                                         *)
(* And, below, about Encounters, for any number of personas and rooms: the *)
(* Player List follows the room, and roommates are remembered.             *)
(*                                                                         *)
(* And about CarbonMessenger, for any number of connections, tokens and    *)
(* personas: connections of one persona do not act for each other.  The    *)
(* inductive invariant ties the lists of the service to the phases of the  *)
(* connections: a connection is listed from its registration to its end,   *)
(* under the persona of a token that stays; a duplicate never is.  Upon    *)
(* that rest what is held back for an invitation, who owns the public row  *)
(* of a persona, and what its friends are shown: a persona whose           *)
(* connections do not overlap has one thread that tells of it, and         *)
(* whoever is not about to be told of it sees it as it is.                 *)
(***************************************************************************)
EXTENDS SocialRelations, FiniteSetTheorems, TLAPS

Kinds == {"friend", "pending", "blocked"}
Rows == Personas \X Personas \X Kinds
Statuses == {"none", "pending", "processing", "done", "error"}
Stages == {"idle", "looking", "claimed", "reload", "answer"}

EventRecord == [status : Statuses, action : Actions \union {None},
                source : Personas \union {None}, target : Personas \union {None},
                old : BOOLEAN]
PumpRecord == [on : BOOLEAN, holds : Events \union {None}, stage : Stages,
               ok : BOOLEAN, due : BOOLEAN]
PastRecord == [ran : [Events -> Nat], cut : SUBSET Events, dropped : BOOLEAN,
               faults : Nat]

Types ==
    /\ stored \in SUBSET Personas
    /\ db \in SUBSET Rows /\ cache \in SUBSET Rows
    /\ job \in [Threads -> {"idle", "reload"}]
    /\ events \in [Events -> EventRecord]
    /\ pump \in PumpRecord
    /\ visitors \in BOOLEAN
    /\ past \in PastRecord

\* What the website asks concerns two different personas.
Asked ==
    \A e \in Events : events[e].status # "none" =>
        /\ events[e].action \in Actions
        /\ events[e].source \in Personas /\ events[e].target \in Personas
        /\ events[e].source # events[e].target

\* The pump holds an event exactly while it works, and only while it runs.
Holding ==
    /\ pump.stage \in {"idle", "looking"} <=> pump.holds = None
    /\ pump.holds # None => events[pump.holds].status = "processing"
    /\ pump.stage # "idle" => pump.on
    /\ pump.stage = "reload" => events[pump.holds].action \in Commands
    /\ pump.on => \A e \in Events : events[e].status = "processing" => pump.holds = e

\* What was done about an event that the pump holds.
HeldProgress(e) ==
    /\ pump.stage = "claimed" => past.ran[e] = 0
    /\ pump.stage = "reload" => past.ran[e] = 1
    /\ pump.stage = "answer" =>
          IF pump.ok THEN past.ran[e] = 1 \/ events[e].action = "remove"
          ELSE past.ran[e] = 1 => e \in past.cut

Progress ==
    \A e \in Events :
        /\ past.ran[e] \in {0, 1}
        /\ events[e].status \in {"none", "pending"} => past.ran[e] = 0
        /\ pump.holds = e => HeldProgress(e)
        /\ events[e].status = "error" /\ past.ran[e] = 1 => e \in past.cut
        /\ events[e].status = "done" => past.ran[e] = 1 \/ events[e].action = "remove"

Inv == Types /\ Asked /\ Holding /\ Progress

-----------------------------------------------------------------------------
(* What a command does to the rows.                                        *)

LEMMA ResultRows ==
    ASSUME db \in SUBSET Rows, NEW command \in Commands,
           NEW p \in Personas, NEW q \in Personas
    PROVE  Result(command, p, q) \in SUBSET Rows
<1>1. /\ <<p, q, "friend">> \in Rows /\ <<q, p, "friend">> \in Rows
      /\ <<p, q, "pending">> \in Rows /\ <<q, p, "pending">> \in Rows
      /\ <<p, q, "blocked">> \in Rows
  BY DEF Rows, Kinds
<1>2. Both(p, q, "friend") \subseteq Rows
  BY <1>1 DEF Both
<1>3. Requested(p, q) \subseteq Rows
  BY <1>1, <1>2 DEF Requested
<1>4. \A accepted \in BOOLEAN : Answered(p, q, accepted) \subseteq Rows
  BY <1>1, <1>2 DEF Answered
<1>5. Removed(p, q) \subseteq Rows /\ SetBlocked(p, q) \subseteq Rows
  BY <1>1 DEF Removed, SetBlocked
<1> QED
  BY <1>3, <1>4, <1>5 DEF Result, Commands

\* RelationsAreConsistent, of any set of rows.
ConsistentFor(rows, x, y) ==
    /\ <<x, y, "friend">> \in rows => <<y, x, "friend">> \in rows
    /\ <<x, y, "pending">> \in rows =>
          <<y, x, "pending">> \notin rows /\ <<x, y, "friend">> \notin rows
    /\ <<x, y, "blocked">> \in rows \/ <<y, x, "blocked">> \in rows =>
          <<x, y, "friend">> \notin rows /\ <<x, y, "pending">> \notin rows

Consistent(rows) == \A x, y \in Personas : ConsistentFor(rows, x, y)

LEMMA ConsistentRows == RelationsAreConsistent <=> Consistent(db)
BY DEF RelationsAreConsistent, Consistent, ConsistentFor, Row, Blocked

\* (x, y) is one of the two pairs of p and q.
Pair(x, y, p, q) == (x = p /\ y = q) \/ (x = q /\ y = p)

LEMMA ResultConsistent ==
    ASSUME Consistent(db), NEW command \in Commands,
           NEW p \in Personas, NEW q \in Personas, p # q,
           NEW New, New = Result(command, p, q)
    PROVE  Consistent(New)
<1>1. CASE command = "request"
  <2>1. New = Requested(p, q)
    BY <1>1 DEF Result
  <2>2. CASE Blocked(p, q) \/ Row(p, q, "friend")
    BY <2>1, <2>2 DEF Requested
  <2>3. CASE ~Blocked(p, q) /\ ~Row(p, q, "friend") /\ Row(q, p, "pending")
    <3>1. \A x, y, r : <<x, y, r>> \in New <=>
             \/ <<x, y, r>> \in db /\ ~(r = "pending" /\ Pair(x, y, p, q))
             \/ r = "friend" /\ Pair(x, y, p, q)
      BY <2>1, <2>3 DEF Requested, Both, Pair
    <3> SUFFICES ASSUME NEW x \in Personas, NEW y \in Personas
                 PROVE  ConsistentFor(New, x, y)
      BY DEF Consistent
    <3>2. /\ ConsistentFor(db, x, y) /\ ConsistentFor(db, y, x)
          /\ ConsistentFor(db, p, q) /\ ConsistentFor(db, q, p)
      BY DEF Consistent
    <3> QED
      BY <2>3, <3>1, <3>2 DEF ConsistentFor, Pair, Row, Blocked
  <2>4. CASE ~Blocked(p, q) /\ ~Row(p, q, "friend") /\ ~Row(q, p, "pending")
    <3>1. \A x, y, r : <<x, y, r>> \in New <=>
             <<x, y, r>> \in db \/ (x = p /\ y = q /\ r = "pending")
      BY <2>1, <2>4 DEF Requested
    <3> SUFFICES ASSUME NEW x \in Personas, NEW y \in Personas
                 PROVE  ConsistentFor(New, x, y)
      BY DEF Consistent
    <3>2. /\ ConsistentFor(db, x, y) /\ ConsistentFor(db, y, x)
          /\ ConsistentFor(db, p, q) /\ ConsistentFor(db, q, p)
      BY DEF Consistent
    <3> QED
      BY <2>4, <3>1, <3>2 DEF ConsistentFor, Pair, Row, Blocked
  <2> QED
    BY <2>2, <2>3, <2>4
<1>2. CASE command = "accept"
  <2>1. New = Answered(p, q, TRUE)
    BY <1>2 DEF Result
  <2>2. CASE ~Row(q, p, "pending")
    BY <2>1, <2>2 DEF Answered
  <2>3. CASE Row(q, p, "pending")
    <3>1. \A x, y, r : <<x, y, r>> \in New <=>
             \/ <<x, y, r>> \in db /\ ~(r = "pending" /\ x = q /\ y = p)
             \/ r = "friend" /\ Pair(x, y, p, q)
      BY <2>1, <2>3 DEF Answered, Both, Pair
    <3> SUFFICES ASSUME NEW x \in Personas, NEW y \in Personas
                 PROVE  ConsistentFor(New, x, y)
      BY DEF Consistent
    <3>2. /\ ConsistentFor(db, x, y) /\ ConsistentFor(db, y, x)
          /\ ConsistentFor(db, p, q) /\ ConsistentFor(db, q, p)
      BY DEF Consistent
    <3> QED
      BY <2>3, <3>1, <3>2 DEF ConsistentFor, Pair, Row
  <2> QED
    BY <2>2, <2>3
<1>3. CASE command = "decline"
  <2>1. New = Answered(p, q, FALSE)
    BY <1>3 DEF Result
  <2>2. \A x, y, r : <<x, y, r>> \in New <=>
           <<x, y, r>> \in db /\ ~(r = "pending" /\ x = q /\ y = p)
    BY <2>1 DEF Answered, Row
  <2> SUFFICES ASSUME NEW x \in Personas, NEW y \in Personas
               PROVE  ConsistentFor(New, x, y)
    BY DEF Consistent
  <2>3. ConsistentFor(db, x, y)
    BY DEF Consistent
  <2> QED
    BY <2>2, <2>3 DEF ConsistentFor
<1>4. CASE command = "remove"
  <2>1. \A x, y, r : <<x, y, r>> \in New <=>
           <<x, y, r>> \in db /\ ~(r \in {"friend", "pending"} /\ Pair(x, y, p, q))
    BY <1>4 DEF Result, Removed, Both, Pair
  <2> SUFFICES ASSUME NEW x \in Personas, NEW y \in Personas
               PROVE  ConsistentFor(New, x, y)
    BY DEF Consistent
  <2>2. /\ ConsistentFor(db, x, y) /\ ConsistentFor(db, y, x)
        /\ ConsistentFor(db, p, q) /\ ConsistentFor(db, q, p)
    BY DEF Consistent
  <2> QED
    BY <2>1, <2>2 DEF ConsistentFor, Pair
<1>5. CASE command = "block"
  <2>1. \A x, y, r : <<x, y, r>> \in New <=>
           \/ <<x, y, r>> \in db /\ ~(r \in {"friend", "pending"} /\ Pair(x, y, p, q))
           \/ x = p /\ y = q /\ r = "blocked"
    BY <1>5 DEF Result, SetBlocked, Removed, Both, Pair
  <2> SUFFICES ASSUME NEW x \in Personas, NEW y \in Personas
               PROVE  ConsistentFor(New, x, y)
    BY DEF Consistent
  <2>2. /\ ConsistentFor(db, x, y) /\ ConsistentFor(db, y, x)
        /\ ConsistentFor(db, p, q) /\ ConsistentFor(db, q, p)
    BY DEF Consistent
  <2> QED
    BY <2>1, <2>2 DEF ConsistentFor, Pair
<1>6. CASE command = "unblock"
  <2>1. \A x, y, r : <<x, y, r>> \in New <=>
           <<x, y, r>> \in db /\ ~(x = p /\ y = q /\ r = "blocked")
    BY <1>6 DEF Result
  <2> SUFFICES ASSUME NEW x \in Personas, NEW y \in Personas
               PROVE  ConsistentFor(New, x, y)
    BY DEF Consistent
  <2>2. /\ ConsistentFor(db, x, y) /\ ConsistentFor(db, y, x)
        /\ ConsistentFor(db, p, q) /\ ConsistentFor(db, q, p)
    BY DEF Consistent
  <2> QED
    BY <2>1, <2>2 DEF ConsistentFor, Pair
<1> QED
  BY <1>1, <1>2, <1>3, <1>4, <1>5, <1>6 DEF Commands

-----------------------------------------------------------------------------
(* Every step keeps the invariant.                                         *)

LEMMA NewRows ==
    ASSUME db \in SUBSET Rows, NEW command \in Commands,
           NEW p \in Personas, NEW q \in Personas, db' = Result(command, p, q)
    PROVE  db' \in SUBSET Rows
BY ResultRows

LEMMA PastSteps ==
    ASSUME past \in PastRecord, NEW k \in Nat, NEW dropped \in BOOLEAN,
           NEW cut \in SUBSET Events,
           past' = [ran |-> past.ran, cut |-> cut, dropped |-> dropped, faults |-> k]
    PROVE  past' \in PastRecord /\ past'.ran = past.ran /\ past'.cut = cut
BY DEF PastRecord

\* The steps that leave the website's events and the pump alone.
LEMMA RelationSteps ==
    ASSUME Inv,
           \/ \E t \in Threads :
                 \/ \E c \in Commands, p, q \in Personas : Command(t, c, p, q)
                 \/ Reload(t) \/ ReloadFails(t)
           \/ \E p \in Personas : DeletePersona(p) \/ CreatePersona(p)
           \/ VisitorsChange
    PROVE  Inv'
<1>1. /\ UNCHANGED <<events, pump>> /\ past' \in PastRecord
      /\ past'.ran = past.ran /\ past'.cut = past.cut
  <2>1. UNCHANGED <<events, pump>>
    BY DEF Command, Reload, ReloadFails, DeletePersona, CreatePersona, VisitorsChange, web
  <2>2. \/ past' = past
        \/ past' = [past EXCEPT !.dropped = FALSE]
        \/ past' = [past EXCEPT !.dropped = TRUE]
        \/ past' = [past EXCEPT !.dropped = TRUE, !.faults = @ + 1]
    BY DEF Command, Reload, Loaded, ReloadFails, DeletePersona, CreatePersona,
       VisitorsChange
  <2>3. past \in PastRecord
    BY DEF Inv, Types
  <2>4. past.faults \in Nat /\ past.faults + 1 \in Nat /\ past.dropped \in BOOLEAN
        /\ past.cut \in SUBSET Events
    BY <2>3 DEF PastRecord
  <2>5. \E k \in Nat, dropped \in BOOLEAN :
           past' = [ran |-> past.ran, cut |-> past.cut, dropped |-> dropped, faults |-> k]
    <3>1. past = [ran |-> past.ran, cut |-> past.cut, dropped |-> past.dropped,
                  faults |-> past.faults]
      BY <2>3 DEF PastRecord
    <3>2. \/ past' = past
          \/ past' = [ran |-> past.ran, cut |-> past.cut, dropped |-> FALSE,
                      faults |-> past.faults]
          \/ past' = [ran |-> past.ran, cut |-> past.cut, dropped |-> TRUE,
                      faults |-> past.faults]
          \/ past' = [ran |-> past.ran, cut |-> past.cut, dropped |-> TRUE,
                      faults |-> past.faults + 1]
      BY <2>2, <2>3 DEF PastRecord
    <3> QED
      BY <2>4, <3>1, <3>2
  <2>6. /\ past' \in PastRecord /\ past'.ran = past.ran /\ past'.cut = past.cut
    BY <2>3, <2>4, <2>5, PastSteps
  <2> QED
    BY <2>1, <2>6
<1>2. /\ stored' \in SUBSET Personas /\ db' \in SUBSET Rows /\ cache' \in SUBSET Rows
      /\ job' \in [Threads -> {"idle", "reload"}] /\ visitors' \in BOOLEAN
  <2>1. ASSUME NEW t \in Threads, NEW c \in Commands, NEW p \in Personas, NEW q \in Personas,
               Command(t, c, p, q)
        PROVE  /\ stored' \in SUBSET Personas /\ db' \in SUBSET Rows
               /\ cache' \in SUBSET Rows
               /\ job' \in [Threads -> {"idle", "reload"}] /\ visitors' \in BOOLEAN
    <3>1. db' \in SUBSET Rows
      BY <2>1, NewRows DEF Inv, Types, Command
    <3> QED
      BY <2>1, <3>1 DEF Inv, Types, Command, web
  <2>2. CASE ~\E t \in Threads, c \in Commands, p, q \in Personas : Command(t, c, p, q)
    BY <2>2 DEF Inv, Types, Reload, Loaded, ReloadFails, LoadFails,
       DeletePersona, CreatePersona, VisitorsChange, web
  <2> QED
    BY <2>1, <2>2
<1>3. Types'
  BY <1>1, <1>2 DEF Inv, Types
<1>4. Asked' /\ Holding' /\ Progress'
  BY <1>1 DEF Inv, Asked, Holding, Progress, HeldProgress
<1> QED
  BY <1>3, <1>4 DEF Inv

LEMMA WebSteps ==
    ASSUME EventsAssumption, Inv, NEW e \in Events,
           \/ \E a \in Actions, p, q \in Personas : WebAsks(e, a, p, q)
           \/ Ages(e)
    PROVE  Inv'
<1>1. UNCHANGED <<stored, db, cache, job, pump, visitors, past>>
  BY DEF WebAsks, Ages
<1>2. \A d \in Events : d # e => events'[d] = events[d]
  BY DEF WebAsks, Ages, Inv, Types
<1>3. CASE Ages(e)
  <2>1. /\ events' \in [Events -> EventRecord]
        /\ events'[e].status = events[e].status /\ events'[e].action = events[e].action
        /\ events'[e].source = events[e].source /\ events'[e].target = events[e].target
    BY <1>3 DEF Ages, Inv, Types, EventRecord
  <2>2. Types' /\ Asked'
    BY <2>1, <1>1, <1>2 DEF Inv, Types, Asked
  <2>3. \A d \in Events : /\ events'[d].status = events[d].status
                         /\ events'[d].action = events[d].action
    BY <2>1, <1>2
  <2>4. Holding'
    BY <2>3, <1>1 DEF EventsAssumption, Inv, Types, PumpRecord, Holding
  <2>5. Progress'
    BY <2>3, <1>1 DEF Inv, Progress, HeldProgress
  <2> QED
    BY <2>2, <2>4, <2>5 DEF Inv
<1>4. ASSUME NEW a \in Actions, NEW p \in Personas, NEW q \in Personas, WebAsks(e, a, p, q)
      PROVE  Inv'
  <2>1. /\ events' \in [Events -> EventRecord] /\ events[e].status = "none"
        /\ events'[e].status = "pending" /\ events'[e].action = a
        /\ events'[e].source = p /\ events'[e].target = q /\ p # q
    BY <1>4 DEF WebAsks, Inv, Types, EventRecord, Statuses
  <2>2. pump.holds # e
    BY <2>1 DEF EventsAssumption, Inv, Holding
  <2>3. Types' /\ Asked'
    BY <2>1, <1>1, <1>2 DEF Inv, Types, Asked
  <2>4. Holding'
    <3>1. Holding /\ pump' = pump
      BY <1>1, <1>2 DEF Inv
    <3>2. \A d \in Events \ {e} : events'[d] = events[d]
      BY <1>2
    <3>3. /\ \A d \in Events : events'[d].status = "processing" =>
                events[d].status = "processing"
          /\ pump.holds # None => events'[pump.holds] = events[pump.holds]
      BY <2>1, <2>2, <3>2, <1>1 DEF EventsAssumption, Inv, Types, PumpRecord
    <3> QED
      BY <3>1, <3>3 DEF Holding
  <2>5. Progress'
    BY <2>1, <2>2, <1>1, <1>2 DEF Inv, Progress, HeldProgress
  <2> QED
    BY <2>3, <2>4, <2>5 DEF Inv
<1> QED
  BY <1>3, <1>4

LEMMA PumpStartsStep ==
    ASSUME EventsAssumption, Inv, PumpStarts
    PROVE  Inv'
<1>1. /\ UNCHANGED <<stored, db, cache, job, visitors>>
      /\ ~pump.on /\ pump' = [pump EXCEPT !.on = TRUE, !.due = TRUE]
      /\ events' = [e \in Events |-> [events[e] EXCEPT !.status = Interrupted(e)]]
      /\ past' = [past EXCEPT !.cut = @ \union {e \in Events : events[e].status = "processing"}]
  BY DEF PumpStarts
<1>2. /\ pump' \in PumpRecord /\ pump'.stage = "idle" /\ pump'.on
      /\ pump.holds = None /\ pump'.holds = None
  BY <1>1 DEF Inv, Types, PumpRecord, Holding
<1>3. /\ past' \in PastRecord /\ past'.ran = past.ran
      /\ past'.cut = past.cut \union {e \in Events : events[e].status = "processing"}
  BY <1>1 DEF Inv, Types, PastRecord
<1>4. ASSUME NEW e \in Events
      PROVE  /\ events'[e] \in EventRecord
             /\ events'[e].status = Interrupted(e)
             /\ events'[e].action = events[e].action
             /\ events'[e].source = events[e].source /\ events'[e].target = events[e].target
  BY <1>1 DEF Inv, Types, EventRecord, Statuses, Interrupted
<1>5. events' \in [Events -> EventRecord]
  BY <1>1, <1>4
<1>6. Types'
  BY <1>1, <1>2, <1>3, <1>5 DEF Inv, Types
<1>7. Asked'
  BY <1>4 DEF Inv, Asked, Interrupted
<1>8. Holding'
  BY <1>2, <1>4 DEF Holding, Interrupted
<1>9. Progress'
  <2> SUFFICES ASSUME NEW e \in Events
               PROVE  /\ past'.ran[e] \in {0, 1}
                      /\ events'[e].status \in {"none", "pending"} => past'.ran[e] = 0
                      /\ events'[e].status = "error" /\ past'.ran[e] = 1 => e \in past'.cut
                      /\ events'[e].status = "done" =>
                            past'.ran[e] = 1 \/ events'[e].action = "remove"
    BY <1>2 DEF EventsAssumption, Progress
  <2> QED
    BY <1>3, <1>4 DEF Inv, Progress, Interrupted
<1> QED
  BY <1>6, <1>7, <1>8, <1>9 DEF Inv

\* The pump takes its turns.
LEMMA PumpTurns ==
    ASSUME EventsAssumption, Inv, Sync \/ SyncFallsDue \/ FindsNothing
    PROVE  Inv'
<1>1. UNCHANGED <<stored, db, cache, job, events, visitors, past>>
  BY DEF Sync, SyncFallsDue, FindsNothing
<1>2. /\ pump' \in PumpRecord /\ pump'.holds = pump.holds /\ pump'.on
      /\ pump.holds = None /\ pump.on /\ pump'.stage \in {"idle", "looking"}
  BY DEF Inv, Types, PumpRecord, Stages, Holding, Sync, SyncFallsDue, FindsNothing
<1>3. Types' /\ Asked'
  BY <1>1, <1>2 DEF Inv, Types, Asked
<1>4. Holding'
  BY <1>1, <1>2 DEF Inv, Holding
<1>5. Progress'
  BY <1>1, <1>2 DEF EventsAssumption, Inv, Progress
<1> QED
  BY <1>3, <1>4, <1>5 DEF Inv

LEMMA ClaimStep ==
    ASSUME EventsAssumption, Inv, NEW e \in Events, Claim(e)
    PROVE  Inv'
<1>1. /\ UNCHANGED <<stored, db, cache, job, visitors, past>>
      /\ pump.stage = "looking" /\ events[e].status = "pending"
      /\ events' = [events EXCEPT ![e].status = "processing"]
      /\ pump' = [pump EXCEPT !.holds = e, !.stage = "claimed"]
  BY DEF Claim
<1>2. /\ pump' \in PumpRecord /\ pump'.holds = e /\ pump'.stage = "claimed"
      /\ pump.holds = None /\ pump.on /\ pump'.on
  BY <1>1 DEF Inv, Types, PumpRecord, Stages, Holding
<1>3. /\ events' \in [Events -> EventRecord] /\ events'[e].status = "processing"
      /\ events'[e].action = events[e].action
      /\ events'[e].source = events[e].source /\ events'[e].target = events[e].target
      /\ \A d \in Events : d # e => events'[d] = events[d]
  BY <1>1 DEF Inv, Types, EventRecord, Statuses
<1>4. Types' /\ Asked'
  BY <1>1, <1>2, <1>3 DEF Inv, Types, Asked
<1>5. Holding'
  BY <1>1, <1>2, <1>3 DEF EventsAssumption, Inv, Holding
<1>6. Progress'
  BY <1>1, <1>2, <1>3 DEF Inv, Progress, HeldProgress
<1> QED
  BY <1>4, <1>5, <1>6 DEF Inv

\* A step in which the pump works on the event it holds: only what was done about
\* that event may change.
LEMMA Works ==
    ASSUME EventsAssumption, Inv, pump.stage \in {"claimed", "reload"},
           UNCHANGED <<stored, job, events, visitors>>,
           db' \in SUBSET Rows, cache' \in SUBSET Rows, past' \in PastRecord,
           pump' \in PumpRecord, pump'.on = pump.on, pump'.holds = pump.holds,
           pump'.stage \in {"reload", "answer"},
           pump'.stage = "reload" => events[pump.holds].action \in Commands,
           \A d \in Events : d # pump.holds => past'.ran[d] = past.ran[d],
           past'.ran[pump.holds] \in {0, 1},
           past.cut \subseteq past'.cut,
           HeldProgress(pump.holds)'
    PROVE  Inv'
<1>1. Types' /\ Asked'
  BY DEF Inv, Types, Asked
<1>2. /\ pump.holds # None /\ pump.holds \in Events /\ pump.on
      /\ events[pump.holds].status = "processing"
  BY DEF Inv, Types, PumpRecord, Holding
<1>3. Holding'
  BY <1>2 DEF Inv, Holding
<1>4. Progress'
  <2> SUFFICES ASSUME NEW e \in Events
               PROVE  /\ past'.ran[e] \in {0, 1}
                      /\ events[e].status \in {"none", "pending"} => past'.ran[e] = 0
                      /\ pump'.holds = e => HeldProgress(e)'
                      /\ events[e].status = "error" /\ past'.ran[e] = 1 => e \in past'.cut
                      /\ events[e].status = "done" =>
                            past'.ran[e] = 1 \/ events[e].action = "remove"
    BY DEF Progress
  <2>1. CASE e = pump.holds
    BY <1>2, <2>1
  <2>2. CASE e # pump.holds
    BY <2>2 DEF Inv, Progress
  <2> QED
    BY <2>1, <2>2
<1> QED
  BY <1>1, <1>3, <1>4 DEF Inv

LEMMA ProcessingSteps ==
    ASSUME EventsAssumption, Inv,
           \/ Expires \/ ProcessCommand \/ PumpReloads \/ PumpReloadFails
           \/ \E delivered \in BOOLEAN : ProcessMessage(delivered)
    PROVE  Inv'
<1> DEFINE e == pump.holds
<1>1. /\ db \in SUBSET Rows /\ cache \in SUBSET Rows
      /\ pump \in PumpRecord /\ past \in PastRecord
      /\ pump.stage \in {"claimed", "reload"}
  BY DEF Inv, Types, Expires, ProcessCommand, PumpReloads, PumpReloadFails, ProcessMessage
<1>2. /\ e \in Events /\ e # None /\ events[e].status = "processing"
      /\ events[e].action \in Actions
      /\ events[e].source \in Personas /\ events[e].target \in Personas
  BY <1>1 DEF Inv, Holding, PumpRecord, Asked
<1>3. /\ past.ran[e] \in {0, 1}
      /\ pump.stage = "claimed" => past.ran[e] = 0
      /\ pump.stage = "reload" => past.ran[e] = 1 /\ events[e].action \in Commands
  BY <1>2 DEF Inv, Holding, Progress, HeldProgress
<1>4. ASSUME NEW ok \in BOOLEAN, Answers(ok)
      PROVE  /\ pump' \in PumpRecord /\ pump'.on = pump.on /\ pump'.holds = e
             /\ pump'.stage = "answer" /\ pump'.ok = ok
  BY <1>1, <1>4 DEF Answers, PumpRecord, Stages
<1>5. ASSUME Ran(e), pump.stage = "claimed"
      PROVE  /\ past' \in PastRecord /\ past'.ran[e] = 1 /\ past'.cut = past.cut
             /\ \A d \in Events : d # e => past'.ran[d] = past.ran[d]
  BY <1>1, <1>2, <1>3, <1>5 DEF Ran, PastRecord
<1>6. CASE Expires
  <2>1. /\ Answers(FALSE) /\ UNCHANGED <<stored, db, cache, job, events, visitors, past>>
        /\ pump.stage = "claimed"
    BY <1>6 DEF Expires
  <2>2. /\ pump' \in PumpRecord /\ pump'.on = pump.on /\ pump'.holds = e
        /\ pump'.stage = "answer" /\ ~pump'.ok
    BY <2>1, <1>4
  <2>3. HeldProgress(e)'
    BY <2>1, <2>2, <1>3 DEF HeldProgress
  <2> QED
    BY <2>1, <2>2, <2>3, <1>1, <1>3, Works
<1>7. CASE PumpReloads
  <2>1. /\ Answers(TRUE) /\ UNCHANGED <<stored, db, job, events, visitors>>
        /\ cache' = db /\ past' = [past EXCEPT !.dropped = FALSE]
        /\ pump.stage = "reload"
    BY <1>7 DEF PumpReloads, Loaded
  <2>2. /\ pump' \in PumpRecord /\ pump'.on = pump.on /\ pump'.holds = e
        /\ pump'.stage = "answer" /\ pump'.ok
    BY <2>1, <1>4
  <2>3. past' \in PastRecord /\ past'.ran = past.ran /\ past'.cut = past.cut
    BY <2>1, <1>1 DEF PastRecord
  <2>4. HeldProgress(e)'
    BY <2>1, <2>2, <2>3, <1>3 DEF HeldProgress
  <2> QED
    BY <2>1, <2>2, <2>3, <2>4, <1>1, <1>3, Works
<1>8. CASE PumpReloadFails
  <2>1. /\ Answers(FALSE) /\ UNCHANGED <<stored, db, job, events, visitors>>
        /\ cache' = {} /\ pump.stage = "reload"
        /\ past' = [past EXCEPT !.dropped = TRUE, !.faults = @ + 1, !.cut = @ \union {e}]
    BY <1>8 DEF PumpReloadFails, LoadFails
  <2>2. /\ pump' \in PumpRecord /\ pump'.on = pump.on /\ pump'.holds = e
        /\ pump'.stage = "answer" /\ ~pump'.ok
    BY <2>1, <1>4
  <2>3. /\ past' \in PastRecord /\ past'.ran = past.ran
        /\ past'.cut = past.cut \union {e}
    <3>1. past.faults + 1 \in Nat /\ past.cut \union {e} \in SUBSET Events
      BY <1>1, <1>2 DEF PastRecord
    <3>2. past' = [ran |-> past.ran, cut |-> past.cut \union {e}, dropped |-> TRUE,
                   faults |-> past.faults + 1]
      BY <2>1, <1>1 DEF PastRecord
    <3> QED
      BY <3>1, <3>2, <1>1, PastSteps
  <2>4. HeldProgress(e)' /\ cache' \in SUBSET Rows
    BY <2>1, <2>2, <2>3 DEF HeldProgress
  <2> QED
    BY <2>1, <2>2, <2>3, <2>4, <1>1, <1>3, Works
<1>9. ASSUME NEW delivered \in BOOLEAN, ProcessMessage(delivered)
      PROVE  Inv'
  <2> DEFINE sent == /\ SyncPresence /\ delivered
                     /\ ~Blocked(events[e].source, events[e].target)
  <2>1. /\ UNCHANGED <<stored, db, cache, job, events, visitors>>
        /\ pump.stage = "claimed"
        /\ IF sent THEN Ran(e) ELSE past' = past
        /\ Answers(sent)
    BY <1>9 DEF ProcessMessage
  <2>0. sent \in BOOLEAN
    OBVIOUS
  <2> HIDE DEF sent
  <2>2. CASE sent
    <3>1. Answers(TRUE) /\ Ran(e)
      BY <2>1, <2>2 DEF Answers
    <3>2. /\ pump' \in PumpRecord /\ pump'.on = pump.on /\ pump'.holds = e
          /\ pump'.stage = "answer" /\ pump'.ok
      BY <3>1, <1>4
    <3>3. /\ past' \in PastRecord /\ past'.ran[e] = 1 /\ past'.cut = past.cut
          /\ \A d \in Events : d # e => past'.ran[d] = past.ran[d]
      BY <3>1, <2>1, <1>5
    <3>4. HeldProgress(e)'
      BY <3>2, <3>3 DEF HeldProgress
    <3> QED
      BY <3>2, <3>3, <3>4, <2>1, <1>1, Works
  <2>3. CASE ~sent
    <3>0. sent = FALSE
      BY <2>0, <2>3
    <3>1. Answers(FALSE) /\ past' = past
      BY <2>1, <2>3, <3>0
    <3>2. /\ pump' \in PumpRecord /\ pump'.on = pump.on /\ pump'.holds = e
          /\ pump'.stage = "answer" /\ ~pump'.ok
      BY <3>1, <1>4
    <3>3. HeldProgress(e)'
      BY <3>1, <3>2, <2>1, <1>3 DEF HeldProgress
    <3> QED
      BY <3>1, <3>2, <3>3, <2>1, <1>1, <1>3, Works
  <2> QED
    BY <2>2, <2>3
<1>10. CASE ProcessCommand
  <2> DEFINE p == events[e].source
             q == events[e].target
             command == events[e].action
  <2>1. /\ pump.stage = "claimed" /\ command \in Commands
        /\ UNCHANGED <<stored, cache, job, events, visitors>>
        /\ IF Known(p, q) /\ Accepted(command, p, q)
           THEN /\ db' = Result(command, p, q)
                /\ Ran(e)
                /\ pump' = [pump EXCEPT !.stage = IF Reloads(command, p, q)
                                                  THEN "reload" ELSE "answer",
                                        !.ok = TRUE]
           ELSE /\ db' = db /\ past' = past
                /\ Answers(command = "remove")
    BY <1>10 DEF ProcessCommand
  <2>2. CASE Known(p, q) /\ Accepted(command, p, q)
    <3>1. db' \in SUBSET Rows
      BY <2>1, <2>2, <1>1, <1>2, NewRows
    <3>2. /\ pump' \in PumpRecord /\ pump'.on = pump.on /\ pump'.holds = e
          /\ pump'.stage \in {"reload", "answer"} /\ pump'.ok
      BY <2>1, <2>2, <1>1 DEF PumpRecord, Stages
    <3>3. /\ past' \in PastRecord /\ past'.ran[e] = 1 /\ past'.cut = past.cut
          /\ \A d \in Events : d # e => past'.ran[d] = past.ran[d]
      BY <2>1, <2>2, <1>5
    <3>4. HeldProgress(e)'
      BY <3>2, <3>3 DEF HeldProgress
    <3> QED
      BY <3>1, <3>2, <3>3, <3>4, <2>1, <1>1, Works
  <2>3. CASE ~(Known(p, q) /\ Accepted(command, p, q))
    <3>1. Answers(command = "remove") /\ past' = past /\ db' = db
      BY <2>1, <2>3
    <3>2. /\ pump' \in PumpRecord /\ pump'.on = pump.on /\ pump'.holds = e
          /\ pump'.stage = "answer" /\ (pump'.ok <=> command = "remove")
      <4>1. CASE command = "remove"
        <5>1. Answers(TRUE)
          BY <3>1, <4>1 DEF Answers
        <5> QED
          BY <5>1, <4>1, <1>4
      <4>2. CASE command # "remove"
        <5>1. Answers(FALSE)
          BY <3>1, <4>2 DEF Answers
        <5> QED
          BY <5>1, <4>2, <1>4
      <4> QED
        BY <4>1, <4>2
    <3>3. HeldProgress(e)'
      BY <3>1, <3>2, <2>1, <1>3 DEF HeldProgress
    <3> QED
      BY <3>1, <3>2, <3>3, <2>1, <1>1, <1>3, Works
  <2> QED
    BY <2>2, <2>3
<1> QED
  BY <1>6, <1>7, <1>8, <1>9, <1>10

LEMMA FinishStep ==
    ASSUME EventsAssumption, Inv, Finish
    PROVE  Inv'
<1> DEFINE e == pump.holds
           status == IF pump.ok THEN "done" ELSE "error"
<1>1. /\ UNCHANGED <<stored, db, cache, job, visitors, past>> /\ pump.stage = "answer"
      /\ events' = [events EXCEPT ![e].status = status]
      /\ pump' = [pump EXCEPT !.holds = None, !.stage = "idle", !.ok = FALSE]
  BY DEF Finish
<1>2. /\ e \in Events /\ e # None /\ pump.on /\ events[e].status = "processing"
      /\ HeldProgress(e)
  BY <1>1 DEF Inv, Types, PumpRecord, Holding, Progress
<1>3. /\ pump' \in PumpRecord /\ pump'.holds = None /\ pump'.stage = "idle" /\ pump'.on
  BY <1>1, <1>2 DEF Inv, Types, PumpRecord, Stages
<1>4. /\ events' \in [Events -> EventRecord] /\ events'[e].status = status
      /\ events'[e].action = events[e].action
      /\ events'[e].source = events[e].source /\ events'[e].target = events[e].target
      /\ \A d \in Events : d # e => events'[d] = events[d]
  BY <1>1, <1>2 DEF Inv, Types, EventRecord, Statuses
<1>5. Types' /\ Asked'
  BY <1>1, <1>2, <1>3, <1>4 DEF Inv, Types, Asked
<1>6. Holding'
  BY <1>2, <1>3, <1>4 DEF EventsAssumption, Inv, Holding
<1>7. Progress'
  <2> SUFFICES ASSUME NEW d \in Events
               PROVE  /\ past.ran[d] \in {0, 1}
                      /\ events'[d].status \in {"none", "pending"} => past.ran[d] = 0
                      /\ events'[d].status = "error" /\ past.ran[d] = 1 => d \in past.cut
                      /\ events'[d].status = "done" =>
                            past.ran[d] = 1 \/ events'[d].action = "remove"
    BY <1>1, <1>3 DEF EventsAssumption, Progress
  <2>1. CASE d = e
    BY <2>1, <1>1, <1>2, <1>4 DEF Inv, Progress, HeldProgress
  <2>2. CASE d # e
    BY <2>2, <1>4 DEF Inv, Progress
  <2> QED
    BY <2>1, <2>2
<1> QED
  BY <1>5, <1>6, <1>7 DEF Inv

LEMMA CrashStep ==
    ASSUME EventsAssumption, Inv, Crash
    PROVE  Inv'
<1>1. /\ UNCHANGED <<stored, db, events, visitors>> /\ cache' = db
      /\ job' = [t \in Threads |-> "idle"]
      /\ pump' = [on |-> FALSE, holds |-> None, stage |-> "idle", ok |-> FALSE, due |-> TRUE]
      /\ past' = [past EXCEPT !.faults = @ + 1, !.dropped = FALSE]
  BY DEF Crash
<1>2. pump' \in PumpRecord
  BY <1>1 DEF PumpRecord, Stages
<1>3. past \in PastRecord
  BY DEF Inv, Types
<1>4. past' \in PastRecord /\ past'.ran = past.ran /\ past'.cut = past.cut
  <2>1. past.faults + 1 \in Nat /\ past.cut \in SUBSET Events
    BY <1>3 DEF PastRecord
  <2>2. past' = [ran |-> past.ran, cut |-> past.cut, dropped |-> FALSE,
                 faults |-> past.faults + 1]
    BY <1>1, <1>3 DEF PastRecord
  <2> QED
    BY <2>1, <2>2, <1>3, PastSteps
<1>5. Types' /\ Asked'
  BY <1>1, <1>2, <1>4 DEF Inv, Types, Asked
<1>6. Holding'
  BY <1>1 DEF Holding
<1>7. Progress'
  BY <1>1, <1>4 DEF EventsAssumption, Inv, Progress
<1> QED
  BY <1>5, <1>6, <1>7 DEF Inv

LEMMA Initially ==
    ASSUME EventsAssumption, Init
    PROVE  Inv
<1>1. Types
  BY DEF Init, Types, EventRecord, Statuses, PumpRecord, Stages, PastRecord
<1>2. Asked /\ Holding
  BY DEF Init, Asked, Holding
<1>3. Progress
  BY DEF EventsAssumption, Init, Progress
<1> QED
  BY <1>1, <1>2, <1>3 DEF Inv

LEMMA Invariant ==
    ASSUME EventsAssumption
    PROVE  Spec => []Inv
<1>1. Init => Inv
  BY Initially
<1>2. Inv /\ [Next]_vars => Inv'
  <2> SUFFICES ASSUME Inv, [Next]_vars
               PROVE  Inv'
    OBVIOUS
  <2>1. CASE UNCHANGED vars
    BY <2>1 DEF vars, Inv, Types, Asked, Holding, Progress, HeldProgress
  <2>2. CASE Next
    BY <2>2, RelationSteps, WebSteps, PumpStartsStep, PumpTurns, ClaimStep,
       ProcessingSteps, FinishStep, CrashStep DEF Next
  <2> QED
    BY <2>1, <2>2
<1> QED
  BY <1>1, <1>2, PTL DEF Spec

-----------------------------------------------------------------------------
(* The theorems.                                                           *)

\* The variables have their types, and the pump holds an event exactly while it
\* works on it, which is then "processing".
THEOREM SocialTypes ==
    ASSUME EventsAssumption
    PROVE  Spec => []TypeOK
<1>1. Inv => TypeOK
  BY DEF Inv, Types, Asked, Holding, TypeOK, EventRecord, Statuses, PumpRecord, Stages,
     Rows, Kinds
<1> QED
  BY <1>1, Invariant, PTL

\* Whatever crashes, fails or falls due between the three transactions of the pump,
\* a command of the website is carried out at most once, and answered as it went.
THEOREM CommandsRunOnce ==
    ASSUME EventsAssumption
    PROVE  Spec => []WebCommandsRunOnce
<1>1. Inv => WebCommandsRunOnce
  BY DEF Inv, Progress, WebCommandsRunOnce
<1> QED
  BY <1>1, Invariant, PTL

\* The rows change by a command for two different personas, or with a deleted one.
LEMMA RowsChange ==
    ASSUME Inv, [Next]_vars
    PROVE  \/ db' = db
           \/ \E command \in Commands, p, q \in Personas :
                 p # q /\ db' = Result(command, p, q)
           \/ \E p \in Personas : DeletePersona(p)
<1>1. CASE UNCHANGED vars
  BY <1>1 DEF vars
<1>2. ASSUME NEW t \in Threads, NEW c \in Commands, NEW p \in Personas, NEW q \in Personas,
             Command(t, c, p, q)
      PROVE  p # q /\ db' = Result(c, p, q)
  BY <1>2 DEF Command
<1>3. CASE ProcessCommand
  <2> DEFINE e == pump.holds
  <2>1. /\ e \in Events /\ events[e].status = "processing"
    <3>1. e # None
      BY <1>3 DEF Inv, Holding, ProcessCommand
    <3> QED
      BY <3>1 DEF Inv, Types, PumpRecord, Holding
  <2>2. /\ events[e].source \in Personas /\ events[e].target \in Personas
        /\ events[e].source # events[e].target
    BY <2>1 DEF Inv, Asked
  <2>3. /\ events[e].action \in Commands
        /\ \/ db' = db
           \/ db' = Result(events[e].action, events[e].source, events[e].target)
    BY <1>3 DEF ProcessCommand
  <2> HIDE DEF e
  <2> QED
    BY <2>2, <2>3
<1>4. CASE \/ \E t \in Threads : Reload(t) \/ ReloadFails(t)
           \/ \E p \in Personas : CreatePersona(p)
           \/ \E e \in Events :
                 \/ \E a \in Actions, p, q \in Personas : WebAsks(e, a, p, q)
                 \/ Ages(e) \/ Claim(e)
           \/ VisitorsChange \/ PumpStarts \/ Sync \/ SyncFallsDue \/ FindsNothing
           \/ Expires \/ PumpReloads \/ PumpReloadFails
           \/ \E delivered \in BOOLEAN : ProcessMessage(delivered)
           \/ Finish \/ Crash
  BY <1>4 DEF Reload, ReloadFails, CreatePersona, WebAsks, Ages, Claim, VisitorsChange,
     PumpStarts, Sync, SyncFallsDue, FindsNothing, Expires, PumpReloads, PumpReloadFails,
     ProcessMessage, Finish, Crash
<1> QED
  BY <1>1, <1>2, <1>3, <1>4 DEF Next

\* Friendship stays mutual, a request one-sided and apart from it, and a block
\* excludes both, whatever two personas and the website ask for at once.
THEOREM RelationsStayConsistent ==
    ASSUME EventsAssumption
    PROVE  Spec => []RelationsAreConsistent
<1>1. Init => Consistent(db)
  BY DEF Init, Consistent, ConsistentFor
<1>2. Inv /\ Consistent(db) /\ [Next]_vars => Consistent(db)'
  <2> SUFFICES ASSUME Inv, Consistent(db), [Next]_vars
               PROVE  Consistent(db')
    OBVIOUS
  <2>1. CASE db' = db
    BY <2>1
  <2>2. ASSUME NEW command \in Commands, NEW p \in Personas, NEW q \in Personas,
               p # q, db' = Result(command, p, q)
        PROVE  Consistent(db')
    BY <2>2, ResultConsistent
  <2>3. ASSUME NEW p \in Personas, DeletePersona(p)
        PROVE  Consistent(db')
    <3>1. \A x, y, r : <<x, y, r>> \in db' <=> <<x, y, r>> \in db /\ x # p /\ y # p
      BY <2>3 DEF DeletePersona
    <3> QED
      BY <3>1 DEF Consistent, ConsistentFor
  <2> QED
    BY <2>1, <2>2, <2>3, RowsChange
<1>3. Consistent(db) => RelationsAreConsistent
  BY ConsistentRows
<1> QED
  BY <1>1, <1>2, <1>3, Invariant, PTL DEF Spec

\* A row that changes makes the command go on to its reload, and a cache that was not
\* reloaded is known to be stale: a reload failed or a persona was deleted since.
THEOREM CacheStaysCurrent ==
    ASSUME EventsAssumption
    PROVE  Spec => []CacheIsCurrent
<1>1. Init => CacheIsCurrent
  BY DEF Init, CacheIsCurrent
<1>2. Inv /\ CacheIsCurrent /\ [Next]_vars => CacheIsCurrent'
  <2> SUFFICES ASSUME Inv, CacheIsCurrent, [Next]_vars
               PROVE  CacheIsCurrent'
    OBVIOUS
  <2>1. /\ job \in [Threads -> {"idle", "reload"}]
        /\ pump \in PumpRecord /\ past \in PastRecord
    BY DEF Inv, Types
  <2>2. ASSUME NEW t \in Threads, NEW c \in Commands, NEW p \in Personas, NEW q \in Personas,
               Command(t, c, p, q)
        PROVE  CacheIsCurrent'
    <3>1. CASE Reloads(c, p, q)
      BY <2>1, <2>2, <3>1 DEF Command, CacheIsCurrent
    <3>2. CASE ~Reloads(c, p, q)
      BY <2>1, <2>2, <3>2 DEF Command, Reloads, CacheIsCurrent, web
    <3> QED
      BY <3>1, <3>2
  <2>3. CASE ProcessCommand
    <3> DEFINE p == events[pump.holds].source
               q == events[pump.holds].target
               c == events[pump.holds].action
    <3>1. /\ pump.stage = "claimed" /\ UNCHANGED <<cache, job>>
          /\ \/ db' = db /\ past'.dropped = past.dropped
             \/ db' # db /\ pump'.stage = "reload"
      <4>1. Ran(pump.holds) => past'.dropped = past.dropped
        BY <2>1 DEF Ran, PastRecord
      <4>2. /\ pump.stage = "claimed" /\ UNCHANGED <<cache, job>>
            /\ \/ /\ db' = Result(c, p, q) /\ Ran(pump.holds)
                  /\ pump' = [pump EXCEPT !.stage = IF Reloads(c, p, q)
                                                    THEN "reload" ELSE "answer",
                                          !.ok = TRUE]
               \/ db' = db /\ past' = past
        BY <2>3 DEF ProcessCommand
      <4> HIDE DEF c, p, q
      <4>3. CASE Reloads(c, p, q)
        BY <4>1, <4>2, <4>3, <2>1 DEF PumpRecord
      <4>4. CASE ~Reloads(c, p, q)
        BY <4>1, <4>2, <4>4 DEF Reloads
      <4> QED
        BY <4>3, <4>4
    <3> QED
      BY <3>1 DEF CacheIsCurrent
  <2>4. CASE \/ \E t \in Threads : Reload(t)
             \/ PumpReloads \/ Crash
    BY <2>4 DEF Reload, PumpReloads, Loaded, Crash, CacheIsCurrent
  <2>5. CASE \/ \E t \in Threads : ReloadFails(t)
             \/ PumpReloadFails
             \/ \E p \in Personas : DeletePersona(p)
    BY <2>5, <2>1 DEF ReloadFails, PumpReloadFails, DeletePersona, PastRecord, CacheIsCurrent
  <2>6. CASE \/ \E p \in Personas : CreatePersona(p)
             \/ \E e \in Events :
                   \/ \E a \in Actions, p, q \in Personas : WebAsks(e, a, p, q)
                   \/ Ages(e)
             \/ VisitorsChange \/ UNCHANGED vars
    BY <2>6 DEF CreatePersona, WebAsks, Ages, VisitorsChange, CacheIsCurrent, web, vars
  <2>7. CASE \/ \E e \in Events : Claim(e)
             \/ PumpStarts \/ Sync \/ SyncFallsDue \/ FindsNothing \/ Finish \/ Expires
             \/ \E delivered \in BOOLEAN : ProcessMessage(delivered)
    <3>1. UNCHANGED <<db, cache, job>>
      BY <2>7 DEF Claim, PumpStarts, Sync, SyncFallsDue, FindsNothing, Finish, Expires,
         ProcessMessage
    <3>2. pump.stage # "reload"
      BY <2>7 DEF Claim, PumpStarts, Sync, SyncFallsDue, FindsNothing, Finish, Expires,
         ProcessMessage, Inv, Holding
    <3>3. past'.dropped = past.dropped
      BY <2>7, <2>1 DEF Claim, PumpStarts, Sync, SyncFallsDue, FindsNothing, Finish, Expires,
         ProcessMessage, Ran, PastRecord
    <3> QED
      BY <3>1, <3>2, <3>3 DEF CacheIsCurrent
  <2> QED
    BY <2>2, <2>3, <2>4, <2>5, <2>6, <2>7 DEF Next
<1> QED
  BY <1>1, <1>2, Invariant, PTL DEF Spec

-----------------------------------------------------------------------------
(* Player Lists and recent players.                                        *)

CONSTANTS Gamers, Carbon, Sessions, Capacity, Limit

VARIABLES online, session, control, shown, task, recent, spoilt

Meet == INSTANCE Encounters WITH Personas <- Gamers, job <- task, past <- spoilt

\* What is still to be published to the viewer v, by the thread of r and by all.
ToPublish(r, v) == {x \in task[r].drop \union task[r].add : x[1] = v}

Dropped(v) == {q \in Gamers : \E r \in Gamers : <<v, q>> \in task[r].drop}
Added(v) == {q \in Gamers : \E r \in Gamers : <<v, q>> \in task[r].add}

\* Unless its list may be spoilt, one thread at a time publishes to a viewer ...
OneThreadPublishes ==
    \A v \in control \ spoilt : \A r1, r2 \in Gamers :
        ToPublish(r1, v) # {} /\ ToPublish(r2, v) # {} => r1 = r2

\* ... and what it publishes makes the list the room of the viewer.
ListsFollow ==
    \A v \in control \ (Carbon \union spoilt) :
        (shown[v] \ Dropped(v)) \union Added(v) = Meet!Roommates(v)

NobodyIsToldOfItself == \A r, v \in Gamers : <<v, v>> \notin task[r].add

EncountersInv ==
    /\ Meet!TypeOK /\ NobodyIsToldOfItself /\ OneThreadPublishes /\ ListsFollow
    /\ Meet!RoommatesAreRemembered

-----------------------------------------------------------------------------
(* A change of rooms.                                                      *)

\* The instance counts as the theorems about finite sets do.
LEMMA MeetCounts ==
    \A S : (Meet!IsFiniteSet(S) <=> IsFiniteSet(S)) /\ Meet!Cardinality(S) = Cardinality(S)
<1>1. \A S : Meet!IsFiniteSet(S) <=> IsFiniteSet(S)
  BY DEF Meet!IsFiniteSet, IsFiniteSet
<1>2. \A S : Meet!Cardinality(S) = Cardinality(S)
  BY DEF Meet!Cardinality, Cardinality
<1> QED
  BY <1>1, <1>2

LEMMA ToldPairs ==
    ASSUME Meet!TypeOK, NEW p \in Gamers, NEW s
    PROVE  /\ Meet!Told(p, s) \subseteq (Gamers \X Gamers)
           /\ \A v, q \in Gamers : <<v, q>> \in Meet!Told(p, s) <=>
                 \/ q = p /\ v \in Meet!Members(p, s) \ {p} /\ v \in control
                 \/ v = p /\ q \in Meet!Members(p, s) \ {p} /\ q \in online
<1>1. Meet!Members(p, s) \subseteq Gamers
  BY DEF Meet!Members
<1> QED
  BY <1>1 DEF Meet!Told, Meet!DirectoryTargets, Meet!PlayerRows

\* A list is cut where it is full, but never before the players of the room.
LEMMA PlaceTypes ==
    ASSUME Meet!TypeOK, Meet!RoomsFitAssumption, NEW q \in Gamers, NEW room \in SUBSET Gamers,
           NEW x \in Gamers
    PROVE  Meet!Place(q, room, x) \in Nat \ {0}
<1> DEFINE B == {y \in Meet!Listed(q, room) : Meet!Before(q, room, y, x)}
<1>1. B \subseteq Gamers /\ IsFiniteSet(Gamers)
  BY MeetCounts DEF Meet!Listed, Meet!RoomsFitAssumption
<1>2. Cardinality(B) \in Nat
  BY <1>1, FS_Subset, FS_CardinalityType
<1>3. Meet!Place(q, room, x) = 1 + Cardinality(B)
  BY MeetCounts DEF Meet!Place
<1> HIDE DEF B
<1> QED
  BY <1>2, <1>3

LEMMA RoomComesFirst ==
    ASSUME Meet!TypeOK, Meet!RoomsFitAssumption, NEW q \in Gamers, NEW room \in SUBSET Gamers,
           q \in room, Cardinality(room) <= Capacity, NEW x \in room \ {q}
    PROVE  Meet!Place(q, room, x) <= Limit /\ x \in Meet!Listed(q, room)
<1> DEFINE B == {y \in Meet!Listed(q, room) : Meet!Before(q, room, y, x)}
<1>1. IsFiniteSet(room)
  BY FS_Subset, MeetCounts DEF Meet!RoomsFitAssumption
<1>2. B \subseteq (room \ {q}) \ {x}
  <2> SUFFICES ASSUME NEW y \in Meet!Listed(q, room), Meet!Before(q, room, y, x)
               PROVE  y \in (room \ {q}) \ {x}
    OBVIOUS
  <2>1. y \in room /\ y < x
    BY DEF Meet!Before
  <2>2. x \in Nat
    BY DEF Meet!RoomsFitAssumption
  <2>3. y # q
    BY DEF Meet!Listed, Meet!TypeOK
  <2> QED
    BY <2>1, <2>2, <2>3
<1>3. IsFiniteSet(room \ {q}) /\ Cardinality(room \ {q}) = Cardinality(room) - 1
  BY <1>1, FS_RemoveElement
<1>4. /\ IsFiniteSet((room \ {q}) \ {x})
      /\ Cardinality((room \ {q}) \ {x}) = Cardinality(room \ {q}) - 1
  BY <1>3, FS_RemoveElement
<1>5. Cardinality(B) <= Cardinality((room \ {q}) \ {x}) /\ IsFiniteSet(B)
  BY <1>2, <1>4, FS_Subset
<1>6. Cardinality(B) \in Nat /\ Cardinality(room) \in Nat
  BY <1>1, <1>5, FS_CardinalityType
<1>7. Meet!Place(q, room, x) = 1 + Cardinality(B)
  BY MeetCounts DEF Meet!Place
<1> HIDE DEF B
<1>8. Cardinality(B) <= (Cardinality(room) - 1) - 1
  BY <1>3, <1>4, <1>5
<1>9. Meet!Place(q, room, x) <= Limit
  BY <1>6, <1>7, <1>8 DEF Meet!RoomsFitAssumption
<1> QED
  BY <1>9 DEF Meet!Listed

LEMMA RecordedTypes ==
    ASSUME Meet!TypeOK, Meet!RoomsFitAssumption, NEW room \in SUBSET Gamers,
           Cardinality(room) <= Capacity
    PROVE  /\ Meet!Recorded(room) \in [Gamers -> [Gamers -> 0..Limit]]
           /\ \A q \in Gamers : Meet!Recorded(room)[q][q] = 0
           /\ \A q \in Gamers \ room : Meet!Recorded(room)[q] = recent[q]
           /\ \A q \in room : \A x \in room \ {q} : Meet!Recorded(room)[q][x] # 0
<1> DEFINE new(q) == [x \in Gamers |->
                         IF x \in Meet!Listed(q, room) /\ Meet!Place(q, room, x) <= Limit
                         THEN Meet!Place(q, room, x) ELSE 0]
<1>1. ASSUME NEW q \in room
      PROVE  /\ new(q) \in [Gamers -> 0..Limit] /\ new(q)[q] = 0
             /\ \A x \in room \ {q} : new(q)[x] # 0
  <2>1. \A x \in Gamers : Meet!Place(q, room, x) \in Nat \ {0}
    BY PlaceTypes
  <2>2. new(q) \in [Gamers -> 0..Limit]
    BY <2>1 DEF Meet!RoomsFitAssumption
  <2>3. q \notin Meet!Listed(q, room)
    BY DEF Meet!Listed, Meet!TypeOK
  <2>4. \A x \in room \ {q} : Meet!Place(q, room, x) <= Limit /\ x \in Meet!Listed(q, room)
    BY RoomComesFirst
  <2> QED
    BY <2>1, <2>2, <2>3, <2>4
<1>2. Meet!Recorded(room) = [q \in Gamers |-> IF q \in room THEN new(q) ELSE recent[q]]
  BY DEF Meet!Recorded
<1> HIDE DEF new
<1>3. \A q \in Gamers : recent[q] \in [Gamers -> 0..Limit] /\ recent[q][q] = 0
  BY DEF Meet!TypeOK
<1> QED
  BY <1>1, <1>2, <1>3

\* What a change of p from its room to s leaves.
LEMMA MovesTypes ==
    ASSUME Meet!TypeOK, Meet!RoomsFitAssumption, NEW p \in Gamers,
           NEW s \in Sessions \union {None},
           Meet!Moves(p, s)
    PROVE  /\ Meet!TypeOK'
           /\ UNCHANGED <<online, control, shown>>
           /\ p \in online /\ task[p] = Meet!Quiet /\ s # session[p]
           /\ session'[p] = s /\ \A q \in Gamers \ {p} : session'[q] = session[q]
           /\ \A q \in Gamers \ {p} : task'[q] = task[q]
           /\ task'[p].drop =
                 (IF p \in Carbon \/ session[p] = None THEN {} ELSE Meet!Told(p, session[p]))
           /\ task'[p].add = (IF s = None THEN {} ELSE Meet!Told(p, s))
           /\ spoilt' = IF \E q \in Meet!Concerned(p, s) : Meet!Pending(q)
                         THEN spoilt \union Meet!Concerned(p, s) ELSE spoilt
           /\ recent' = IF p \in Carbon /\ s # None /\ Meet!Members(p, s) # {}
                         THEN Meet!Recorded(Meet!Members(p, s) \union {p}) ELSE recent
           /\ s # None => Cardinality(Meet!Members(p, s) \union {p}) <= Capacity
<1> DEFINE drop == IF p \in Carbon \/ session[p] = None THEN {} ELSE Meet!Told(p, session[p])
           add == IF s = None THEN {} ELSE Meet!Told(p, s)
           new == [drop |-> drop, add |-> add]
           room == Meet!Members(p, s) \union {p}
<1>1. /\ UNCHANGED <<online, control, shown>> /\ p \in online /\ task[p] = Meet!Quiet /\ s # session[p]
      /\ session' = [session EXCEPT ![p] = s]
      /\ task' = [task EXCEPT ![p] = new]
      /\ recent' = IF p \in Carbon /\ s # None /\ Meet!Members(p, s) # {}
                    THEN Meet!Recorded(room) ELSE recent
      /\ spoilt' = IF \E q \in Meet!Concerned(p, s) : Meet!Pending(q)
                    THEN spoilt \union Meet!Concerned(p, s) ELSE spoilt
      /\ s # None => Cardinality(Meet!Members(p, s)) < Capacity
  BY MeetCounts DEF Meet!Moves, Meet!SetGameSession, Meet!Idle
<1>2. drop \in SUBSET (Gamers \X Gamers) /\ add \in SUBSET (Gamers \X Gamers)
  BY ToldPairs
<1> HIDE DEF drop, add
<1>3. new \in [drop : SUBSET (Gamers \X Gamers), add : SUBSET (Gamers \X Gamers)]
      /\ new.drop = drop /\ new.add = add
  BY <1>2
<1> HIDE DEF new
<1>4. /\ task' \in [Gamers -> [drop : SUBSET (Gamers \X Gamers),
                                 add : SUBSET (Gamers \X Gamers)]]
      /\ task'[p] = new /\ \A q \in Gamers \ {p} : task'[q] = task[q]
  BY <1>1, <1>3 DEF Meet!TypeOK
<1>5. /\ session' \in [Gamers -> Sessions \union {None}]
      /\ session'[p] = s /\ \A q \in Gamers \ {p} : session'[q] = session[q]
  BY <1>1 DEF Meet!TypeOK
<1>6. Meet!Members(p, s) \subseteq Gamers /\ p \notin Meet!Members(p, s)
  BY <1>1 DEF Meet!Members
<1>7. s # None => Cardinality(room) <= Capacity
  <2>1. IsFiniteSet(Meet!Members(p, s))
    BY <1>6, FS_Subset, MeetCounts DEF Meet!RoomsFitAssumption
  <2>2. /\ Cardinality(room) = Cardinality(Meet!Members(p, s)) + 1
        /\ Cardinality(Meet!Members(p, s)) \in Nat
    BY <1>6, <2>1, FS_AddElement, FS_CardinalityType
  <2> QED
    BY <1>1, <2>2 DEF Meet!RoomsFitAssumption
<1>8. recent' \in [Gamers -> [Gamers -> 0..Limit]] /\ \A q \in Gamers : recent'[q][q] = 0
  BY <1>1, <1>6, <1>7, RecordedTypes DEF Meet!TypeOK
<1>9. spoilt' \subseteq Gamers
  BY <1>1 DEF Meet!TypeOK, Meet!Concerned
<1>10. Meet!TypeOK'
  <2>1. \A q \in Gamers : session'[q] # None => q \in online'
    BY <1>1, <1>5 DEF Meet!TypeOK
  <2> QED
    BY <1>1, <1>4, <1>5, <1>8, <1>9, <2>1 DEF Meet!TypeOK
<1> HIDE DEF room
<1> QED
  BY <1>1, <1>3, <1>4, <1>5, <1>7, <1>10 DEF drop, add, room

LEMMA MovesInv ==
    ASSUME EncountersInv, Meet!RoomsFitAssumption, NEW p \in Gamers,
           NEW s \in Sessions \union {None}, Meet!Moves(p, s)
    PROVE  EncountersInv'
<1>1. /\ Meet!TypeOK /\ Meet!TypeOK'
      /\ UNCHANGED <<online, control, shown>>
      /\ p \in online /\ task[p] = Meet!Quiet /\ s # session[p]
      /\ session'[p] = s /\ \A q \in Gamers \ {p} : session'[q] = session[q]
      /\ \A q \in Gamers \ {p} : task'[q] = task[q]
      /\ task'[p].drop = (IF p \in Carbon \/ session[p] = None THEN {} ELSE Meet!Told(p, session[p]))
      /\ task'[p].add = (IF s = None THEN {} ELSE Meet!Told(p, s))
      /\ spoilt' = IF \E q \in Meet!Concerned(p, s) : Meet!Pending(q)
                    THEN spoilt \union Meet!Concerned(p, s) ELSE spoilt
      /\ recent' = IF p \in Carbon /\ s # None /\ Meet!Members(p, s) # {}
                    THEN Meet!Recorded(Meet!Members(p, s) \union {p}) ELSE recent
      /\ s # None => Cardinality(Meet!Members(p, s) \union {p}) <= Capacity
  BY MovesTypes DEF EncountersInv
<1>2. spoilt \subseteq spoilt'
  BY <1>1
\* Whom the change concerns and whose list is not spoilt has nothing else to come.
<1>3. ASSUME NEW v \in Meet!Concerned(p, s), v \notin spoilt'
      PROVE  \A r \in Gamers : ToPublish(r, v) = {}
  <2>1. ~Meet!Pending(v) /\ v \in Gamers
    BY <1>1, <1>3 DEF Meet!Concerned
  <2>2. \A r, q \in Gamers : <<v, q>> \notin task[r].drop \union task[r].add
    BY <2>1 DEF Meet!Pending
  <2>3. \A r \in Gamers : task[r].drop \union task[r].add \subseteq (Gamers \X Gamers)
    BY <1>1 DEF Meet!TypeOK
  <2> QED
    BY <2>2, <2>3 DEF ToPublish
\* The change is told to nobody else.
<1>4. ASSUME NEW v \in Gamers, v \notin Meet!Concerned(p, s)
      PROVE  \A q \in Gamers : <<v, q>> \notin task'[p].drop \union task'[p].add
  BY <1>1, <1>4, ToldPairs DEF Meet!Concerned, Meet!Members, Meet!SameGame
<1>5. task[p].drop = {} /\ task[p].add = {}
  BY <1>1 DEF Meet!Quiet
<1>6. OneThreadPublishes'
  <2> SUFFICES ASSUME NEW v \in control, v \notin spoilt', NEW r1 \in Gamers, NEW r2 \in Gamers,
                      ToPublish(r1, v)' # {}, ToPublish(r2, v)' # {}, r1 # r2
               PROVE  FALSE
    BY <1>1 DEF OneThreadPublishes
  <2>0. v \in Gamers
    BY <1>1 DEF Meet!TypeOK
  <2>1. \A r \in Gamers \ {p} : ToPublish(r, v)' = ToPublish(r, v)
    BY <1>1 DEF ToPublish
  <2>2. ToPublish(p, v) = {}
    BY <1>5 DEF ToPublish
  <2>3. CASE v \in Meet!Concerned(p, s)
    BY <1>3, <2>1, <2>3
  <2>4. CASE v \notin Meet!Concerned(p, s)
    <3>1. ToPublish(p, v)' = {}
      <4>1. task'[p].drop \union task'[p].add \subseteq (Gamers \X Gamers)
        BY <1>1 DEF Meet!TypeOK
      <4> QED
        BY <1>4, <2>0, <2>4, <4>1 DEF ToPublish
    <3> QED
      BY <1>2, <2>1, <3>1 DEF EncountersInv, OneThreadPublishes
  <2> QED
    BY <2>3, <2>4
<1>7. ListsFollow'
  <2> SUFFICES ASSUME NEW v \in control, v \notin Carbon, v \notin spoilt'
               PROVE  (shown[v] \ Dropped(v)') \union Added(v)' = Meet!Roommates(v)'
    BY <1>1 DEF ListsFollow
  <2>1. v \in Gamers /\ v \notin spoilt /\ shown[v] \subseteq Gamers
        /\ (shown[v] \ Dropped(v)) \union Added(v) = Meet!Roommates(v)
    BY <1>1, <1>2 DEF EncountersInv, ListsFollow, Meet!TypeOK
  <2>2. CASE v \notin Meet!Concerned(p, s)
    <3>1. Dropped(v)' = Dropped(v) /\ Added(v)' = Added(v)
      BY <1>1, <1>4, <1>5, <2>1, <2>2 DEF Dropped, Added
    <3>2. Meet!Roommates(v)' = Meet!Roommates(v)
      <4>1. v # p /\ session'[v] = session[v]
        BY <1>1, <2>1, <2>2 DEF Meet!Concerned
      <4>2. ~(Meet!SameGame(v, p) /\ session[v] \in {session[p], s} \ {None})
        BY <2>1, <2>2 DEF Meet!Concerned, Meet!SameGame
      <4>3. \A q \in Gamers : q \in Meet!Roommates(v)' <=> q \in Meet!Roommates(v)
        BY <1>1, <4>1, <4>2 DEF Meet!Roommates, Meet!Members
      <4> QED
        BY <4>3 DEF Meet!Roommates, Meet!Members
    <3> QED
      BY <2>1, <3>1, <3>2
  <2>3. CASE v \in Meet!Concerned(p, s)
    <3>1. \A r, q \in Gamers : <<v, q>> \notin task[r].drop /\ <<v, q>> \notin task[r].add
      BY <1>3, <2>1, <2>3 DEF ToPublish
    <3>2. shown[v] = Meet!Roommates(v)
      BY <2>1, <3>1 DEF Dropped, Added
    <3>3. Dropped(v)' = {q \in Gamers : <<v, q>> \in task'[p].drop}
          /\ Added(v)' = {q \in Gamers : <<v, q>> \in task'[p].add}
      BY <1>1, <3>1 DEF Dropped, Added
    <3>4. p \notin Carbon /\ Meet!SameGame(v, p)
      BY <2>3 DEF Meet!Concerned, Meet!SameGame
    <3>5. \A q \in Gamers : session[q] # None => q \in online
      BY <1>1 DEF Meet!TypeOK
    <3>6. CASE v = p
      <4>1. Dropped(v)' = Meet!Roommates(p)
        <5>1. \A q \in Gamers : <<p, q>> \in task'[p].drop <=> q \in Meet!Roommates(p)
          BY <1>1, <3>4, <3>5, ToldPairs DEF Meet!Roommates, Meet!Members
        <5> QED
          BY <3>3, <3>6, <5>1 DEF Meet!Roommates, Meet!Members
      <4>2. Added(v)' = Meet!Roommates(p)'
        <5>1. \A q \in Gamers : <<p, q>> \in task'[p].add <=> q \in Meet!Roommates(p)'
          BY <1>1, <3>4, <3>5, ToldPairs DEF Meet!Roommates, Meet!Members
        <5> QED
          BY <3>3, <3>6, <5>1 DEF Meet!Roommates, Meet!Members
      <4> QED
        BY <3>2, <3>6, <4>1, <4>2
    <3>7. CASE v # p
      <4>1. session'[v] = session[v] /\ session[v] \in {session[p], s} /\ session[v] # None
        BY <1>1, <2>1, <2>3, <3>7 DEF Meet!Concerned
      <4>2. \A q \in Gamers \ {p} : q \in Meet!Roommates(v)' <=> q \in Meet!Roommates(v)
        BY <1>1, <4>1 DEF Meet!Roommates, Meet!Members
      <4>3. p \in Meet!Roommates(v) <=> session[v] = session[p]
        BY <3>4, <3>7, <4>1 DEF Meet!Roommates, Meet!Members
      <4>4. p \in Meet!Roommates(v)' <=> session[v] = s
        BY <1>1, <3>4, <3>7, <4>1 DEF Meet!Roommates, Meet!Members
      <4>5. \A q \in Gamers : <<v, q>> \in task'[p].drop <=> q = p /\ session[v] = session[p]
        BY <1>1, <2>1, <3>4, <3>7, <4>1, ToldPairs DEF Meet!Members, Meet!SameGame
      <4>6. \A q \in Gamers : <<v, q>> \in task'[p].add <=> q = p /\ session[v] = s
        BY <1>1, <2>1, <3>4, <3>7, <4>1, ToldPairs DEF Meet!Members, Meet!SameGame
      <4>7. Meet!Roommates(v) \subseteq Gamers /\ Meet!Roommates(v)' \subseteq Gamers
        BY DEF Meet!Roommates, Meet!Members
      <4> QED
        BY <1>1, <3>2, <3>3, <4>1, <4>2, <4>3, <4>4, <4>5, <4>6, <4>7
    <3> QED
      BY <3>6, <3>7
  <2> QED
    BY <2>2, <2>3
<1>8. Meet!RoommatesAreRemembered'
  <2> SUFFICES ASSUME NEW v \in Carbon, NEW q \in Gamers, q \in Meet!Roommates(v)'
               PROVE  recent'[v][q] # 0
    BY DEF Meet!RoommatesAreRemembered, Meet!RecentRoster, Meet!Roommates, Meet!Members
  <2>0. v \in Gamers
    BY DEF Meet!RoomsFitAssumption
  <2>1. q # v /\ session'[q] = session'[v] /\ session'[v] # None /\ Meet!SameGame(v, q)
    BY DEF Meet!Roommates, Meet!Members
  <2>2. CASE q \in Meet!Roommates(v) /\ recent'[v] = recent[v]
    BY <2>2 DEF EncountersInv, Meet!RoommatesAreRemembered, Meet!RecentRoster
  <2>3. CASE ~(v \in Meet!Members(p, s) \union {p})
    <3>1. v # p /\ session'[v] = session[v]
      BY <1>1, <2>0, <2>3
    <3>2. q # p
      BY <1>1, <2>0, <2>1, <2>3, <3>1 DEF Meet!Members, Meet!SameGame
    <3>3. q \in Meet!Roommates(v)
      BY <1>1, <2>1, <3>1, <3>2 DEF Meet!Roommates, Meet!Members
    <3>4. recent'[v] = recent[v]
      <4>1. CASE recent' = recent
        BY <4>1
      <4>2. CASE recent' # recent
        <5>1. recent' = Meet!Recorded(Meet!Members(p, s) \union {p}) /\ s # None
          BY <1>1, <4>2
        <5>2. Meet!Members(p, s) \union {p} \in SUBSET Gamers
          BY DEF Meet!Members
        <5> QED
          BY <1>1, <2>0, <2>3, <5>1, <5>2, RecordedTypes
      <4> QED
        BY <4>1, <4>2
    <3> QED
      BY <2>2, <3>3, <3>4
  <2>4. CASE v \in Meet!Members(p, s) \union {p}
    <3>1. session'[v] = s /\ s # None
      BY <1>1, <2>0, <2>1, <2>4 DEF Meet!Members
    <3>2. q \in Meet!Members(p, s) \union {p}
      BY <1>1, <2>1, <2>4, <3>1 DEF Meet!Members, Meet!SameGame
    <3>3. p \in Carbon
      BY <2>4 DEF Meet!Members, Meet!SameGame
    <3>4. Meet!Members(p, s) # {}
      BY <2>1, <2>4, <3>2
    <3>5. recent' = Meet!Recorded(Meet!Members(p, s) \union {p})
      BY <1>1, <3>1, <3>3, <3>4
    <3>6. Meet!Members(p, s) \union {p} \in SUBSET Gamers
      BY DEF Meet!Members
    <3> QED
      BY <1>1, <2>1, <2>4, <3>1, <3>2, <3>5, <3>6, RecordedTypes
  <2> QED
    BY <2>3, <2>4
<1>9. NobodyIsToldOfItself'
  <2> SUFFICES ASSUME NEW r \in Gamers, NEW v \in Gamers
               PROVE  <<v, v>> \notin task'[r].add
    BY DEF NobodyIsToldOfItself
  <2>1. CASE r = p
    <3>1. <<v, v>> \notin Meet!Told(p, s)
      BY <1>1, ToldPairs
    <3> QED
      BY <1>1, <2>1, <3>1
  <2>2. CASE r # p
    BY <1>1, <2>2 DEF EncountersInv, NobodyIsToldOfItself
  <2> QED
    BY <2>1, <2>2
<1> QED
  BY <1>1, <1>6, <1>7, <1>8, <1>9 DEF EncountersInv

-----------------------------------------------------------------------------
(* The other steps.                                                        *)

LEMMA PublishInv ==
    ASSUME EncountersInv, Meet!RoomsFitAssumption, NEW p \in Gamers,
           Meet!PublishRemovals(p) \/ Meet!PublishAdditions(p)
    PROVE  EncountersInv'
<1>1. UNCHANGED <<online, session, control, recent, spoilt>> /\ Meet!TypeOK
  BY DEF Meet!PublishRemovals, Meet!PublishAdditions, EncountersInv
<1>2. /\ task[p].drop \in SUBSET (Gamers \X Gamers)
      /\ task[p].add \in SUBSET (Gamers \X Gamers)
  BY <1>1 DEF Meet!TypeOK
<1>3. /\ task' \in [Gamers -> [drop : SUBSET (Gamers \X Gamers),
                                 add : SUBSET (Gamers \X Gamers)]]
      /\ \A q \in Gamers \ {p} : task'[q] = task[q]
      /\ Meet!PublishRemovals(p) => task'[p].drop = {} /\ task'[p].add = task[p].add
      /\ ~Meet!PublishRemovals(p) =>
                 task[p].drop = {} /\ task'[p].drop = {} /\ task'[p].add = {}
  <2>1. CASE Meet!PublishRemovals(p)
    <3> DEFINE j == [task[p] EXCEPT !.drop = {}]
    <3>1. j \in [drop : SUBSET (Gamers \X Gamers), add : SUBSET (Gamers \X Gamers)]
          /\ j.drop = {} /\ j.add = task[p].add
      BY <1>1 DEF Meet!TypeOK
    <3>2. task' = [task EXCEPT ![p] = j]
      BY <2>1 DEF Meet!PublishRemovals
    <3> HIDE DEF j
    <3> QED
      BY <1>1, <2>1, <3>1, <3>2 DEF Meet!TypeOK
  <2>2. CASE ~Meet!PublishRemovals(p)
    <3> DEFINE j == [task[p] EXCEPT !.add = {}]
    <3>1. j \in [drop : SUBSET (Gamers \X Gamers), add : SUBSET (Gamers \X Gamers)]
          /\ j.add = {} /\ j.drop = task[p].drop
      BY <1>1 DEF Meet!TypeOK
    <3>2. task' = [task EXCEPT ![p] = j] /\ task[p].drop = {}
      BY <2>2 DEF Meet!PublishAdditions
    <3> HIDE DEF j
    <3> QED
      BY <1>1, <2>2, <3>1, <3>2 DEF Meet!TypeOK
  <2> QED
    BY <2>1, <2>2
<1>4. \A v \in control :
         shown'[v] = IF Meet!PublishRemovals(p)
                     THEN shown[v] \ {q \in Gamers : <<v, q>> \in task[p].drop}
                     ELSE shown[v] \union {q \in Gamers : <<v, q>> \in task[p].add}
  BY <1>1 DEF Meet!PublishRemovals, Meet!PublishAdditions, Meet!TypeOK
<1>5. \A r \in Gamers : task'[r].drop \subseteq task[r].drop /\ task'[r].add \subseteq task[r].add
  BY <1>3
<1>6. shown' \in [Gamers -> SUBSET Gamers]
  <2>1. shown \in [Gamers -> SUBSET Gamers]
    BY <1>1 DEF Meet!TypeOK
  <2>2. CASE Meet!PublishRemovals(p)
    BY <2>1, <2>2 DEF Meet!PublishRemovals
  <2>3. CASE Meet!PublishAdditions(p)
    BY <2>1, <2>3 DEF Meet!PublishAdditions
  <2> QED
    BY <2>2, <2>3
<1>7. NobodyIsToldOfItself'
  BY <1>5 DEF EncountersInv, NobodyIsToldOfItself
<1>8. Meet!TypeOK'
  <2>1. \A v \in Gamers : v \notin shown'[v]
    <3> SUFFICES ASSUME NEW v \in Gamers
                 PROVE  v \notin shown'[v]
      OBVIOUS
    <3>1. v \notin shown[v] /\ <<v, v>> \notin task[p].add
      BY <1>1 DEF EncountersInv, NobodyIsToldOfItself, Meet!TypeOK
    <3>2. v \notin control => shown'[v] = shown[v]
      BY <1>1 DEF Meet!PublishRemovals, Meet!PublishAdditions, Meet!TypeOK
    <3> QED
      BY <1>4, <3>1, <3>2
  <2> QED
    BY <1>1, <1>3, <1>6, <2>1 DEF Meet!TypeOK
<1>9. OneThreadPublishes'
  <2>1. \A r \in Gamers : \A v : ToPublish(r, v)' \subseteq ToPublish(r, v)
    BY <1>5 DEF ToPublish
  <2> QED
    BY <1>1, <2>1 DEF EncountersInv, OneThreadPublishes
<1>10. Meet!RoommatesAreRemembered'
  BY <1>1 DEF EncountersInv, Meet!RoommatesAreRemembered, Meet!Roommates, Meet!Members,
     Meet!RecentRoster
<1>11. ListsFollow'
  <2> SUFFICES ASSUME NEW v \in control, v \notin Carbon, v \notin spoilt
               PROVE  (shown'[v] \ Dropped(v)') \union Added(v)' = Meet!Roommates(v)
    BY <1>1 DEF ListsFollow, Meet!Roommates, Meet!Members
  <2>1. v \in Gamers /\ (shown[v] \ Dropped(v)) \union Added(v) = Meet!Roommates(v)
    BY <1>1 DEF EncountersInv, ListsFollow, Meet!TypeOK
  <2>2. CASE Meet!PublishRemovals(p)
    <3>1. Added(v)' = Added(v)
      BY <1>3, <2>2 DEF Added
    <3>2. \A q \in Gamers : q \in Dropped(v) <=> q \in Dropped(v)' \/ <<v, q>> \in task[p].drop
      BY <1>3, <2>2 DEF Dropped
    <3>3. shown[v] \subseteq Gamers
      BY <1>1, <2>1 DEF Meet!TypeOK
    <3>4. shown'[v] = shown[v] \ {q \in Gamers : <<v, q>> \in task[p].drop}
      BY <1>4, <2>2
    <3>5. shown'[v] \ Dropped(v)' = shown[v] \ Dropped(v)
      BY <3>2, <3>3, <3>4 DEF Dropped
    <3> QED
      BY <2>1, <3>1, <3>5
  <2>3. CASE ~Meet!PublishRemovals(p)
    <3> DEFINE A == {q \in Gamers : <<v, q>> \in task[p].add}
    <3>1. Dropped(v)' = Dropped(v)
      BY <1>3, <2>3 DEF Dropped
    <3>2. Added(v) = Added(v)' \union A
      BY <1>3, <2>3 DEF Added
    \* Nobody else drops what this thread adds.
    <3>3. A \intersect Dropped(v) = {}
      <4> SUFFICES ASSUME NEW q \in Gamers, <<v, q>> \in task[p].add, NEW r \in Gamers,
                          <<v, q>> \in task[r].drop
                   PROVE  FALSE
        BY DEF Dropped
      <4>1. ToPublish(p, v) # {} /\ ToPublish(r, v) # {}
        BY DEF ToPublish
      <4>2. r = p
        BY <4>1 DEF EncountersInv, OneThreadPublishes
      <4> QED
        BY <1>3, <2>3, <4>2
    <3>4. shown'[v] = shown[v] \union A
      BY <1>4, <2>3
    <3> HIDE DEF A
    <3> QED
      BY <2>1, <3>1, <3>2, <3>3, <3>4
  <2> QED
    BY <2>2, <2>3
<1> QED
  BY <1>7, <1>8, <1>9, <1>10, <1>11 DEF EncountersInv

\* The game of p asks for its roster, or is gone.
LEMMA ControlInv ==
    ASSUME EncountersInv, Meet!RoomsFitAssumption, NEW p \in Gamers,
           Meet!ControlOpens(p) \/ Meet!ControlCloses(p)
    PROVE  EncountersInv'
<1>1. UNCHANGED <<online, session, task, recent>> /\ Meet!TypeOK
  BY DEF Meet!ControlOpens, Meet!ControlCloses, EncountersInv
<1>2. /\ control' \subseteq control \union {p}
      /\ p \in control' => Meet!ControlOpens(p) /\ shown'[p] = Meet!Roster(p)
                                 /\ (Meet!Pending(p) => p \in spoilt')
      /\ \A q \in Gamers \ {p} : shown'[q] = shown[q] /\ (q \in spoilt' <=> q \in spoilt)
      /\ spoilt' \subseteq Gamers
  BY <1>1 DEF Meet!ControlOpens, Meet!ControlCloses, Meet!TypeOK
<1>3. Meet!Roster(p) \subseteq Gamers /\ p \notin Meet!Roster(p)
  BY <1>1 DEF Meet!Roster, Meet!RecentRoster, Meet!Roommates, Meet!Members, Meet!TypeOK
<1>4. shown' \in [Gamers -> SUBSET Gamers] /\ p \notin shown'[p]
  <2>1. shown \in [Gamers -> SUBSET Gamers]
    BY <1>1 DEF Meet!TypeOK
  <2>2. \E l \in SUBSET Gamers : shown' = [shown EXCEPT ![p] = l] /\ p \notin l
    BY <1>3 DEF Meet!ControlOpens, Meet!ControlCloses
  <2> QED
    BY <2>1, <2>2
<1>5. Meet!TypeOK'
  BY <1>1, <1>2, <1>4 DEF Meet!TypeOK
<1>6. ASSUME p \in control', p \notin spoilt'
      PROVE  \A r, q \in Gamers : <<p, q>> \notin task[r].drop /\ <<p, q>> \notin task[r].add
  BY <1>2, <1>6 DEF Meet!Pending
<1>7. OneThreadPublishes'
  <2> SUFFICES ASSUME NEW v \in control', v \notin spoilt', NEW r1 \in Gamers, NEW r2 \in Gamers,
                      ToPublish(r1, v) # {}, ToPublish(r2, v) # {}
               PROVE  r1 = r2
    BY <1>1 DEF OneThreadPublishes, ToPublish
  <2>1. CASE v = p
    <3>1. \A r \in Gamers : task[r].drop \union task[r].add \subseteq (Gamers \X Gamers)
      BY <1>1 DEF Meet!TypeOK
    <3> QED
      BY <1>6, <2>1, <3>1 DEF ToPublish
  <2>2. CASE v # p
    BY <1>1, <1>2, <2>2 DEF EncountersInv, OneThreadPublishes, Meet!TypeOK
  <2> QED
    BY <2>1, <2>2
<1>8. ListsFollow'
  <2> SUFFICES ASSUME NEW v \in control', v \notin Carbon, v \notin spoilt'
               PROVE  (shown'[v] \ Dropped(v)) \union Added(v) = Meet!Roommates(v)
    BY <1>1 DEF ListsFollow, Dropped, Added, Meet!Roommates, Meet!Members
  <2>1. CASE v = p
    <3>1. Dropped(v) = {} /\ Added(v) = {}
      BY <1>6, <2>1 DEF Dropped, Added
    <3>2. Meet!Roster(p) = Meet!Roommates(p)
      <4>1. \A q \in Gamers : session[q] # None => q \in online
        BY <1>1 DEF Meet!TypeOK
      <4> QED
        BY <2>1, <4>1 DEF Meet!Roster, Meet!Roommates, Meet!Members
    <3> QED
      BY <1>2, <2>1, <3>1, <3>2
  <2>2. CASE v # p
    BY <1>1, <1>2, <2>2 DEF EncountersInv, ListsFollow, Meet!TypeOK
  <2> QED
    BY <2>1, <2>2
<1>9. Meet!RoommatesAreRemembered' /\ NobodyIsToldOfItself'
  BY <1>1 DEF EncountersInv, Meet!RoommatesAreRemembered, NobodyIsToldOfItself, Meet!Roommates,
     Meet!Members,
     Meet!RecentRoster
<1> QED
  BY <1>5, <1>7, <1>8, <1>9 DEF EncountersInv

\* Only who is in the lobby changes.
LEMMA NothingMoves ==
    ASSUME EncountersInv, UNCHANGED <<session, control, shown, task, recent, spoilt>>,
           online' \subseteq Gamers,
           \A q \in Gamers : session[q] # None => q \in online'
    PROVE  EncountersInv'
<1>1. Meet!TypeOK'
  BY DEF EncountersInv, Meet!TypeOK
<1>2. NobodyIsToldOfItself' /\ OneThreadPublishes'
  BY DEF EncountersInv, NobodyIsToldOfItself, OneThreadPublishes, ToPublish
<1>3. ListsFollow' /\ Meet!RoommatesAreRemembered'
  BY DEF EncountersInv, ListsFollow, Dropped, Added, Meet!RoommatesAreRemembered,
         Meet!RecentRoster,
     Meet!Roommates, Meet!Members
<1> QED
  BY <1>1, <1>2, <1>3 DEF EncountersInv

LEMMA LobbyInv ==
    ASSUME EncountersInv, NEW p \in Gamers, Meet!RegisterLobby(p) \/ Meet!UnregisterLobby(p)
    PROVE  EncountersInv'
<1>1. UNCHANGED <<session, control, shown, task, recent, spoilt>>
  BY DEF Meet!RegisterLobby, Meet!UnregisterLobby
<1>2. /\ online' \subseteq Gamers
      /\ \A q \in Gamers : session[q] # None => q \in online'
  BY DEF Meet!RegisterLobby, Meet!UnregisterLobby, EncountersInv, Meet!TypeOK
<1> QED
  BY <1>1, <1>2, NothingMoves

LEMMA EncountersInvariant ==
    ASSUME Meet!RoomsFitAssumption
    PROVE  Meet!Spec => []EncountersInv
<1>1. Meet!Init => EncountersInv
  <2> SUFFICES ASSUME Meet!Init
               PROVE  EncountersInv
    OBVIOUS
  <2>1. Meet!TypeOK
    BY DEF Meet!Init, Meet!TypeOK, Meet!Quiet, Meet!RoomsFitAssumption
  <2>2. NobodyIsToldOfItself /\ OneThreadPublishes /\ ListsFollow
    BY DEF Meet!Init, NobodyIsToldOfItself, OneThreadPublishes, ListsFollow, Meet!Quiet
  <2>3. Meet!RoommatesAreRemembered
    BY DEF Meet!Init, Meet!RoommatesAreRemembered, Meet!Roommates, Meet!Members,
           Meet!RoomsFitAssumption
  <2> QED
    BY <2>1, <2>2, <2>3 DEF EncountersInv
<1>2. EncountersInv /\ [Meet!Next]_Meet!vars => EncountersInv'
  <2> SUFFICES ASSUME EncountersInv, [Meet!Next]_Meet!vars
               PROVE  EncountersInv'
    OBVIOUS
  <2>1. CASE UNCHANGED Meet!vars
    <3>1. UNCHANGED <<online, session, control, shown, task, recent, spoilt>>
      BY <2>1 DEF Meet!vars
    <3> QED
      BY <3>1, NothingMoves DEF EncountersInv, Meet!TypeOK
  <2>2. ASSUME NEW p \in Gamers, \E s \in Sessions \union {None} : Meet!Moves(p, s)
        PROVE  EncountersInv'
    BY <2>2, MovesInv
  <2>3. ASSUME NEW p \in Gamers,
               \/ Meet!RegisterLobby(p) \/ Meet!PublishRemovals(p) \/ Meet!PublishAdditions(p)
               \/ Meet!ControlOpens(p) \/ Meet!ControlCloses(p) \/ Meet!UnregisterLobby(p)
        PROVE  EncountersInv'
    BY <2>3, PublishInv, ControlInv, LobbyInv
  <2> QED
    BY <2>1, <2>2, <2>3 DEF Meet!Next
<1> QED
  BY <1>1, <1>2, PTL DEF Meet!Spec

\* The lists of the players, for any number of personas, rooms and games.
THEOREM RoomsStayRemembered ==
    ASSUME Meet!RoomsFitAssumption
    PROVE  Meet!Spec => [](Meet!TypeOK /\ Meet!RoomsAreRemembered)
<1>1. EncountersInv => Meet!TypeOK /\ Meet!RoomsAreRemembered
  <2> SUFFICES ASSUME EncountersInv, NEW p \in control \ Carbon, p \notin spoilt,
                      \A q \in Gamers : Meet!Idle(q)
               PROVE  shown[p] = Meet!Roommates(p)
    BY DEF EncountersInv, Meet!RoomsAreRemembered, Meet!PlayerListsAreCurrent
  <2>1. Dropped(p) = {} /\ Added(p) = {}
    BY DEF Dropped, Added, Meet!Idle, Meet!Quiet
  <2> QED
    BY <2>1 DEF EncountersInv, ListsFollow
<1> QED
  BY <1>1, EncountersInvariant, PTL

-----------------------------------------------------------------------------
(* The Messenger connections of Carbon clients.                            *)

CONSTANTS Conns, Tokens, Speakers, PersonaOf

VARIABLES ipc, room, conn, errand, listed, channel, shared, public, armed, revoked, seen, trail

Messenger == INSTANCE CarbonMessenger WITH
    Personas <- Speakers, job <- errand, past <- trail, control <- channel

ConnPhases == {"off", "open", "waiting", "auth", "closing", "quiesced", "gone"}
Shows == {"CHAT", "DISC"}

IpcRecord == [usable : BOOLEAN, token : [Tokens -> {"none", "live", "forced", "ready"}]]
ConnRecord == [phase : ConnPhases, token : Tokens \union {None}, forced : BOOLEAN,
               stage : {"none", "endpoint", "pset", "counting", "notified"},
               show : Shows, ready : BOOLEAN, muted : SUBSET Speakers]
ErrandRecord == [kind : {"none", "push", "reply", "deferred", "pop"},
                 about : Speakers \union {None}, sees : Messenger!Sees,
                 to : SUBSET (Conns \union Speakers)]
TrailRecord == [released : [Speakers -> Nat], wrote : [Speakers -> Conns \union {None}],
                overlap : SUBSET Speakers, crossed : SUBSET (Conns \X Speakers)]

\* A job concerns a persona; a push goes to connections, and what is about to be
\* released belongs to a host.
SoundJob(j) ==
    /\ j.kind # "none" => j.about \in Speakers
    /\ j.kind = "push" => j.to # {} /\ j.to \subseteq Conns
    /\ j.kind = "pop" => j.to \subseteq Speakers

MessengerTyped ==
    /\ ipc \in IpcRecord
    /\ room \in [Speakers -> {"out", "in", "joined"}]
    /\ conn \in [Conns -> ConnRecord]
    /\ errand \in [Conns -> ErrandRecord]
    /\ \A c \in Conns : SoundJob(errand[c])
    /\ listed \in SUBSET Conns /\ channel \in SUBSET listed
    /\ shared \in [Speakers -> {"CHAT", "DISC", "AWAY"}]
    /\ public \in [Speakers -> Conns \union {None}]
    /\ armed \in [Speakers -> Speakers \union {None}] /\ revoked \in SUBSET Speakers
    /\ seen \in [Conns -> [Speakers -> Messenger!Sees]]
    /\ trail \in TrailRecord

\* Before a connection is authenticated.
Early == {"off", "open", "waiting"}

Registered(k) ==
    k.phase \in {"auth", "closing", "quiesced"} /\ ~k.forced /\ k.token # None

\* What the phase of a connection says of its token.
SoundConn(k) ==
    /\ k.phase \in {"off", "open"} => k.token = None
    /\ k.phase \in {"waiting", "auth", "quiesced"} => k.token # None
    /\ k.phase \in Early \union {"gone"} => ~k.forced

Phases ==
    \A c \in Conns :
        /\ SoundConn(conn[c])
        /\ c \in listed <=> Registered(conn[c])

\* What is held back belongs to an acceptance that has not been released.
Invited ==
    \A p \in Speakers :
        /\ p \in revoked => armed[p] # None
        /\ armed[p] # None => Messenger!ListedOf(p) # {} /\ trail.released[p] = 0
        /\ trail.released[p] \in {0, 1}

\* A public row belongs to a listed connection of its persona, and to the last one
\* that wrote it as long as that is listed.
Owned ==
    \A p \in Speakers :
        /\ public[p] # None => public[p] \in Messenger!ListedOf(p)
        /\ trail.wrote[p] # None => conn[trail.wrote[p]].phase \notin Early
        /\ trail.wrote[p] \in listed => public[p] = trail.wrote[p]

MessengerInv == MessengerTyped /\ Phases /\ Invited /\ Owned

-----------------------------------------------------------------------------
(* Every step keeps the invariant.                                         *)

\* Tokens of listed connections are tokens, so they have a persona.
LEMMA WhoIsAPersona ==
    ASSUME Messenger!PersonaOfAssumption, MessengerInv, NEW c \in Conns, conn[c].token # None
    PROVE  Messenger!Who(c) \in Speakers
BY DEF Messenger!PersonaOfAssumption, MessengerInv, MessengerTyped, ConnRecord, Messenger!Who

\* A step that registers nobody and ends nothing: listed connections stay with
\* their tokens, and none becomes a fresh one again.
LEMMA NobodyComesOrGoes ==
    ASSUME MessengerInv, UNCHANGED <<listed, public, armed, revoked>>,
           trail'.released = trail.released, trail'.wrote = trail.wrote,
           \A c \in Conns : /\ c \in listed => conn'[c].token = conn[c].token
                            /\ conn[c].phase \notin Early => conn'[c].phase \notin Early
    PROVE  Invited' /\ Owned'
<1>1. \A p \in Speakers : Messenger!ListedOf(p)' = Messenger!ListedOf(p)
  <2> SUFFICES ASSUME NEW p \in Speakers
               PROVE  {c \in listed : PersonaOf[conn'[c].token] = p}
                      = {c \in listed : PersonaOf[conn[c].token] = p}
    BY DEF Messenger!ListedOf, Messenger!Who
  <2> QED
    BY DEF MessengerInv, MessengerTyped
<1>2. Invited'
  BY <1>1 DEF MessengerInv, Invited
<1>3. Owned'
  BY <1>1 DEF MessengerInv, Owned, MessengerTyped, TrailRecord
<1> QED
  BY <1>2, <1>3

LEMMA OutsideSteps ==
    ASSUME MessengerInv,
           \/ \E t \in Tokens : Messenger!TokenShown(t)
           \/ Messenger!UsableChanges
           \/ \E p \in Speakers : Messenger!RoomChanges(p)
    PROVE  MessengerInv'
<1>1. UNCHANGED <<conn, errand, listed, channel, shared, public, armed, revoked, seen, trail>>
  BY DEF Messenger!TokenShown, Messenger!UsableChanges, Messenger!RoomChanges, Messenger!service
<1>2. ipc' \in IpcRecord /\ room' \in [Speakers -> {"out", "in", "joined"}]
  <2>1. ipc \in IpcRecord /\ room \in [Speakers -> {"out", "in", "joined"}]
    BY DEF MessengerInv, MessengerTyped
  <2>2. ASSUME NEW t \in Tokens, Messenger!TokenShown(t)
        PROVE  ipc' \in IpcRecord /\ room' = room
    <3>1. \E s \in {"live", "forced", "ready"} :
             ipc' = [ipc EXCEPT !.token = [ipc.token EXCEPT ![t] = s]]
      BY <2>2, <2>1 DEF Messenger!TokenShown, IpcRecord
    <3> QED
      BY <2>1, <2>2, <3>1 DEF Messenger!TokenShown, IpcRecord
  <2>3. CASE Messenger!UsableChanges
    BY <2>1, <2>3 DEF Messenger!UsableChanges, IpcRecord
  <2>4. ASSUME NEW p \in Speakers, Messenger!RoomChanges(p)
        PROVE  ipc' = ipc /\ room' \in [Speakers -> {"out", "in", "joined"}]
    BY <2>1, <2>4 DEF Messenger!RoomChanges
  <2> QED
    BY <2>1, <2>2, <2>3, <2>4
<1>3. MessengerTyped' /\ Phases'
  BY <1>1, <1>2 DEF MessengerInv, MessengerTyped, Phases
<1> QED
  BY <1>1, <1>3, NobodyComesOrGoes DEF MessengerInv

\* A step that changes one connection, and perhaps what its thread has to do and
\* what was sent to it, and leaves the service alone.
LEMMA OneConnectionMoves ==
    ASSUME MessengerInv, NEW c \in Conns, NEW k \in ConnRecord, NEW j \in ErrandRecord,
           conn' = [conn EXCEPT ![c] = k], errand' = [errand EXCEPT ![c] = j],
           SoundConn(k), SoundJob(j),
           Registered(k) <=> Registered(conn[c]),
           c \in listed => k.token = conn[c].token,
           conn[c].phase \notin Early => k.phase \notin Early,
           seen' \in [Conns -> [Speakers -> Messenger!Sees]], UNCHANGED <<ipc, room, Messenger!service, trail>>
    PROVE  MessengerInv'
<1>1. /\ conn'[c] = k /\ \A d \in Conns : d # c => conn'[d] = conn[d]
      /\ conn' \in [Conns -> ConnRecord]
  BY DEF MessengerInv, MessengerTyped
<1>2. /\ errand'[c] = j /\ \A d \in Conns : d # c => errand'[d] = errand[d]
      /\ errand' \in [Conns -> ErrandRecord]
  BY DEF MessengerInv, MessengerTyped
<1>3. UNCHANGED <<listed, channel, shared, public, armed, revoked>>
  BY DEF Messenger!service
<1>4. MessengerTyped'
  BY <1>1, <1>2, <1>3 DEF MessengerInv, MessengerTyped
<1>5. Phases'
  BY <1>1, <1>3 DEF MessengerInv, Phases
<1>6. Invited' /\ Owned'
  BY <1>1, <1>3, NobodyComesOrGoes
<1> QED
  BY <1>4, <1>5, <1>6 DEF MessengerInv

\* The forced logoff, its grace, DISC and the policy's quiescing.
LEMMA MovingSteps ==
    ASSUME Messenger!PersonaOfAssumption, MessengerInv, NEW c \in Conns,
           \/ Messenger!Bootstraps(c) \/ Messenger!PollDuplicate(c) \/ Messenger!PollDisplaced(c) \/ Messenger!PollClose(c)
           \/ Messenger!Disc(c) \/ Messenger!PolicyClose(c)
    PROVE  MessengerInv'
<1> DEFINE k == conn'[c]
<1>1. /\ conn[c] \in ConnRecord /\ SoundConn(conn[c]) /\ conn \in [Conns -> ConnRecord]
      /\ errand[c] \in ErrandRecord /\ errand \in [Conns -> ErrandRecord] /\ SoundJob(errand[c])
      /\ c \in listed <=> Registered(conn[c])
  BY DEF MessengerInv, MessengerTyped, Phases
<1>2. UNCHANGED <<ipc, room, errand, Messenger!service, seen, trail>>
  BY DEF Messenger!Bootstraps, Messenger!PollDuplicate, Messenger!PollDisplaced,
         Messenger!PollClose, Messenger!Disc, Messenger!PolicyClose
<1>3. /\ k \in ConnRecord /\ conn' = [conn EXCEPT ![c] = k]
      /\ k.forced = conn[c].forced
      /\ \/ conn[c].phase \in {"auth", "waiting", "open"} /\ k.phase = "closing"
            /\ k.token = IF conn[c].phase = "auth" THEN conn[c].token ELSE None
         \/ conn[c].phase = "auth" /\ k.phase \in {"auth", "closing", "quiesced"}
            /\ k.token = conn[c].token
  <2>1. CASE Messenger!Bootstraps(c) \/ Messenger!PollDuplicate(c) \/ Messenger!PollDisplaced(c)
    BY <1>1, <2>1 DEF Messenger!Bootstraps, Messenger!PollDuplicate, Messenger!PollDisplaced,
       Messenger!Reads, Messenger!Serves, ConnRecord
  <2>2. CASE Messenger!PollClose(c) \/ Messenger!PolicyClose(c)
    BY <1>1, <2>2 DEF Messenger!PollClose, Messenger!PolicyClose, Messenger!Reads, ConnRecord,
       ConnPhases
  <2>3. CASE Messenger!Disc(c)
    BY <1>1, <2>3 DEF Messenger!Disc, Messenger!Reads, ConnRecord, ConnPhases
  <2> QED
    BY <2>1, <2>2, <2>3
<1> HIDE DEF k
<1>4. /\ SoundConn(k) /\ (Registered(k) <=> Registered(conn[c]))
      /\ c \in listed => k.token = conn[c].token
      /\ conn[c].phase \notin Early => k.phase \notin Early
  BY <1>1, <1>3 DEF SoundConn, Registered, Early
<1>5. errand' = [errand EXCEPT ![c] = errand[c]] /\ seen' \in [Conns -> [Speakers -> Messenger!Sees]]
  BY <1>1, <1>2 DEF MessengerInv, MessengerTyped
<1> QED
  BY <1>1, <1>2, <1>3, <1>4, <1>5, OneConnectionMoves

\* What a step sends is "on", "off" or "unknown".
LEMMA WhatIsShown ==
    ASSUME NEW p
    PROVE  Messenger!Shown(p) \in Messenger!Sees /\ Messenger!Shown(p)' \in Messenger!Sees
BY DEF Messenger!Shown, Messenger!Sees

LEMMA ViewersAreConns ==
    ASSUME MessengerInv, NEW p
    PROVE  Messenger!Viewers(p) \in SUBSET Conns
BY DEF MessengerInv, MessengerTyped, Messenger!Viewers

LEMMA NotifyingJob ==
    ASSUME NEW c \in Conns, NEW p \in Speakers, NEW sees \in Messenger!Sees,
           NEW to \in SUBSET Conns, errand \in [Conns -> ErrandRecord]
    PROVE  \E j \in ErrandRecord : SoundJob(j) /\ Messenger!Notifies(c, p, sees, to) = [errand EXCEPT ![c] = j]
<1> DEFINE push == [kind |-> "push", about |-> p, sees |-> sees, to |-> to]
<1>1. Messenger!Idle \in ErrandRecord /\ SoundJob(Messenger!Idle)
  BY DEF Messenger!Idle, ErrandRecord, SoundJob, Messenger!Sees
<1>2. CASE to = {}
  BY <1>1, <1>2 DEF Messenger!Notifies
<1>3. CASE to # {}
  <2>1. push \in ErrandRecord /\ SoundJob(push)
    BY <1>3 DEF ErrandRecord, SoundJob
  <2> QED
    BY <1>3, <2>1 DEF Messenger!Notifies
<1> QED
  BY <1>2, <1>3

LEMMA AuthSteps ==
    ASSUME Messenger!PersonaOfAssumption, MessengerInv, NEW c \in Conns,
           Messenger!PollPendingAuth(c) \/ \E t \in Tokens : Messenger!Auth(c, t)
    PROVE  MessengerInv'
<1>1. /\ conn[c] \in ConnRecord /\ SoundConn(conn[c]) /\ conn \in [Conns -> ConnRecord]
      /\ errand[c] \in ErrandRecord /\ errand \in [Conns -> ErrandRecord] /\ SoundJob(errand[c])
      /\ c \in listed <=> Registered(conn[c])
  BY DEF MessengerInv, MessengerTyped, Phases
<1>2. conn[c].phase \in Early /\ UNCHANGED <<ipc, room, errand, seen>>
  BY DEF Messenger!Auth, Messenger!PollPendingAuth, Early
<1>3. c \notin listed /\ ~conn[c].forced
  BY <1>1, <1>2 DEF Registered, SoundConn, Early
<1>4. PICK t \in Tokens :
         \/ Messenger!BeginForcedLogoff(c, t)
         \/ Messenger!Register(c, t)
         \/ /\ \/ conn' = [conn EXCEPT ![c].phase = "waiting", ![c].token = t]
               \/ conn' = [conn EXCEPT ![c].phase = "open", ![c].token = None]
            /\ UNCHANGED <<Messenger!service, trail>>
  <2>1. CASE Messenger!PollPendingAuth(c)
    <3>1. conn[c].token \in Tokens
      BY <1>1, <2>1 DEF Messenger!PollPendingAuth, SoundConn, ConnRecord
    <3> QED
      BY <2>1, <3>1 DEF Messenger!PollPendingAuth
  <2>2. CASE \E t \in Tokens : Messenger!Auth(c, t)
    BY <2>2 DEF Messenger!Auth
  <2> QED
    BY <2>1, <2>2
<1>5. t # None
  BY DEF Messenger!PersonaOfAssumption
<1>6. CASE ~Messenger!Register(c, t)
  <2> DEFINE k == conn'[c]
  <2>1. /\ k \in ConnRecord /\ conn' = [conn EXCEPT ![c] = k] /\ UNCHANGED <<Messenger!service, trail>>
        /\ \/ k.phase = "auth" /\ k.forced /\ k.token = t
           \/ k.phase = "waiting" /\ ~k.forced /\ k.token = t
           \/ k.phase = "open" /\ ~k.forced /\ k.token = None
    BY <1>1, <1>3, <1>4, <1>6 DEF Messenger!BeginForcedLogoff, ConnRecord, ConnPhases
  <2> HIDE DEF k
  <2>2. SoundConn(k) /\ ~Registered(k)
    BY <2>1, <1>5 DEF SoundConn, Registered, Early
  <2>3. errand' = [errand EXCEPT ![c] = errand[c]] /\ seen' \in [Conns -> [Speakers -> Messenger!Sees]]
    BY <1>1, <1>2 DEF MessengerInv, MessengerTyped
  <2>4. /\ Registered(k) <=> Registered(conn[c])
        /\ c \in listed => k.token = conn[c].token
        /\ conn[c].phase \notin Early => k.phase \notin Early
    BY <2>2, <1>1, <1>2, <1>3
  <2> QED
    BY <1>1, <1>2, <2>1, <2>2, <2>3, <2>4, OneConnectionMoves
<1>7. CASE Messenger!Register(c, t)
  <2> DEFINE p == PersonaOf[t]
  <2>1. p \in Speakers
    BY DEF Messenger!PersonaOfAssumption
  <2>2. /\ conn' = [conn EXCEPT ![c].phase = "auth", ![c].token = t]
        /\ listed' = listed \union {c}
        /\ channel' = Messenger!ControlRegistered(c, p)
        /\ shared' = [shared EXCEPT ![p] = conn[c].show]
        /\ public' = [public EXCEPT ![p] = c]
        /\ UNCHANGED <<armed, revoked>>
    BY <1>7 DEF Messenger!Register
  <2>3. /\ trail' \in TrailRecord /\ trail'.released = trail.released
        /\ trail'.wrote = [trail.wrote EXCEPT ![p] = c]
    <3> DEFINE overlap == IF \/ Messenger!ListedOf(p) # {}
                             \/ \E d \in Conns : errand[d].kind = "push" /\ errand[d].about = p
                          THEN trail.overlap \union {p} ELSE trail.overlap
    <3>1. trail' = [trail EXCEPT !.wrote[p] = c, !.overlap = overlap]
      BY <1>7 DEF Messenger!Register
    <3>2. trail \in TrailRecord
      BY DEF MessengerInv, MessengerTyped
    <3>3. overlap \in SUBSET Speakers
      BY <2>1, <3>2 DEF TrailRecord
    <3> HIDE DEF overlap, p
    <3> QED
      BY <2>1, <3>1, <3>2, <3>3 DEF TrailRecord
  <2> HIDE DEF p
  <2>4. /\ conn'[c] \in ConnRecord /\ conn' \in [Conns -> ConnRecord]
        /\ \A d \in Conns : d # c => conn'[d] = conn[d]
        /\ conn'[c].phase = "auth" /\ ~conn'[c].forced /\ conn'[c].token = t
        /\ conn'[c].show = conn[c].show
    BY <1>1, <1>3, <2>2 DEF ConnRecord, ConnPhases
  <2>5. MessengerTyped'
    <3>1. shared' \in [Speakers -> {"CHAT", "DISC", "AWAY"}]
      BY <1>1, <2>1, <2>2 DEF MessengerInv, MessengerTyped, ConnRecord, Shows
    <3>2. listed' \in SUBSET Conns /\ channel' \in SUBSET listed'
      BY <2>2 DEF MessengerInv, MessengerTyped, Messenger!ControlRegistered
    <3>3. public' \in [Speakers -> Conns \union {None}]
      BY <2>1, <2>2 DEF MessengerInv, MessengerTyped
    <3> QED
      BY <3>1, <3>2, <3>3, <1>2, <2>2, <2>3, <2>4 DEF MessengerInv, MessengerTyped
  <2>6. Phases'
    <3>1. SoundConn(conn'[c]) /\ Registered(conn'[c])
      BY <2>4, <1>5 DEF SoundConn, Registered, Early
    <3> QED
      BY <3>1, <2>2, <2>4 DEF MessengerInv, Phases
  <2>7. /\ \A q \in Speakers : Messenger!ListedOf(q) \subseteq Messenger!ListedOf(q)'
        /\ c \in Messenger!ListedOf(p)'
    BY <1>3, <2>2, <2>4 DEF Messenger!ListedOf, Messenger!Who, MessengerInv, MessengerTyped, p
  <2>8. Invited'
    BY <2>2, <2>3, <2>7 DEF MessengerInv, Invited
  <2>9. Owned'
    <3>1. trail.wrote \in [Speakers -> Conns \union {None}] /\ c # None
      BY DEF MessengerInv, MessengerTyped, TrailRecord, Messenger!PersonaOfAssumption
    <3> SUFFICES ASSUME NEW q \in Speakers
                 PROVE  /\ public'[q] # None => public'[q] \in Messenger!ListedOf(q)'
                        /\ trail'.wrote[q] # None => conn'[trail'.wrote[q]].phase \notin Early
                        /\ trail'.wrote[q] \in listed' => public'[q] = trail'.wrote[q]
      BY DEF Owned
    <3>2. CASE q = p
      BY <3>1, <3>2, <2>1, <2>2, <2>3, <2>4, <2>7 DEF Early, MessengerInv, MessengerTyped
    <3>3. CASE q # p
      <4>1. public'[q] = public[q] /\ trail'.wrote[q] = trail.wrote[q]
        BY <3>1, <3>3, <2>1, <2>2, <2>3 DEF MessengerInv, MessengerTyped
      <4>2. /\ public[q] # None => public[q] \in Messenger!ListedOf(q)
            /\ trail.wrote[q] # None => conn[trail.wrote[q]].phase \notin Early
            /\ trail.wrote[q] \in listed => public[q] = trail.wrote[q]
        BY DEF MessengerInv, Owned
      <4>3. trail.wrote[q] # c
        BY <4>2, <3>1, <1>2
      <4> QED
        BY <4>1, <4>2, <4>3, <3>1, <2>2, <2>4, <2>7
    <3> QED
      BY <3>2, <3>3
  <2> QED
    BY <2>5, <2>6, <2>8, <2>9 DEF MessengerInv
<1> QED
  BY <1>6, <1>7

\* A thread that goes on with what it is doing: only its job, or what was sent.
LEMMA JobSteps ==
    ASSUME Messenger!PersonaOfAssumption, MessengerInv, NEW c \in Conns,
           \/ \E v \in Conns : Messenger!Deliver(c, v)
           \/ Messenger!Replied(c) \/ Messenger!AfterSend(c) \/ Messenger!PollInvite(c)
           \/ \E p \in Speakers : Messenger!PresenceAdd(c, p) \/ Messenger!PresenceDelete(c, p)
    PROVE  MessengerInv'
<1>1. /\ conn[c] \in ConnRecord /\ SoundConn(conn[c]) /\ conn \in [Conns -> ConnRecord]
      /\ errand[c] \in ErrandRecord /\ errand \in [Conns -> ErrandRecord] /\ SoundJob(errand[c])
      /\ seen \in [Conns -> [Speakers -> Messenger!Sees]]
      /\ armed \in [Speakers -> Speakers \union {None}]
  BY DEF MessengerInv, MessengerTyped, Phases
<1>2. Messenger!Idle \in ErrandRecord /\ SoundJob(Messenger!Idle)
  BY DEF Messenger!Idle, ErrandRecord, SoundJob, Messenger!Sees
<1>3. conn = [conn EXCEPT ![c] = conn[c]] /\ errand = [errand EXCEPT ![c] = errand[c]]
  BY <1>1
<1>4. CASE \E v \in Conns : Messenger!Deliver(c, v)
  <2> DEFINE j == errand'[c]
  <2>1. PICK v \in Conns : Messenger!Deliver(c, v)
    BY <1>4
  <2>2. /\ errand[c].about \in Speakers /\ errand[c].sees \in Messenger!Sees /\ errand[c].kind = "push"
        /\ v \in errand[c].to /\ errand[c].to \subseteq Conns
    BY <1>1, <2>1 DEF Messenger!Deliver, SoundJob, ErrandRecord
  <2>3. seen' \in [Conns -> [Speakers -> Messenger!Sees]]
    <3>1. Messenger!Sent(v, errand[c].about, errand[c].sees) \in Messenger!Sees
      BY <1>1, <2>2 DEF Messenger!Sent, Messenger!Sees
    <3>2. seen' = [seen EXCEPT ![v][errand[c].about] = Messenger!Sent(v, errand[c].about, errand[c].sees)]
      BY <2>1 DEF Messenger!Deliver
    <3> QED
      BY <1>1, <2>2, <3>1, <3>2
  <2>4. /\ j \in ErrandRecord /\ SoundJob(j) /\ errand' = [errand EXCEPT ![c] = j]
    <3> DEFINE rest == [errand[c] EXCEPT !.to = @ \ {v}]
    <3>1. errand' = [errand EXCEPT ![c] = IF errand[c].to = {v} THEN Messenger!Idle ELSE rest]
      BY <2>1 DEF Messenger!Deliver
    <3>2. rest \in ErrandRecord /\ (errand[c].to # {v} => SoundJob(rest))
      <4>1. errand[c].to \ {v} \in SUBSET (Conns \union Speakers)
        BY <2>2
      <4>2. /\ rest \in ErrandRecord /\ rest.kind = "push" /\ rest.about = errand[c].about
            /\ rest.to = errand[c].to \ {v}
        BY <1>1, <2>2, <4>1 DEF ErrandRecord
      <4> HIDE DEF rest
      <4> QED
        BY <2>2, <4>2 DEF SoundJob
    <3> HIDE DEF rest
    <3> QED
      BY <1>1, <1>2, <3>1, <3>2
  <2>5. trail' \in TrailRecord /\ trail'.released = trail.released /\ trail'.wrote = trail.wrote
    <3>1. trail \in TrailRecord
      BY DEF MessengerInv, MessengerTyped
    <3>2. PICK crossed \in SUBSET (Conns \X Speakers) :
             trail' = [trail EXCEPT !.crossed = crossed]
      <4>1. trail.crossed \in SUBSET (Conns \X Speakers)
        BY <3>1 DEF TrailRecord
      <4>2. trail.crossed \union {<<v, errand[c].about>>} \in SUBSET (Conns \X Speakers)
        BY <4>1, <2>2
      <4> QED
        BY <4>1, <4>2, <2>1 DEF Messenger!Deliver
    <3> QED
      BY <3>1, <3>2 DEF TrailRecord
  <2>6. UNCHANGED <<ipc, room, conn, listed, channel, shared, public, armed, revoked>>
    BY <2>1 DEF Messenger!Deliver, Messenger!service
  <2> HIDE DEF j
  <2>7. MessengerTyped'
    <3>1. errand' \in [Conns -> ErrandRecord] /\ \A d \in Conns : SoundJob(errand'[d])
      BY <2>4, <1>1 DEF MessengerInv, MessengerTyped
    <3> QED
      BY <2>3, <2>5, <2>6, <3>1 DEF MessengerInv, MessengerTyped
  <2>8. Phases' /\ Invited' /\ Owned'
    BY <2>5, <2>6, NobodyComesOrGoes DEF MessengerInv, Phases
  <2> QED
    BY <2>7, <2>8 DEF MessengerInv
<1>5. CASE Messenger!Replied(c)
  <2>1. errand' = [errand EXCEPT ![c] = Messenger!Idle] /\ UNCHANGED <<ipc, room, conn, Messenger!service, trail>>
    BY <1>5 DEF Messenger!Replied
  <2>2. seen' \in [Conns -> [Speakers -> Messenger!Sees]]
    BY <1>1, <1>5 DEF Messenger!Replied, SoundJob, ErrandRecord
  <2> QED
    BY <1>1, <1>2, <1>3, <2>1, <2>2, OneConnectionMoves
<1>6. CASE Messenger!AfterSend(c) \/ Messenger!PollInvite(c)
  <2> DEFINE pop(g) == [kind |-> "pop", about |-> g, sees |-> "unknown", to |-> {armed[g]}]
  <2>1. \A g \in Speakers : Messenger!Ready(g) => pop(g) \in ErrandRecord /\ SoundJob(pop(g))
    BY <1>1 DEF Messenger!Ready, ErrandRecord, SoundJob, Messenger!Sees
  <2>2. PICK j \in ErrandRecord : SoundJob(j) /\ errand' = [errand EXCEPT ![c] = j]
    <3>1. CASE Messenger!AfterSend(c)
      <4>1. errand[c].about \in Speakers
        BY <3>1, <1>1 DEF Messenger!AfterSend, SoundJob
      <4>2. \/ Messenger!Ready(errand[c].about) /\ errand' = [errand EXCEPT ![c] = pop(errand[c].about)]
            \/ errand' = [errand EXCEPT ![c] = Messenger!Idle]
        BY <3>1 DEF Messenger!AfterSend
      <4> HIDE DEF pop
      <4> QED
        BY <4>1, <4>2, <2>1, <1>2
    <3>2. CASE Messenger!PollInvite(c)
      <4>1. Messenger!Who(c) \in Speakers
        BY <3>2, <1>1, WhoIsAPersona DEF Messenger!PollInvite, Messenger!Serves, SoundConn
      <4>2. Messenger!Ready(Messenger!Who(c)) /\ errand' = [errand EXCEPT ![c] = pop(Messenger!Who(c))]
        BY <3>2 DEF Messenger!PollInvite
      <4> HIDE DEF pop
      <4> QED
        BY <4>1, <4>2, <2>1
    <3> QED
      BY <1>6, <3>1, <3>2
  <2>3. UNCHANGED <<ipc, room, conn, Messenger!service, seen, trail>>
    BY <1>6 DEF Messenger!AfterSend, Messenger!PollInvite
  <2> QED
    BY <1>1, <1>3, <2>2, <2>3, OneConnectionMoves
<1>7. ASSUME NEW p \in Speakers, Messenger!PresenceAdd(c, p) \/ Messenger!PresenceDelete(c, p)
      PROVE  MessengerInv'
  <2> DEFINE k == conn'[c]
             j == errand'[c]
  <2>1. UNCHANGED <<ipc, room, Messenger!service, trail>>
    BY <1>7 DEF Messenger!PresenceAdd, Messenger!PresenceDelete
  <2>2. /\ k \in ConnRecord /\ conn' = [conn EXCEPT ![c] = k]
        /\ k.phase = conn[c].phase /\ k.token = conn[c].token /\ k.forced = conn[c].forced
    <3>1. PICK m \in SUBSET Speakers : conn' = [conn EXCEPT ![c].muted = m]
      <4>1. conn[c].muted \in SUBSET Speakers
        BY <1>1 DEF ConnRecord
      <4>2. conn[c].muted \ {p} \in SUBSET Speakers /\ conn[c].muted \union {p} \in SUBSET Speakers
        BY <4>1
      <4>3. \/ conn' = [conn EXCEPT ![c].muted = conn[c].muted \ {p}]
            \/ conn' = [conn EXCEPT ![c].muted = conn[c].muted \union {p}]
        BY <1>7 DEF Messenger!PresenceAdd, Messenger!PresenceDelete
      <4> QED
        BY <4>2, <4>3
    <3> QED
      BY <1>1, <3>1 DEF ConnRecord
  <2>3. j \in ErrandRecord /\ SoundJob(j) /\ errand' = [errand EXCEPT ![c] = j]
    <3> DEFINE reply == [kind |-> "reply", about |-> p, sees |-> Messenger!Shown(p), to |-> {c}]
    <3>1. errand' = errand \/ errand' = [errand EXCEPT ![c] = reply]
      BY <1>7 DEF Messenger!PresenceAdd, Messenger!PresenceDelete
    <3>2. reply \in ErrandRecord /\ SoundJob(reply)
      BY WhatIsShown DEF ErrandRecord, SoundJob
    <3> HIDE DEF reply
    <3> QED
      BY <1>1, <3>1, <3>2
  <2>4. seen' \in [Conns -> [Speakers -> Messenger!Sees]]
    <3> HIDE DEF k, j
    <3>1. seen' = seen \/ seen' = [seen EXCEPT ![c][p] = "unknown"]
      BY <1>7 DEF Messenger!PresenceAdd, Messenger!PresenceDelete
    <3>2. CASE seen' = seen
      BY <1>1, <3>2
    <3>3. CASE seen' = [seen EXCEPT ![c][p] = "unknown"]
      <4>1. "unknown" \in Messenger!Sees
        BY DEF Messenger!Sees
      <4>2. seen[c] \in [Speakers -> Messenger!Sees]
        BY <1>1
      <4>3. [seen[c] EXCEPT ![p] = "unknown"] \in [Speakers -> Messenger!Sees]
        BY <4>1, <4>2
      <4>4. seen' = [seen EXCEPT ![c] = [seen[c] EXCEPT ![p] = "unknown"]]
        BY <1>1, <3>3
      <4> QED
        BY <1>1, <4>3, <4>4
    <3> QED
      BY <3>1, <3>2, <3>3
  <2> HIDE DEF k, j
  <2>5. /\ SoundConn(k) /\ (Registered(k) <=> Registered(conn[c]))
    BY <1>1, <2>2 DEF SoundConn, Registered
  <2> QED
    BY <2>1, <2>2, <2>3, <2>4, <2>5, OneConnectionMoves
<1> QED
  BY <1>4, <1>5, <1>6, <1>7

LEMMA PresenceSetStep ==
    ASSUME Messenger!PersonaOfAssumption, MessengerInv, NEW c \in Conns, NEW show \in {"CHAT",
           "DISC"},
           Messenger!PresenceSet(c, show)
    PROVE  MessengerInv'
<1> DEFINE p == Messenger!Who(c)
           sees == IF show # "DISC" /\ ~Messenger!AppearsOffline(p)' THEN "on" ELSE "off"
<1>1. /\ conn[c] \in ConnRecord /\ SoundConn(conn[c]) /\ conn \in [Conns -> ConnRecord]
      /\ errand \in [Conns -> ErrandRecord] /\ Messenger!Reads(c)
      /\ conn[c].phase = "auth" /\ ~conn[c].forced
  BY DEF MessengerInv, MessengerTyped, Phases, Messenger!PresenceSet, Messenger!Serves
<1>2. conn[c].token # None /\ p \in Speakers /\ c \in listed /\ c # None
  <2>1. conn[c].token # None
    BY <1>1 DEF SoundConn
  <2> QED
    BY <2>1, <1>1, WhoIsAPersona DEF MessengerInv, Phases, Registered,
       Messenger!PersonaOfAssumption
<1>3. /\ UNCHANGED <<ipc, room, listed, channel, armed, revoked, seen>>
      /\ conn' = [conn EXCEPT ![c].show = show, ![c].ready = TRUE]
      /\ shared' = [shared EXCEPT ![p] = show]
      /\ public' = [public EXCEPT ![p] = c]
      /\ trail' = [trail EXCEPT !.wrote[p] = c]
      /\ errand' = Messenger!Notifies(c, p, sees, Messenger!Viewers(p))
  BY DEF Messenger!PresenceSet
<1>4. PICK j \in ErrandRecord : SoundJob(j) /\ errand' = [errand EXCEPT ![c] = j]
  <2>1. sees \in Messenger!Sees
    BY DEF Messenger!Sees
  <2> HIDE DEF sees, p
  <2> QED
    BY <2>1, <1>1, <1>2, <1>3, ViewersAreConns, NotifyingJob
<1>5. /\ conn' \in [Conns -> ConnRecord] /\ \A d \in Conns : d # c => conn'[d] = conn[d]
      /\ conn'[c].phase = conn[c].phase /\ conn'[c].token = conn[c].token
      /\ conn'[c].forced = conn[c].forced
  BY <1>1, <1>3 DEF ConnRecord, Shows
<1>6. /\ trail' \in TrailRecord /\ trail'.released = trail.released
      /\ trail'.wrote = [trail.wrote EXCEPT ![p] = c]
  <2>1. trail \in TrailRecord
    BY DEF MessengerInv, MessengerTyped
  <2> HIDE DEF p
  <2> QED
    BY <2>1, <1>2, <1>3 DEF TrailRecord
<1> HIDE DEF sees
<1>7. MessengerTyped'
  <2>1. errand' \in [Conns -> ErrandRecord] /\ \A d \in Conns : SoundJob(errand'[d])
    BY <1>4 DEF MessengerInv, MessengerTyped
  <2>2. public' \in [Speakers -> Conns \union {None}]
        /\ shared' \in [Speakers -> {"CHAT", "DISC", "AWAY"}]
    BY <1>2, <1>3 DEF MessengerInv, MessengerTyped
  <2> QED
    BY <2>1, <2>2, <1>3, <1>5, <1>6 DEF MessengerInv, MessengerTyped
<1>8. Phases'
  BY <1>3, <1>5 DEF MessengerInv, Phases, SoundConn, Registered
<1>9. \A q \in Speakers : Messenger!ListedOf(q)' = Messenger!ListedOf(q)
  <2>1. \A d \in listed : PersonaOf[conn'[d].token] = PersonaOf[conn[d].token]
    BY <1>5 DEF MessengerInv, MessengerTyped
  <2> QED
    BY <2>1, <1>3 DEF Messenger!ListedOf, Messenger!Who
<1>10. Invited'
  BY <1>3, <1>6, <1>9 DEF MessengerInv, Invited
<1>11. Owned'
  <2>1. trail.wrote \in [Speakers -> Conns \union {None}] /\ public \in [Speakers -> Conns \union {None}]
    BY DEF MessengerInv, MessengerTyped, TrailRecord
  <2>2. c \in Messenger!ListedOf(p)
    BY <1>2 DEF Messenger!ListedOf
  <2> HIDE DEF p
  <2> SUFFICES ASSUME NEW q \in Speakers
               PROVE  /\ public'[q] # None => public'[q] \in Messenger!ListedOf(q)'
                      /\ trail'.wrote[q] # None => conn'[trail'.wrote[q]].phase \notin Early
                      /\ trail'.wrote[q] \in listed' => public'[q] = trail'.wrote[q]
    BY DEF Owned
  <2>3. CASE q = p
    BY <2>1, <2>2, <2>3, <1>1, <1>2, <1>3, <1>5, <1>6, <1>9 DEF Early
  <2>4. CASE q # p
    <3>1. public'[q] = public[q] /\ trail'.wrote[q] = trail.wrote[q]
      BY <2>1, <2>4, <1>2, <1>3, <1>6
    <3>2. \A d \in Conns : conn'[d].phase = conn[d].phase
      BY <1>5
    <3>3. /\ public[q] # None => public[q] \in Messenger!ListedOf(q)
          /\ trail.wrote[q] # None => conn[trail.wrote[q]].phase \notin Early
          /\ trail.wrote[q] \in listed => public[q] = trail.wrote[q]
      BY DEF MessengerInv, Owned
    <3>4. trail.wrote[q] # None => trail.wrote[q] \in Conns
      BY <2>1
    <3>5. Messenger!ListedOf(q)' = Messenger!ListedOf(q)
      BY <1>9
    <3>6. public'[q] # None => public'[q] \in Messenger!ListedOf(q)'
      BY <3>1, <3>3, <3>5
    <3>7. trail'.wrote[q] # None => conn'[trail'.wrote[q]].phase \notin Early
      BY <3>1, <3>2, <3>3, <3>4
    <3>8. trail'.wrote[q] \in listed' => public'[q] = trail'.wrote[q]
      BY <3>1, <3>3, <1>3
    <3> QED
      BY <3>6, <3>7, <3>8
  <2> QED
    BY <2>3, <2>4
<1> QED
  BY <1>7, <1>8, <1>10, <1>11 DEF MessengerInv

\* The commands about an invitation, and its release.
LEMMA InvitationSteps ==
    ASSUME Messenger!PersonaOfAssumption, MessengerInv, NEW c \in Conns,
           \/ Messenger!ReleaseCompletion(c)
           \/ \E p \in Speakers :
                 \/ Messenger!Invite(c, p) \/ Messenger!Revoke(c, p)
                 \/ \E accepted \in BOOLEAN : Messenger!Respond(c, p, accepted)
    PROVE  MessengerInv'
<1>1. /\ conn[c] \in ConnRecord /\ SoundConn(conn[c])
      /\ errand[c] \in ErrandRecord /\ errand \in [Conns -> ErrandRecord] /\ SoundJob(errand[c])
      /\ armed \in [Speakers -> Speakers \union {None}] /\ revoked \in SUBSET Speakers
      /\ trail \in TrailRecord
      /\ c \in listed <=> Registered(conn[c])
  BY DEF MessengerInv, MessengerTyped, Phases
<1>2. UNCHANGED <<ipc, room, conn, listed, channel, shared, public, seen>>
  BY DEF Messenger!ReleaseCompletion, Messenger!Invite, Messenger!Revoke, Messenger!Respond
<1>3. PICK j \in ErrandRecord : SoundJob(j) /\ errand' = [errand EXCEPT ![c] = j]
  <2>1. Messenger!Idle \in ErrandRecord /\ SoundJob(Messenger!Idle)
    BY DEF Messenger!Idle, ErrandRecord, SoundJob, Messenger!Sees
  <2>2. CASE Messenger!ReleaseCompletion(c)
    BY <2>1, <2>2 DEF Messenger!ReleaseCompletion
  <2>3. ASSUME NEW p \in Speakers, Messenger!Revoke(c, p)
        PROVE  \E j \in ErrandRecord : SoundJob(j) /\ errand' = [errand EXCEPT ![c] = j]
    <3> DEFINE deferred == [Messenger!Idle EXCEPT !.kind = "deferred", !.about = p]
    <3>1. deferred \in ErrandRecord /\ SoundJob(deferred)
      BY DEF Messenger!Idle, ErrandRecord, SoundJob, Messenger!Sees
    <3>2. errand' = [errand EXCEPT ![c] = deferred]
      BY <2>3 DEF Messenger!Revoke
    <3> QED
      BY <3>1, <3>2
  <2>4. ASSUME errand' = errand
        PROVE  errand' = [errand EXCEPT ![c] = errand[c]]
    BY <2>4, <1>1
  <2>5. \/ Messenger!ReleaseCompletion(c) \/ \E p \in Speakers : Messenger!Revoke(c, p)
        \/ errand' = errand
    BY DEF Messenger!Invite, Messenger!Respond
  <2> QED
    BY <2>2, <2>3, <2>4, <2>5, <1>1
<1>4. errand' \in [Conns -> ErrandRecord] /\ \A d \in Conns : SoundJob(errand'[d])
  BY <1>3 DEF MessengerInv, MessengerTyped
<1>5. Phases' /\ \A q \in Speakers : Messenger!ListedOf(q)' = Messenger!ListedOf(q)
  BY <1>2 DEF MessengerInv, Phases, Messenger!ListedOf, Messenger!Who
<1>6. ASSUME trail' \in TrailRecord, trail'.wrote = trail.wrote,
             armed' \in [Speakers -> Speakers \union {None}], revoked' \in SUBSET Speakers,
             Invited'
      PROVE  MessengerInv'
  <2>1. MessengerTyped'
    BY <1>2, <1>4, <1>6 DEF MessengerInv, MessengerTyped
  <2>2. Owned'
    BY <1>2, <1>5, <1>6 DEF MessengerInv, Owned
  <2> QED
    BY <1>5, <1>6, <2>1, <2>2 DEF MessengerInv
<1>7. ASSUME NEW g \in Speakers, Messenger!Disarmed(g), trail' = trail
      PROVE  MessengerInv'
  <2>1. /\ armed' \in [Speakers -> Speakers \union {None}] /\ revoked' \in SUBSET Speakers
        /\ armed'[g] = None /\ g \notin revoked'
        /\ \A q \in Speakers : q # g => armed'[q] = armed[q] /\ (q \in revoked' <=> q \in revoked)
    BY <1>1, <1>7 DEF Messenger!Disarmed
  <2>2. Invited'
    BY <1>5, <1>7, <2>1 DEF MessengerInv, Invited
  <2> QED
    BY <1>1, <1>6, <1>7, <2>1, <2>2
<1>8. ASSUME NEW p \in Speakers, Messenger!Invite(c, p)
      PROVE  MessengerInv'
  BY <1>7, <1>8 DEF Messenger!Invite
<1>9. ASSUME NEW p \in Speakers, Messenger!Revoke(c, p)
      PROVE  MessengerInv'
  <2>1. conn[c].token # None
    BY <1>1, <1>9 DEF Messenger!Revoke, Messenger!Serves, SoundConn
  <2>2. Messenger!Who(c) # None
    BY <2>1, WhoIsAPersona DEF Messenger!PersonaOfAssumption
  <2>3. /\ armed[p] # None /\ armed' = armed /\ trail' = trail
        /\ revoked' = revoked \union {p}
    BY <1>9, <2>2 DEF Messenger!Revoke
  <2>4. Invited'
    BY <1>5, <2>3 DEF MessengerInv, Invited
  <2> QED
    BY <1>1, <1>6, <2>3, <2>4
<1>10. ASSUME NEW p \in Speakers, NEW accepted \in BOOLEAN, Messenger!Respond(c, p, accepted)
       PROVE  MessengerInv'
  <2> DEFINE g == Messenger!Who(c)
  <2>1. /\ conn[c].token # None /\ conn[c].phase = "auth" /\ ~conn[c].forced
    BY <1>1, <1>10 DEF Messenger!Respond, Messenger!Serves, SoundConn
  <2>2. g \in Speakers /\ c \in Messenger!ListedOf(g)
    BY <1>1, <2>1, WhoIsAPersona DEF Registered, Messenger!ListedOf
  <2>3. CASE ~accepted
    BY <1>7, <1>10, <2>2, <2>3 DEF Messenger!Respond
  <2>4. CASE accepted
    <3>1. /\ armed' = [armed EXCEPT ![g] = p] /\ revoked' = revoked \ {g}
          /\ trail' = [trail EXCEPT !.released[g] = 0]
      BY <1>10, <2>4 DEF Messenger!Respond
    <3> HIDE DEF g
    <3>2. /\ trail' \in TrailRecord /\ trail'.wrote = trail.wrote
          /\ trail'.released = [trail.released EXCEPT ![g] = 0]
      BY <1>1, <2>2, <3>1 DEF TrailRecord
    <3>3. trail.released \in [Speakers -> Nat]
      BY <1>1 DEF TrailRecord
    <3>4. Invited'
      <4> SUFFICES ASSUME NEW q \in Speakers
                   PROVE  /\ q \in revoked' => armed'[q] # None
                          /\ armed'[q] # None => Messenger!ListedOf(q)' # {} /\ trail'.released[q] = 0
                          /\ trail'.released[q] \in {0, 1}
        BY DEF Invited
      <4>1. CASE q = g
        BY <4>1, <1>1, <1>5, <2>2, <3>1, <3>2, <3>3 
      <4>2. CASE q # g
        BY <4>2, <1>1, <1>5, <2>2, <3>1, <3>2, <3>3 DEF MessengerInv, Invited
      <4> QED
        BY <4>1, <4>2
    <3> QED
      BY <1>1, <1>6, <2>2, <3>1, <3>2, <3>4
  <2> QED
    BY <2>3, <2>4
<1>11. CASE Messenger!ReleaseCompletion(c)
  <2> DEFINE g == errand[c].about
  <2>1. g \in Speakers /\ errand[c].to \subseteq Speakers
    BY <1>1, <1>11 DEF Messenger!ReleaseCompletion, SoundJob
  <2>2. CASE ~Messenger!StillReady(errand[c])
    <3>1. UNCHANGED <<armed, revoked, trail>>
      BY <1>11, <2>2 DEF Messenger!ReleaseCompletion
    <3>2. Invited'
      BY <1>5, <3>1 DEF MessengerInv, Invited
    <3> QED
      BY <1>1, <1>6, <3>1, <3>2
  <2>3. CASE Messenger!StillReady(errand[c])
    <3>1. /\ Messenger!Disarmed(g)
          /\ trail' = [trail EXCEPT !.released[g] = IF @ < 2 THEN @ + 1 ELSE @]
      BY <1>11, <2>3 DEF Messenger!ReleaseCompletion
    <3>2. armed[g] # None
      BY <2>1, <2>3 DEF Messenger!StillReady, Messenger!PersonaOfAssumption
    <3>3. trail.released \in [Speakers -> Nat] /\ trail.released[g] = 0
      BY <1>1, <2>1, <3>2 DEF TrailRecord, MessengerInv, Invited
    <3> HIDE DEF g
    <3>4. trail' = [trail EXCEPT !.released = [trail.released EXCEPT ![g] = 1]]
      BY <1>1, <2>1, <3>1, <3>3 DEF TrailRecord
    <3>5. /\ trail' \in TrailRecord /\ trail'.wrote = trail.wrote
          /\ trail'.released = [trail.released EXCEPT ![g] = 1]
      BY <1>1, <2>1, <3>3, <3>4 DEF TrailRecord
    <3>6. /\ armed' = [armed EXCEPT ![g] = None] /\ revoked' = revoked \ {g}
      BY <3>1 DEF Messenger!Disarmed
    <3>7. Invited'
      BY <1>1, <1>5, <2>1, <3>3, <3>5, <3>6 DEF MessengerInv, Invited
    <3> QED
      BY <1>1, <1>6, <2>1, <3>5, <3>6, <3>7
  <2> QED
    BY <2>2, <2>3
<1> QED
  BY <1>8, <1>9, <1>10, <1>11

\* The end of a connection: what it left takes nothing of another one with it.
LEMMA EndsStep ==
    ASSUME Messenger!PersonaOfAssumption, MessengerInv, NEW c \in Conns, Messenger!Ends(c)
    PROVE  MessengerInv'
<1> DEFINE p == Messenger!Who(c)
           out == {g \in Speakers : g = p \/ armed[g] = p}
           k == [Messenger!NewConn EXCEPT !.phase = "gone", !.token = conn[c].token]
<1>1. /\ conn[c] \in ConnRecord /\ SoundConn(conn[c]) /\ conn \in [Conns -> ConnRecord]
      /\ errand \in [Conns -> ErrandRecord] /\ c # None
      /\ c \in listed <=> Registered(conn[c])
      /\ seen \in [Conns -> [Speakers -> Messenger!Sees]]
  BY DEF MessengerInv, MessengerTyped, Phases, Messenger!PersonaOfAssumption
<1>2. /\ conn[c].phase \in {"open", "waiting", "auth", "closing", "quiesced"}
      /\ conn' = [conn EXCEPT ![c] = k] /\ UNCHANGED <<ipc, room, trail>>
      /\ seen' = [seen EXCEPT ![c] = [q \in Speakers |-> "unknown"]]
  BY DEF Messenger!Ends
<1>3. /\ k \in ConnRecord /\ k.phase = "gone" /\ ~k.forced /\ k.token = conn[c].token
  BY <1>1 DEF Messenger!NewConn, ConnRecord, ConnPhases, Shows
<1>4. SoundConn(k) /\ ~Registered(k) /\ k.phase \notin Early
  BY <1>3 DEF SoundConn, Registered, Early
<1>5. seen' \in [Conns -> [Speakers -> Messenger!Sees]]
  BY <1>1, <1>2 DEF Messenger!Sees
<1>6. Messenger!Leaves(c) <=> c \in listed
  BY <1>1, <1>2 DEF Messenger!Leaves, Registered, SoundConn, Early
<1> HIDE DEF k
<1>7. CASE ~Messenger!Leaves(c)
  <2>1. UNCHANGED Messenger!service /\ errand' = [errand EXCEPT ![c] = Messenger!Idle]
    BY <1>7 DEF Messenger!Ends
  <2>2. Messenger!Idle \in ErrandRecord /\ SoundJob(Messenger!Idle)
    BY DEF Messenger!Idle, ErrandRecord, SoundJob, Messenger!Sees
  <2>3. Registered(k) <=> Registered(conn[c])
    BY <1>1, <1>4, <1>6, <1>7
  <2> QED
    BY <1>2, <1>3, <1>4, <1>5, <2>1, <2>2, <2>3, OneConnectionMoves
<1>8. CASE Messenger!Leaves(c)
  <2>1. p \in Speakers /\ c \in listed
    BY <1>6, <1>8, WhoIsAPersona DEF Messenger!Leaves
  <2>2. /\ listed' = listed \ {c} /\ channel' = channel \ {c}
        /\ public' = [public EXCEPT ![p] = IF @ = c THEN None ELSE @]
        /\ shared' = shared \/ shared' = [shared EXCEPT ![p] = "AWAY"]
        /\ armed' = [g \in Speakers |-> IF g \in out THEN None ELSE armed[g]]
        /\ revoked' = revoked \ out
        /\ errand' = Messenger!Notifies(c, p, Messenger!NotifiedOnLeave(p), Messenger!Viewers(p))
    BY <1>8 DEF Messenger!Ends, Messenger!Unregistered, Messenger!PublicCleared
  <2>3. PICK j \in ErrandRecord : SoundJob(j) /\ errand' = [errand EXCEPT ![c] = j]
    <3>1. Messenger!NotifiedOnLeave(p) \in Messenger!Sees
      BY WhatIsShown DEF Messenger!NotifiedOnLeave
    <3> HIDE DEF p
    <3> QED
      BY <1>1, <2>1, <2>2, <3>1, ViewersAreConns, NotifyingJob
  <2>4. /\ conn' \in [Conns -> ConnRecord] /\ conn'[c] = k
        /\ \A d \in Conns : d # c => conn'[d] = conn[d]
    BY <1>1, <1>2, <1>3
  <2>5. \A g \in Speakers : /\ g \in out => armed'[g] = None /\ g \notin revoked'
                            /\ g \notin out => armed'[g] = armed[g]
                                               /\ (g \in revoked' <=> g \in revoked)
    BY <2>2
  <2>6. p \in out
    BY <2>1
  <2>7. \A q \in Speakers : Messenger!ListedOf(q)' = Messenger!ListedOf(q) \ {c}
    <3>1. \A d \in listed : conn'[d].token = conn[d].token
      BY <1>3, <2>4 DEF MessengerInv, MessengerTyped
    <3> QED
      BY <3>1, <2>2 DEF Messenger!ListedOf, Messenger!Who
  <2>8. \A q \in Speakers : c \in Messenger!ListedOf(q) => q = p
    BY DEF Messenger!ListedOf
  <2>9. MessengerTyped'
    <3>1. errand' \in [Conns -> ErrandRecord] /\ \A d \in Conns : SoundJob(errand'[d])
      BY <2>3 DEF MessengerInv, MessengerTyped
    <3>2. /\ shared' \in [Speakers -> {"CHAT", "DISC", "AWAY"}]
          /\ public' \in [Speakers -> Conns \union {None}]
      BY <2>1, <2>2 DEF MessengerInv, MessengerTyped
    <3>3. listed' \in SUBSET Conns /\ channel' \in SUBSET listed'
      BY <2>2 DEF MessengerInv, MessengerTyped
    <3>4. armed' \in [Speakers -> Speakers \union {None}] /\ revoked' \in SUBSET Speakers
      BY <2>2 DEF MessengerInv, MessengerTyped
    <3> QED
      BY <3>1, <3>2, <3>3, <3>4, <1>2, <1>5, <2>4 DEF MessengerInv, MessengerTyped
  <2>10. Phases'
    BY <1>4, <2>2, <2>4 DEF MessengerInv, Phases
  <2> HIDE DEF out
  <2>11. Invited'
    <3> SUFFICES ASSUME NEW q \in Speakers
                 PROVE  /\ q \in revoked' => armed'[q] # None
                        /\ armed'[q] # None => Messenger!ListedOf(q)' # {} /\ trail'.released[q] = 0
                        /\ trail'.released[q] \in {0, 1}
      BY DEF Invited
    <3>1. /\ q \in revoked => armed[q] # None
          /\ armed[q] # None => Messenger!ListedOf(q) # {} /\ trail.released[q] = 0
          /\ trail.released[q] \in {0, 1}
      BY DEF MessengerInv, Invited
    <3>2. CASE q \in out
      BY <3>1, <3>2, <1>2, <2>5
    <3>3. CASE q \notin out
      BY <3>1, <3>3, <1>2, <2>5, <2>6, <2>7, <2>8
    <3> QED
      BY <3>2, <3>3
  <2>12. Owned'
    <3>1. trail.wrote \in [Speakers -> Conns \union {None}] /\ public \in [Speakers -> Conns \union {None}]
      BY DEF MessengerInv, MessengerTyped, TrailRecord
    <3> SUFFICES ASSUME NEW q \in Speakers
                 PROVE  /\ public'[q] # None => public'[q] \in Messenger!ListedOf(q)'
                        /\ trail.wrote[q] # None => conn'[trail.wrote[q]].phase \notin Early
                        /\ trail.wrote[q] \in listed' => public'[q] = trail.wrote[q]
      BY <1>2 DEF Owned
    <3>2. /\ public[q] # None => public[q] \in Messenger!ListedOf(q)
          /\ trail.wrote[q] # None => conn[trail.wrote[q]].phase \notin Early
          /\ trail.wrote[q] \in listed => public[q] = trail.wrote[q]
      BY DEF MessengerInv, Owned
    <3>3. /\ public[q] # c => public'[q] = public[q]
          /\ public[q] = c /\ q = p => public'[q] = None
          /\ q # p => public'[q] = public[q]
      BY <3>1, <2>1, <2>2
    <3> HIDE DEF p
    <3>4. public'[q] # None => public'[q] \in Messenger!ListedOf(q)'
      BY <3>2, <3>3, <1>1, <2>7, <2>8
    <3>5. trail.wrote[q] # None => conn'[trail.wrote[q]].phase \notin Early
      BY <3>1, <3>2, <1>3, <1>4, <2>4
    <3>6. trail.wrote[q] \in listed' => public'[q] = trail.wrote[q]
      BY <3>2, <3>3, <2>2
    <3> QED
      BY <3>4, <3>5, <3>6
  <2> QED
    BY <2>9, <2>10, <2>11, <2>12 DEF MessengerInv
<1> QED
  BY <1>7, <1>8

LEMMA MessengerInitially ==
    ASSUME Messenger!PersonaOfAssumption, Messenger!Init
    PROVE  MessengerInv
<1>1. MessengerTyped
  BY DEF Messenger!Init, MessengerTyped, IpcRecord, ConnRecord, Messenger!NewConn, ConnPhases,
         Shows, ErrandRecord, Messenger!Idle, Messenger!Sees,
     SoundJob, TrailRecord
<1>2. Phases
  BY DEF Messenger!Init, Phases, Messenger!NewConn, SoundConn, Registered, Early
<1>3. Invited /\ Owned
  BY DEF Messenger!Init, Invited, Owned, Messenger!PersonaOfAssumption
<1> QED
  BY <1>1, <1>2, <1>3 DEF MessengerInv

LEMMA MessengerInvariant ==
    ASSUME Messenger!PersonaOfAssumption
    PROVE  Messenger!Spec => []MessengerInv
<1>1. Messenger!Init => MessengerInv
  BY MessengerInitially
<1>2. MessengerInv /\ [Messenger!Next]_Messenger!vars => MessengerInv'
  <2> SUFFICES ASSUME MessengerInv, [Messenger!Next]_Messenger!vars
               PROVE  MessengerInv'
    OBVIOUS
  <2>1. CASE UNCHANGED Messenger!vars
    <3>1. /\ UNCHANGED <<ipc, room, conn, errand, listed, channel, shared, public, armed,
                         revoked, seen, trail>>
      BY <2>1 DEF Messenger!vars
    <3>2. MessengerTyped' /\ Phases'
      BY <3>1 DEF MessengerInv, MessengerTyped, Phases
    <3> QED
      BY <3>1, <3>2, NobodyComesOrGoes DEF MessengerInv
  <2>2. CASE Messenger!Next
    BY <2>2, OutsideSteps, AuthSteps, MovingSteps, PresenceSetStep, JobSteps,
       InvitationSteps, EndsStep DEF Messenger!Next
  <2> QED
    BY <2>1, <2>2
<1> QED
  BY <1>1, <1>2, PTL DEF Messenger!Spec

-----------------------------------------------------------------------------
(* What friends are shown.                                                 *)

\* A connection that serves its persona, and whose token was never marked.
Fine(k) ==
    /\ conn[k].phase \in {"auth", "quiesced"} /\ ~conn[k].forced
    /\ conn[k].stage # "notified" /\ ipc.token[conn[k].token] = "live"

Pushes(d, p) == errand[d].kind = "push" /\ errand[d].about = p
Replies(v, p) == errand[v].kind = "reply" /\ errand[v].about = p

\* A push about p is on its way to v.
Comes(v, p) == \E d \in Conns : Pushes(d, p) /\ v \in errand[d].to

\* What p's thread tells: its presence, or that it went.
Tells(d, p) ==
    IF d \in listed
    THEN /\ Messenger!ListedOf(p) = {d} /\ conn[d].ready /\ shared[p] = conn[d].show
         /\ errand[d].sees = IF conn[d].show = "DISC" THEN "off" ELSE "on"
    ELSE Messenger!ListedOf(p) = {} /\ errand[d].sees = "off"

\* A persona without overlapping sockets has one connection, and one thread that tells.
Source(p) ==
    /\ \A k, d \in Messenger!ListedOf(p) : k = d
    /\ \A d \in Conns : Pushes(d, p) => Tells(d, p)
    /\ \A d, k \in Conns : Pushes(d, p) /\ Pushes(k, p) => d = k

OneSource == \A p \in Speakers \ trail.overlap : Source(p)

\* A viewer sees nothing before it is authenticated, of whom it has muted, and of its
\* own persona.
Fits(v) ==
    /\ conn[v].phase \in Early =>
          /\ ~conn[v].ready /\ conn[v].stage = "none"
          /\ \A p \in Speakers : seen[v][p] = "unknown"
    /\ v \in listed => ipc.token[conn[v].token] # "none"
    /\ \A p \in Speakers : p \in conn[v].muted \/ (v \in listed /\ p = Messenger!Who(v)) =>
          seen[v][p] = "unknown" /\ ~Replies(v, p)
    /\ \A d \in Conns : errand[d].kind = "push" /\ v \in errand[d].to =>
          conn[v].phase \notin Early /\ Messenger!Who(v) # errand[d].about

ViewersFit == \A v \in Conns : Fits(v)

\* What a viewer sees of a persona, or is about to be answered, is what is shown, unless
\* a push is on its way to it.
UpToDate(v, p) ==
    IF Replies(v, p) THEN errand[v].sees = Messenger!Shown(p)
    ELSE seen[v][p] # "unknown" => seen[v][p] = Messenger!Shown(p)

Counted(v, p) ==
    /\ p \notin trail.overlap /\ <<v, p>> \notin trail.crossed
    /\ Fine(v) /\ conn[v].phase = "auth" /\ \A k \in Messenger!ListedOf(p) : Fine(k)
    /\ ~Comes(v, p)

Current ==
    \A v \in channel, p \in Speakers : Counted(v, p) => UpToDate(v, p)

ViewsInv == OneSource /\ ViewersFit /\ Current

\* What is shown of a persona whose connections are fine.
Online(p) ==
    IF /\ Messenger!ListedOf(p) # {} /\ shared[p] # "DISC"
       /\ \A k \in Messenger!ListedOf(p) : conn[k].ready /\ conn[k].show # "DISC"
    THEN "on" ELSE "off"

LEMMA ShownIfFine ==
    ASSUME NEW p
    PROVE  /\ (\A k \in Messenger!ListedOf(p) : Fine(k)) => Messenger!Shown(p) = Online(p)
           /\ (\A k \in Messenger!ListedOf(p)' : Fine(k)') => Messenger!Shown(p)' = Online(p)'
<1>1. ASSUME \A k \in Messenger!ListedOf(p) : Fine(k)
      PROVE  Messenger!Shown(p) = Online(p)
  <2>1. \A k \in Messenger!ListedOf(p) : Messenger!Available(k)
    BY <1>1 DEF Fine, Messenger!Available, Messenger!Marked
  <2>2. Messenger!AppearsOffline(p) <=> \E k \in Messenger!ListedOf(p) : ~conn[k].ready \/ conn[k].show = "DISC"
    BY <2>1 DEF Messenger!AppearsOffline
  <2> QED
    BY <2>2 DEF Messenger!Shown, Online
<1>2. ASSUME \A k \in Messenger!ListedOf(p)' : Fine(k)'
      PROVE  Messenger!Shown(p)' = Online(p)'
  <2>1. \A k \in Messenger!ListedOf(p)' : Messenger!Available(k)'
    BY <1>2 DEF Fine, Messenger!Available, Messenger!Marked
  <2>2. Messenger!AppearsOffline(p)' <=> \E k \in Messenger!ListedOf(p)' : ~conn'[k].ready \/ conn'[k].show = "DISC"
    BY <2>1 DEF Messenger!AppearsOffline
  <2> QED
    BY <2>2 DEF Messenger!Shown, Online
<1> QED
  BY <1>1, <1>2

\* A step after which everybody is at most as fine as before, and that changes nothing
\* of what is shown, sent or told.
LEMMA NothingToTell ==
    ASSUME MessengerInv, ViewsInv, UNCHANGED <<listed, channel, shared, seen>>,
           trail'.overlap = trail.overlap, trail'.crossed = trail.crossed,
           \A k \in Conns :
              /\ k \in listed =>
                    /\ conn'[k].token = conn[k].token /\ conn'[k].ready = conn[k].ready
                    /\ conn'[k].show = conn[k].show
                    /\ ipc'.token[conn[k].token] # "none"
                    /\ Fine(k)' => Fine(k)
                    /\ conn'[k].phase = "auth" => conn[k].phase = "auth"
              /\ conn'[k].phase \in Early =>
                    /\ conn[k].phase \in Early
                    /\ conn'[k].ready = conn[k].ready /\ conn'[k].stage = conn[k].stage
              /\ conn[k].phase \notin Early => conn'[k].token = conn[k].token
              /\ conn'[k].phase \in Early => conn[k].phase \in Early
              /\ conn'[k].muted = conn[k].muted
              /\ \/ errand'[k] = errand[k]
                 \/ errand'[k].kind \notin {"push", "reply"} /\ errand[k].kind \notin {"push", "reply"}
    PROVE  ViewsInv'
<1>1. \A p \in Speakers : Messenger!ListedOf(p)' = Messenger!ListedOf(p)
  BY DEF Messenger!ListedOf, Messenger!Who, MessengerInv, MessengerTyped
<1>2. /\ \A d \in Conns, p \in Speakers :
            /\ Pushes(d, p)' <=> Pushes(d, p)
            /\ Replies(d, p)' <=> Replies(d, p)
      /\ \A d \in Conns : errand'[d].kind \in {"push", "reply"} => errand'[d] = errand[d]
  BY DEF Pushes, Replies
<1>3. listed \subseteq Conns /\ channel \subseteq listed
  BY DEF MessengerInv, MessengerTyped
<1>4. OneSource'
  <2> SUFFICES ASSUME NEW p \in Speakers, p \notin trail'.overlap
               PROVE  /\ \A k, d \in Messenger!ListedOf(p)' : k = d
                      /\ \A d \in Conns : Pushes(d, p)' => Tells(d, p)'
                      /\ \A d, k \in Conns : Pushes(d, p)' /\ Pushes(k, p)' => d = k
    BY DEF OneSource, Source
  <2>1. /\ \A k, d \in Messenger!ListedOf(p) : k = d
        /\ \A d \in Conns : Pushes(d, p) => Tells(d, p)
        /\ \A d, k \in Conns : Pushes(d, p) /\ Pushes(k, p) => d = k
    BY DEF ViewsInv, OneSource, Source
  <2>2. ASSUME NEW d \in Conns, Pushes(d, p)'
        PROVE  Tells(d, p)'
    <3>1. Pushes(d, p) /\ Tells(d, p) /\ errand'[d] = errand[d]
      BY <2>1, <2>2, <1>2 DEF Pushes
    <3> QED
      BY <3>1, <1>1 DEF Tells
  <2> QED
    BY <2>1, <2>2, <1>1, <1>2
<1>5. ViewersFit'
  <2> SUFFICES ASSUME NEW v \in Conns
               PROVE  /\ conn'[v].phase \in Early =>
                            /\ ~conn'[v].ready /\ conn'[v].stage = "none"
                            /\ \A p \in Speakers : seen'[v][p] = "unknown"
                      /\ v \in listed' => ipc'.token[conn'[v].token] # "none"
                      /\ \A p \in Speakers :
                            p \in conn'[v].muted \/ (v \in listed' /\ p = Messenger!Who(v)') =>
                               seen'[v][p] = "unknown" /\ ~Replies(v, p)'
                      /\ \A d \in Conns : errand'[d].kind = "push" /\ v \in errand'[d].to =>
                            conn'[v].phase \notin Early /\ Messenger!Who(v)' # errand'[d].about
    BY DEF ViewersFit, Fits
  <2>1. v \in listed \/ conn[v].phase \notin Early => Messenger!Who(v)' = Messenger!Who(v)
    BY DEF Messenger!Who
  <2> QED
    BY <2>1, <1>2 DEF ViewsInv, ViewersFit, Fits
<1>6. Current'
  <2> SUFFICES ASSUME NEW v \in channel, NEW p \in Speakers, Counted(v, p)'
               PROVE  UpToDate(v, p)'
    BY DEF Current
  <2>1. v \in Conns /\ v \in listed
    BY <1>3
  <2>2. Messenger!ListedOf(p) \subseteq listed /\ Messenger!ListedOf(p) \subseteq Conns
    BY <1>3 DEF Messenger!ListedOf
  <2>3. \A k \in Messenger!ListedOf(p) : Fine(k) /\ Fine(k)'
    BY <1>1, <2>2 DEF Counted
  <2>4. Comes(v, p)' <=> Comes(v, p)
    BY <1>2 DEF Comes, Pushes
  <2>5. Counted(v, p)
    BY <2>1, <2>3, <2>4 DEF Counted
  <2>6. UpToDate(v, p)
    BY <2>5 DEF ViewsInv, Current
  <2>7. Messenger!Shown(p) = Online(p) /\ Messenger!Shown(p)' = Online(p)'
    BY <2>3, <1>1, ShownIfFine
  <2>8. Online(p)' = Online(p)
    BY <1>1, <2>2 DEF Online
  <2>9. (Replies(v, p)' <=> Replies(v, p)) /\ (Replies(v, p) => errand'[v] = errand[v])
    BY <1>2, <2>1 DEF Replies
  <2> QED
    BY <2>6, <2>7, <2>8, <2>9 DEF UpToDate
<1> QED
  BY <1>4, <1>5, <1>6 DEF ViewsInv

LEMMA OutsideViews ==
    ASSUME MessengerInv, ViewsInv,
           \/ \E t \in Tokens : Messenger!TokenShown(t)
           \/ Messenger!UsableChanges
           \/ \E p \in Speakers : Messenger!RoomChanges(p)
    PROVE  ViewsInv'
<1>1. UNCHANGED <<conn, errand, listed, channel, shared, seen, trail>>
  BY DEF Messenger!TokenShown, Messenger!UsableChanges, Messenger!RoomChanges, Messenger!service
<1>2. \A t \in Tokens : /\ ipc'.token[t] = "live" => ipc.token[t] \in {"live", "none"}
                        /\ ipc.token[t] # "none" => ipc'.token[t] # "none"
  <2>1. ipc.token \in [Tokens -> {"none", "live", "forced", "ready"}] /\ ipc \in IpcRecord
    BY DEF MessengerInv, MessengerTyped, IpcRecord
  <2>2. ASSUME NEW t \in Tokens, Messenger!TokenShown(t)
        PROVE  \/ /\ ipc.token[t] # "live"
                  /\ \E s \in {"live", "forced", "ready"} :
                       ipc'.token = [ipc.token EXCEPT ![t] = s] /\ (s = "live" => ipc.token[t] = "none")
               \/ ipc'.token = [ipc.token EXCEPT ![t] = "forced"]
    BY <2>2, <2>1 DEF Messenger!TokenShown, IpcRecord
  <2>3. CASE Messenger!UsableChanges \/ \E p \in Speakers : Messenger!RoomChanges(p)
    BY <2>3, <2>1 DEF Messenger!UsableChanges, Messenger!RoomChanges, IpcRecord
  <2> QED
    BY <2>1, <2>2, <2>3
<1>3. ASSUME NEW k \in listed
      PROVE  ipc'.token[conn[k].token] # "none" /\ (Fine(k)' => Fine(k))
  <2>1. k \in Conns /\ conn[k].token \in Tokens /\ ipc.token[conn[k].token] # "none"
    BY DEF MessengerInv, MessengerTyped, Phases, Registered, ConnRecord, ViewsInv, ViewersFit,
           Fits
  <2> QED
    BY <2>1, <1>1, <1>2 DEF Fine
<1> QED
  BY <1>1, <1>3, NothingToTell

LEMMA MovingViews ==
    ASSUME Messenger!PersonaOfAssumption, MessengerInv, ViewsInv, NEW c \in Conns,
           \/ Messenger!Bootstraps(c) \/ Messenger!PollDuplicate(c) \/ Messenger!PollDisplaced(c) \/ Messenger!PollClose(c)
           \/ Messenger!Disc(c) \/ Messenger!PolicyClose(c)
    PROVE  ViewsInv'
<1> DEFINE k == conn'[c]
<1>1. /\ conn[c] \in ConnRecord /\ conn \in [Conns -> ConnRecord]
      /\ c \in listed <=> Registered(conn[c])
  BY DEF MessengerInv, MessengerTyped, Phases
<1>2. UNCHANGED <<ipc, errand, listed, channel, shared, seen, trail>>
  BY DEF Messenger!Bootstraps, Messenger!PollDuplicate, Messenger!PollDisplaced,
         Messenger!PollClose, Messenger!Disc, Messenger!PolicyClose, Messenger!service
<1>3. /\ \A d \in Conns : d # c => conn'[d] = conn[d]
      /\ k.ready = conn[c].ready /\ k.show = conn[c].show /\ k.muted = conn[c].muted
      /\ k.forced = conn[c].forced /\ k.phase \notin Early
      /\ conn[c].phase = "auth" => k.token = conn[c].token
      /\ conn[c].phase \in {"auth", "waiting", "open"} 
      /\ k.phase = "auth" => conn[c].phase = "auth"
      /\ conn[c].phase = "auth" /\ k.phase \in {"auth", "quiesced"} /\ conn[c].stage = "notified" => k.stage = "notified"
      /\ conn[c].phase # "auth" => k.phase = "closing"
  <2>1. CASE Messenger!Bootstraps(c) \/ Messenger!PollDuplicate(c) \/ Messenger!PollDisplaced(c)
    BY <1>1, <2>1 DEF Messenger!Bootstraps, Messenger!PollDuplicate, Messenger!PollDisplaced,
       Messenger!Reads, Messenger!Serves, ConnRecord, Early
  <2>2. CASE Messenger!PollClose(c) \/ Messenger!PolicyClose(c)
    BY <1>1, <2>2 DEF Messenger!PollClose, Messenger!PolicyClose, Messenger!Reads, ConnRecord,
       Early
  <2>3. CASE Messenger!Disc(c)
    BY <1>1, <2>3 DEF Messenger!Disc, Messenger!Reads, ConnRecord, Early
  <2> QED
    BY <2>1, <2>2, <2>3
<1> HIDE DEF k
<1>4. c \in listed => conn[c].phase = "auth"
  BY <1>1, <1>3 DEF Registered
<1>5. c \in listed => ipc'.token[conn[c].token] # "none" /\ (Fine(c)' => Fine(c))
  BY <1>1, <1>2, <1>3, <1>4 DEF Fine, ViewsInv, ViewersFit, Fits, k
<1>6. \A d \in listed : d \in Conns /\ ipc'.token[conn[d].token] # "none"
  BY <1>2 DEF ViewsInv, ViewersFit, Fits, MessengerInv, MessengerTyped
<1>7. \A d \in Conns : d # c => (Fine(d)' <=> Fine(d))
  BY <1>2, <1>3 DEF Fine
<1>8. conn[c].phase \notin Early => conn[c].phase = "auth"
  BY <1>3 DEF Early
<1> QED
  BY <1>2, <1>3, <1>4, <1>5, <1>6, <1>7, <1>8, NothingToTell DEF k

\* The connection of a persona's token becomes a duplicate, or waits, or fails to log in.
LEMMA NobodyRegisters ==
    ASSUME MessengerInv, ViewsInv, NEW c \in Conns, NEW k \in ConnRecord, 
           conn[c].phase \in Early, conn' = [conn EXCEPT ![c] = k],
           k.ready = conn[c].ready, k.show = conn[c].show, k.muted = conn[c].muted, k.stage = conn[c].stage,
           UNCHANGED <<ipc, errand, Messenger!service, seen, trail>>
    PROVE  ViewsInv'
<1>1. c \notin listed /\ conn \in [Conns -> ConnRecord]
  BY DEF MessengerInv, MessengerTyped, Phases, Registered, Early
<1>2. conn'[c] = k /\ \A d \in Conns : d # c => conn'[d] = conn[d] 
  BY <1>1
<1>3. \A d \in listed : d \in Conns /\ d # c /\ ipc'.token[conn[d].token] # "none"
  BY <1>1 DEF ViewsInv, ViewersFit, Fits, MessengerInv, MessengerTyped
<1>4. \A d \in Conns : d # c => (Fine(d)' <=> Fine(d))
  BY <1>2 DEF Fine
<1> QED
  BY <1>1, <1>2, <1>3, <1>4, NothingToTell DEF Messenger!service

LEMMA InvitationViews ==
    ASSUME MessengerInv, ViewsInv, NEW c \in Conns,
           \/ Messenger!AfterSend(c) \/ Messenger!PollInvite(c) \/ Messenger!ReleaseCompletion(c)
           \/ \E p \in Speakers :
                 \/ Messenger!Invite(c, p) \/ Messenger!Revoke(c, p)
                 \/ \E accepted \in BOOLEAN : Messenger!Respond(c, p, accepted)
    PROVE  ViewsInv'
<1>1. /\ UNCHANGED <<ipc, conn, listed, channel, shared, seen>>
      /\ trail'.overlap = trail.overlap /\ trail'.crossed = trail.crossed
  BY DEF Messenger!AfterSend, Messenger!PollInvite, Messenger!ReleaseCompletion,
         Messenger!Invite, Messenger!Revoke, Messenger!Respond, Messenger!service, MessengerInv, MessengerTyped, TrailRecord
<1>2. \/ errand' = errand
      \/ /\ \A d \in Conns : d # c => errand'[d] = errand[d]
         /\ errand[c].kind \notin {"push", "reply"} /\ errand'[c].kind \notin {"push", "reply"}
  <2>1. errand \in [Conns -> ErrandRecord]
    BY DEF MessengerInv, MessengerTyped
  <2>2. CASE Messenger!AfterSend(c)
    <3> DEFINE pop == [kind |-> "pop", about |-> errand[c].about, sees |-> "unknown",
                       to |-> {armed[errand[c].about]}]
    <3>1. pop.kind = "pop" /\ Messenger!Idle.kind = "none"
      BY DEF Messenger!Idle
    <3>2. /\ errand[c].kind = "deferred"
          /\ errand' = [errand EXCEPT ![c] = IF Messenger!Ready(errand[c].about) /\ conn[c].phase = "auth"
                                             THEN pop ELSE Messenger!Idle]
      BY <2>2 DEF Messenger!AfterSend
    <3> HIDE DEF pop
    <3> QED
      BY <2>1, <3>1, <3>2
  <2>5. CASE Messenger!ReleaseCompletion(c)
    <3>1. errand[c].kind = "pop" /\ errand' = [errand EXCEPT ![c] = Messenger!Idle] /\ Messenger!Idle.kind = "none"
      BY <2>5 DEF Messenger!ReleaseCompletion, Messenger!Idle
    <3> QED
      BY <2>1, <3>1
  <2>3. CASE Messenger!PollInvite(c)
    <3> DEFINE pop == [kind |-> "pop", about |-> Messenger!Who(c), sees |-> "unknown",
                       to |-> {armed[Messenger!Who(c)]}]
    <3>1. pop.kind = "pop" /\ errand[c] = Messenger!Idle /\ Messenger!Idle.kind = "none"
      BY <2>3 DEF Messenger!PollInvite, Messenger!Serves, Messenger!Reads, Messenger!Idle
    <3>2. errand' = [errand EXCEPT ![c] = pop]
      BY <2>3 DEF Messenger!PollInvite
    <3> HIDE DEF pop
    <3> QED
      BY <2>1, <3>1, <3>2
  <2>6. ASSUME NEW p \in Speakers, Messenger!Revoke(c, p)
        PROVE  /\ \A d \in Conns : d # c => errand'[d] = errand[d]
               /\ errand[c].kind \notin {"push", "reply"} /\ errand'[c].kind \notin {"push", "reply"}
    <3> DEFINE noted == [Messenger!Idle EXCEPT !.kind = "deferred", !.about = p]
    <3>1. noted.kind = "deferred" /\ errand[c] = Messenger!Idle /\ Messenger!Idle.kind = "none"
      BY <2>6 DEF Messenger!Revoke, Messenger!Serves, Messenger!Reads, Messenger!Idle
    <3>2. errand' = [errand EXCEPT ![c] = noted]
      BY <2>6 DEF Messenger!Revoke
    <3> HIDE DEF noted
    <3> QED
      BY <2>1, <3>1, <3>2
  <2>4. CASE \E p \in Speakers : Messenger!Invite(c, p) \/ \E accepted \in BOOLEAN : Messenger!Respond(c, p, accepted)
    BY <2>4 DEF Messenger!Invite, Messenger!Respond
  <2> QED
    BY <2>2, <2>3, <2>4, <2>5, <2>6
<1>3. \A k \in listed : k \in Conns /\ ipc'.token[conn[k].token] # "none" 
  BY <1>1 DEF ViewsInv, ViewersFit, Fits, MessengerInv, MessengerTyped
<1>4. \A k \in Conns : Fine(k)' <=> Fine(k)
  BY <1>1 DEF Fine
<1>5. \A k \in Conns :
         \/ errand'[k] = errand[k]
         \/ errand'[k].kind \notin {"push", "reply"} /\ errand[k].kind \notin {"push", "reply"}
  BY <1>2
<1>6. \A k \in Conns :
              /\ k \in listed =>
                    /\ conn'[k].token = conn[k].token /\ conn'[k].ready = conn[k].ready
                    /\ conn'[k].show = conn[k].show
                    /\ ipc'.token[conn[k].token] # "none"
                    /\ Fine(k)' => Fine(k)
                    /\ conn'[k].phase = "auth" => conn[k].phase = "auth"
              /\ conn'[k].phase \in Early =>
                    /\ conn[k].phase \in Early
                    /\ conn'[k].ready = conn[k].ready /\ conn'[k].stage = conn[k].stage
              /\ conn[k].phase \notin Early => conn'[k].token = conn[k].token
              /\ conn'[k].phase \in Early => conn[k].phase \in Early
              /\ conn'[k].muted = conn[k].muted
              /\ \/ errand'[k] = errand[k]
                 \/ errand'[k].kind \notin {"push", "reply"} /\ errand[k].kind \notin {"push", "reply"}
  BY <1>1, <1>3, <1>4, <1>5
<1> QED
  BY <1>1, <1>6, NothingToTell

\* What was up to date stays so where nothing changes.
LEMMA SameView ==
    ASSUME NEW v, NEW p, Counted(v, p) => UpToDate(v, p),
           Messenger!ListedOf(p)' = Messenger!ListedOf(p), shared'[p] = shared[p],
           \A k \in Messenger!ListedOf(p) : /\ conn'[k].ready = conn[k].ready /\ conn'[k].show = conn[k].show
                                            /\ Fine(k)' => Fine(k),
           Fine(v)' => Fine(v), conn'[v].phase = "auth" => conn[v].phase = "auth",
           Comes(v, p) => Comes(v, p)',
           p \in trail.overlap => p \in trail'.overlap,
           <<v, p>> \in trail.crossed => <<v, p>> \in trail'.crossed,
           Replies(v, p)' <=> Replies(v, p), Replies(v, p) => errand'[v] = errand[v],
           seen'[v][p] = seen[v][p]
    PROVE  Counted(v, p)' => UpToDate(v, p)'
<1> SUFFICES ASSUME Counted(v, p)'
             PROVE  UpToDate(v, p)'
  OBVIOUS
<1>1. \A k \in Messenger!ListedOf(p) : Fine(k) /\ Fine(k)'
  BY DEF Counted
<1>2. UpToDate(v, p)
  BY <1>1 DEF Counted
<1>3. Messenger!Shown(p) = Online(p) /\ Messenger!Shown(p)' = Online(p)'
  BY <1>1, ShownIfFine
<1>4. Online(p)' = Online(p)
  BY DEF Online
<1> QED
  BY <1>2, <1>3, <1>4 DEF UpToDate

\* So does who tells.
LEMMA SameSource ==
    ASSUME NEW p, Source(p), Messenger!ListedOf(p)' = Messenger!ListedOf(p),
           shared'[p] = shared[p],
           \A k \in Messenger!ListedOf(p) : conn'[k].ready = conn[k].ready /\ conn'[k].show = conn[k].show,
           \A d \in Conns : Pushes(d, p)' => /\ Pushes(d, p) /\ errand'[d].sees = errand[d].sees
                                             /\ (d \in listed' <=> d \in listed)
    PROVE  Source(p)'
<1>1. ASSUME NEW d \in Conns, Pushes(d, p)'
      PROVE  Tells(d, p)'
  <2>1. Tells(d, p) /\ errand'[d].sees = errand[d].sees /\ (d \in listed' <=> d \in listed)
    BY <1>1 DEF Source
  <2> QED
    BY <2>1 DEF Tells
<1> QED
  BY <1>1 DEF Source

LEMMA RegisterViews ==
    ASSUME Messenger!PersonaOfAssumption, MessengerInv, ViewsInv, NEW c \in Conns,
           NEW t \in Tokens,
           errand[c] = Messenger!Idle, conn[c].phase \in Early, Messenger!Register(c, t),
           UNCHANGED <<ipc, room, errand, seen>>
    PROVE  ViewsInv'
<1> DEFINE p == PersonaOf[t]
           k == conn'[c]
<1>1. /\ conn[c] \in ConnRecord /\ conn \in [Conns -> ConnRecord] /\ c \notin listed
      /\ shared \in [Speakers -> {"CHAT", "DISC", "AWAY"}]
      /\ p \in Speakers /\ listed \in SUBSET Conns /\ channel \in SUBSET listed
      /\ trail \in TrailRecord
  BY DEF MessengerInv, MessengerTyped, Phases, Registered, Early, Messenger!PersonaOfAssumption
<1>2. /\ conn' = [conn EXCEPT ![c] = k]
      /\ k.phase = "auth" /\ k.token = t /\ k.ready = conn[c].ready /\ k.show = conn[c].show
      /\ k.muted = conn[c].muted /\ k.forced = conn[c].forced /\ k.stage = conn[c].stage
  BY <1>1 DEF Messenger!Register, ConnRecord
<1>3. /\ listed' = listed \union {c} /\ channel' \subseteq channel \union {c}
      /\ \A q \in Speakers : q # p => shared'[q] = shared[q]
      /\ trail'.crossed = trail.crossed
      /\ \A q \in trail.overlap : q \in trail'.overlap
      /\ p \notin trail'.overlap => Messenger!ListedOf(p) = {} /\ \A d \in Conns : ~Pushes(d, p)
      /\ ipc.token[t] = "live"
  <2>1. trail' = [trail EXCEPT !.wrote[p] = c,
                         !.overlap = IF \/ Messenger!ListedOf(p) # {}
                                        \/ \E d \in Conns : errand[d].kind = "push" /\ errand[d].about = p
                                     THEN trail.overlap \union {p} ELSE trail.overlap]
    BY DEF Messenger!Register
  <2>2. /\ trail'.crossed = trail.crossed
        /\ trail'.overlap = IF \/ Messenger!ListedOf(p) # {}
                                                 \/ \E d \in Conns : errand[d].kind = "push" /\ errand[d].about = p
                                              THEN trail.overlap \union {p} ELSE trail.overlap
    BY <2>1, <1>1 DEF TrailRecord
  <2>3. shared' = [shared EXCEPT ![p] = conn[c].show]
    BY DEF Messenger!Register
  <2>4. listed' = listed \union {c} /\ channel' \subseteq channel \union {c} /\ ipc.token[t] = "live"
    BY DEF Messenger!Register, Messenger!ControlRegistered, Messenger!Known
  <2> HIDE DEF p, k
  <2> QED
    BY <2>2, <2>3, <2>4, <1>1 DEF Pushes
<1> HIDE DEF k
<1>4. /\ \A d \in Conns : d # c => conn'[d] = conn[d] /\ Messenger!Who(d)' = Messenger!Who(d) /\ (Fine(d)' <=> Fine(d))
      /\ Messenger!Who(c)' = p /\ conn'[c] = k
  BY <1>1, <1>2 DEF Messenger!Who, Fine
<1>5. /\ \A q \in Speakers : q # p => Messenger!ListedOf(q)' = Messenger!ListedOf(q)
      /\ Messenger!ListedOf(p) = {} => Messenger!ListedOf(p)' = {c}
  BY <1>1, <1>3, <1>4 DEF Messenger!ListedOf
<1>6. /\ ~conn[c].ready /\ conn[c].stage = "none" /\ ~conn[c].forced
      /\ \A q \in Speakers : seen[c][q] = "unknown" /\ ~Replies(c, q) /\ ~Pushes(c, q)
      /\ \A d \in Conns : ~(errand[d].kind = "push" /\ c \in errand[d].to)
  BY DEF ViewsInv, ViewersFit, Fits, MessengerInv, Phases, SoundConn, Messenger!Idle, Replies,
         Pushes
<1>7. Fine(c)'
  BY <1>2, <1>3, <1>6, <1>4 DEF Fine
<1>8. \A d \in Conns : \A q : (Pushes(d, q)' <=> Pushes(d, q)) /\ (Replies(d, q)' <=> Replies(d, q))
  BY DEF Pushes, Replies
<1> HIDE DEF p
<1>9. OneSource'
  <2> SUFFICES ASSUME NEW q \in Speakers, q \notin trail'.overlap
               PROVE  Source(q)'
    BY DEF OneSource
  <2>1. CASE q # p
    <3>1. Source(q)
      BY <1>3 DEF ViewsInv, OneSource
    <3>2. \A d \in Conns : Pushes(d, q)' => /\ Pushes(d, q) /\ errand'[d].sees = errand[d].sees
                                             /\ (d \in listed' <=> d \in listed)
      BY <1>3, <1>6, <1>8
    <3>3. \A d \in Messenger!ListedOf(q) : d \in Conns /\ d # c
      BY <1>1 DEF Messenger!ListedOf
    <3> QED
      BY <2>1, <3>1, <3>2, <3>3, <1>3, <1>4, <1>5, SameSource
  <2>2. CASE q = p
    BY <2>2, <1>3, <1>5, <1>8 DEF Source
  <2> QED
    BY <2>1, <2>2
<1>10. ViewersFit'
  <2> SUFFICES ASSUME NEW v \in Conns
               PROVE  /\ conn'[v].phase \in Early =>
                            /\ ~conn'[v].ready /\ conn'[v].stage = "none"
                            /\ \A q \in Speakers : seen'[v][q] = "unknown"
                      /\ v \in listed' => ipc'.token[conn'[v].token] # "none"
                      /\ \A q \in Speakers :
                            q \in conn'[v].muted \/ (v \in listed' /\ q = Messenger!Who(v)') =>
                               seen'[v][q] = "unknown" /\ ~Replies(v, q)'
                      /\ \A d \in Conns : errand'[d].kind = "push" /\ v \in errand'[d].to =>
                            conn'[v].phase \notin Early /\ Messenger!Who(v)' # errand'[d].about
    BY DEF ViewersFit, Fits
  <2>1. CASE v = c
    BY <2>1, <1>2, <1>3, <1>4, <1>6, <1>8 DEF Early
  <2>2. CASE v # c
    BY <2>2, <1>3, <1>4, <1>8 DEF ViewsInv, ViewersFit, Fits
  <2> QED
    BY <2>1, <2>2
<1>11. Current'
  <2> SUFFICES ASSUME NEW v \in channel', NEW q \in Speakers
               PROVE  Counted(v, q)' => UpToDate(v, q)'
    BY DEF Current
  <2>1. CASE v = c
    BY <2>1, <1>6, <1>8 DEF UpToDate
  <2>2. CASE v # c
    <3>1. v \in channel /\ v \in Conns /\ (Counted(v, q) => UpToDate(v, q))
      BY <2>2, <1>1, <1>3 DEF ViewsInv, Current
    <3>2. Comes(v, q)' <=> Comes(v, q)
      BY <1>8 DEF Comes
    <3>3. CASE q # p
      <4>1. \A d \in Messenger!ListedOf(q) : d \in Conns /\ d # c
        BY <1>1 DEF Messenger!ListedOf
      <4> QED
        BY <2>2, <3>1, <3>2, <3>3, <4>1, <1>3, <1>4, <1>5, <1>8, SameView
    <3>4. CASE q = p
      <4> SUFFICES ASSUME Counted(v, p)'
                   PROVE  UpToDate(v, p)'
        BY <3>4
      <4>1. Messenger!ListedOf(p) = {} /\ p \notin trail.overlap
        BY <1>3 DEF Counted
      <4>2. Counted(v, p)
        BY <4>1, <3>1, <3>2, <3>4, <2>2, <1>3, <1>4 DEF Counted
      <4>3. Messenger!Shown(p) = "off"
        BY <4>1 DEF Messenger!Shown
      <4>4. Messenger!ListedOf(p)' = {c} /\ Online(p)' = "off"
        BY <4>1, <1>2, <1>4, <1>5, <1>6 DEF Online
      <4>5. Messenger!Shown(p)' = "off"
        BY <4>4, <1>7, ShownIfFine
      <4> QED
        BY <3>1, <3>4, <4>2, <4>3, <4>5, <1>8 DEF UpToDate
    <3> QED
      BY <3>3, <3>4
  <2> QED
    BY <2>1, <2>2
<1> QED
  BY <1>9, <1>10, <1>11 DEF ViewsInv

LEMMA AuthViews ==
    ASSUME Messenger!PersonaOfAssumption, MessengerInv, ViewsInv, NEW c \in Conns,
           (\E t \in Tokens : Messenger!Auth(c, t)) \/ Messenger!PollPendingAuth(c)
    PROVE  ViewsInv'
<1>1. PICK t \in Tokens : Messenger!Auth(c, t) \/ (Messenger!PollPendingAuth(c) /\ t = conn[c].token)
  BY DEF Messenger!PollPendingAuth, MessengerInv, MessengerTyped, Phases, SoundConn, ConnRecord
<1>2. /\ errand[c] = Messenger!Idle /\ conn[c].phase \in Early /\ UNCHANGED <<ipc, room, errand, seen>>
      /\ \/ Messenger!BeginForcedLogoff(c, t)
         \/ Messenger!Register(c, t)
         \/ /\ conn' = [conn EXCEPT ![c].phase = "waiting", ![c].token = t]
            /\ UNCHANGED <<Messenger!service, trail>>
         \/ /\ conn' = [conn EXCEPT ![c].phase = "open", ![c].token = None]
            /\ UNCHANGED <<Messenger!service, trail>>
  BY <1>1 DEF Messenger!Auth, Messenger!PollPendingAuth, Messenger!Reads, Early
<1>3. conn[c] \in ConnRecord /\ conn \in [Conns -> ConnRecord]
  BY DEF MessengerInv, MessengerTyped
<1>4. CASE Messenger!Register(c, t)
  BY <1>2, <1>4, RegisterViews
<1>5. CASE Messenger!BeginForcedLogoff(c, t)
  <2> DEFINE k == [conn[c] EXCEPT !.phase = "auth", !.token = t, !.forced = TRUE]
  <2>1. /\ k \in ConnRecord /\ k.ready = conn[c].ready /\ k.show = conn[c].show
        /\ k.muted = conn[c].muted /\ k.stage = conn[c].stage
    BY <1>3 DEF ConnRecord, ConnPhases
  <2>2. conn' = [conn EXCEPT ![c] = k] /\ UNCHANGED <<Messenger!service, trail>>
    BY <1>5, <1>3 DEF Messenger!BeginForcedLogoff
  <2> HIDE DEF k
  <2> QED
    BY <1>2, <2>1, <2>2, NobodyRegisters
<1>6. ASSUME NEW ph \in {"waiting", "open"}, NEW u \in Tokens \union {None},
             conn' = [conn EXCEPT ![c].phase = ph, ![c].token = u], UNCHANGED <<Messenger!service, trail>>
      PROVE  ViewsInv'
  <2> DEFINE k == [conn[c] EXCEPT !.phase = ph, !.token = u]
  <2>1. /\ k \in ConnRecord /\ k.ready = conn[c].ready /\ k.show = conn[c].show
        /\ k.muted = conn[c].muted /\ k.stage = conn[c].stage
    BY <1>3 DEF ConnRecord, ConnPhases
  <2>2. conn' = [conn EXCEPT ![c] = k]
    BY <1>6, <1>3
  <2> HIDE DEF k
  <2> QED
    BY <1>2, <1>6, <2>1, <2>2, NobodyRegisters
<1> QED
  BY <1>2, <1>4, <1>5, <1>6

\* What the jobs are once a thread without a push begins one.
LEMMA WhoTells ==
    ASSUME errand \in [Conns -> ErrandRecord], NEW c \in Conns, NEW p \in Speakers, NEW sees,
           errand[c].kind \notin {"push", "reply"}, errand' = Messenger!Notifies(c, p, sees, Messenger!Viewers(p))
    PROVE  /\ \A d \in Conns : d # c => errand'[d] = errand[d]
           /\ errand'[c].kind \notin {"reply"}
           /\ errand'[c].kind = "push" =>
                    errand'[c].about = p /\ errand'[c].sees = sees /\ errand'[c].to = Messenger!Viewers(p)
           /\ \A q : \A d \in Conns : Replies(d, q)' <=> Replies(d, q)
           /\ \A q : \A d \in Conns : Pushes(d, q)' => (d # c /\ Pushes(d, q)) \/ (d = c /\ q = p)
           /\ \A q : \A v : q # p => (Comes(v, q) => Comes(v, q)')
           /\ \A v \in Messenger!Viewers(p) : Comes(v, p)'
<1> DEFINE push == [kind |-> "push", about |-> p, sees |-> sees, to |-> Messenger!Viewers(p)]
           j == IF Messenger!Viewers(p) = {} THEN Messenger!Idle ELSE push
<1>1. errand' = [errand EXCEPT ![c] = j]
  BY DEF Messenger!Notifies
<1>2. /\ j.kind = IF Messenger!Viewers(p) = {} THEN "none" ELSE "push"
      /\ Messenger!Viewers(p) # {} => j.about = p /\ j.sees = sees /\ j.to = Messenger!Viewers(p)
  BY DEF Messenger!Idle
<1> HIDE DEF j
<1>3. errand'[c] = j /\ \A d \in Conns : d # c => errand'[d] = errand[d]
  BY <1>1
<1>4. \A q : \A d \in Conns : Replies(d, q)' <=> Replies(d, q)
  BY <1>2, <1>3 DEF Replies
<1>5. \A q : \A d \in Conns : Pushes(d, q)' => (d # c /\ Pushes(d, q)) \/ (d = c /\ q = p)
  BY <1>2, <1>3 DEF Pushes
<1>6. ASSUME NEW q, NEW v, q # p, Comes(v, q)
      PROVE  Comes(v, q)'
  <2>1. PICK d \in Conns : Pushes(d, q) /\ v \in errand[d].to
    BY <1>6 DEF Comes
  <2>2. d # c
    BY <2>1 DEF Pushes
  <2> QED
    BY <2>1, <2>2, <1>3 DEF Comes, Pushes
<1>7. ASSUME NEW v \in Messenger!Viewers(p)
      PROVE  Comes(v, p)'
  BY <1>2, <1>3 DEF Comes, Pushes
<1> QED
  BY <1>2, <1>3, <1>4, <1>5, <1>6, <1>7

\* The only thread that may tell of a persona with one connection is that connection's.
LEMMA NobodyElseTells ==
    ASSUME ViewsInv, NEW p \in Speakers, NEW c \in Conns, c \in Messenger!ListedOf(p),
           p \notin trail.overlap
    PROVE  Messenger!ListedOf(p) = {c} /\ \A d \in Conns : Pushes(d, p) => d = c
BY DEF ViewsInv, OneSource, Source, Tells

LEMMA PresenceSetViews ==
    ASSUME Messenger!PersonaOfAssumption, MessengerInv, ViewsInv, NEW c \in Conns,
           NEW show \in {"CHAT", "DISC"}, Messenger!PresenceSet(c, show)
    PROVE  ViewsInv'
<1>1. /\ conn[c] \in ConnRecord /\ SoundConn(conn[c]) /\ conn \in [Conns -> ConnRecord]
      /\ errand \in [Conns -> ErrandRecord] /\ errand[c] = Messenger!Idle
      /\ conn[c].phase = "auth" /\ ~conn[c].forced
      /\ listed \in SUBSET Conns /\ channel \in SUBSET listed /\ trail \in TrailRecord
      /\ shared \in [Speakers -> {"CHAT", "DISC", "AWAY"}]
  BY DEF MessengerInv, MessengerTyped, Phases, Messenger!PresenceSet, Messenger!Serves,
         Messenger!Reads
<1>2. conn[c].token # None /\ Messenger!Who(c) \in Speakers /\ c \in listed
  <2>1. conn[c].token # None
    BY <1>1 DEF SoundConn
  <2> QED
    BY <2>1, <1>1, WhoIsAPersona DEF MessengerInv, Phases, Registered
<1>15. PICK p \in Speakers : p = Messenger!Who(c)
  BY <1>2
<1>16. PICK sees : sees = IF show # "DISC" /\ ~Messenger!AppearsOffline(p)' THEN "on" ELSE "off"
  OBVIOUS
<1>17. conn'[c].token = conn[c].token
  BY <1>1 DEF Messenger!PresenceSet, ConnRecord
<1>3. /\ UNCHANGED <<ipc, listed, channel, seen>>
      /\ conn' = [conn EXCEPT ![c].show = show, ![c].ready = TRUE]
      /\ shared' = [shared EXCEPT ![p] = show]
      /\ trail' = [trail EXCEPT !.wrote[p] = c]
      /\ errand' = Messenger!Notifies(c, p, sees, Messenger!Viewers(p))
  <2>1. Messenger!AppearsOffline(Messenger!Who(c))' <=> Messenger!AppearsOffline(p)'
    BY <1>15, <1>17 DEF Messenger!AppearsOffline, Messenger!Who
  <2>2. /\ UNCHANGED <<ipc, listed, channel, seen>>
        /\ conn' = [conn EXCEPT ![c].show = show, ![c].ready = TRUE]
        /\ shared' = [shared EXCEPT ![Messenger!Who(c)] = show]
        /\ trail' = [trail EXCEPT !.wrote[Messenger!Who(c)] = c]
        /\ errand' = Messenger!Notifies(c, Messenger!Who(c), IF show # "DISC" /\ ~Messenger!AppearsOffline(Messenger!Who(c))' THEN "on" ELSE "off",
                                        Messenger!Viewers(Messenger!Who(c)))
    BY DEF Messenger!PresenceSet
  <2> QED
    BY <1>15, <1>16, <2>1, <2>2
<1>4. trail'.overlap = trail.overlap /\ trail'.crossed = trail.crossed
  BY <1>1, <1>3 DEF TrailRecord
<1>5. /\ \A d \in Conns : d # c => conn'[d] = conn[d]
      /\ conn'[c].show = show /\ conn'[c].ready
      /\ \A d \in Conns : /\ conn'[d].phase = conn[d].phase /\ conn'[d].token = conn[d].token
                          /\ conn'[d].forced = conn[d].forced /\ conn'[d].stage = conn[d].stage
                          /\ conn'[d].muted = conn[d].muted
  BY <1>1, <1>3 DEF ConnRecord
<1>6. \A d \in Conns : (Fine(d)' <=> Fine(d)) /\ Messenger!Who(d)' = Messenger!Who(d)
  BY <1>3, <1>5 DEF Fine, Messenger!Who
<1>7. c \in Messenger!ListedOf(p) /\ \A q : Messenger!ListedOf(q)' = Messenger!ListedOf(q) /\ Messenger!ListedOf(q) \subseteq Conns
  <2>1. \A d \in listed : Messenger!Who(d)' = Messenger!Who(d)
    BY <1>1, <1>6
  <2> QED
    BY <2>1, <1>1, <1>2, <1>3, <1>15 DEF Messenger!ListedOf
<1>8. errand[c].kind \notin {"push", "reply"}
  BY <1>1 DEF Messenger!Idle
<1>9. /\ \A d \in Conns : d # c => errand'[d] = errand[d]
      /\ errand'[c].kind # "reply"
      /\ errand'[c].kind = "push" =>
               errand'[c].about = p /\ errand'[c].sees = sees /\ errand'[c].to = Messenger!Viewers(p)
      /\ \A q : \A d \in Conns : Replies(d, q)' <=> Replies(d, q)
      /\ \A q : \A d \in Conns : Pushes(d, q)' => (d # c /\ Pushes(d, q)) \/ (d = c /\ q = p)
      /\ \A q : \A v : q # p => (Comes(v, q) => Comes(v, q)')
      /\ \A v \in Messenger!Viewers(p) : Comes(v, p)'
  <2> QED
    BY <1>1, <1>3, <1>8, WhoTells
<1>10. \A v \in Messenger!Viewers(p) : v \in Conns /\ conn[v].phase \notin Early /\ Messenger!Who(v) # p
  BY <1>1 DEF Messenger!Viewers, MessengerInv, Phases, Registered, Early
<1>11. \A q \in Speakers : q # p => shared'[q] = shared[q]
  BY <1>1, <1>3
<1>12. OneSource'
  <2> SUFFICES ASSUME NEW q \in Speakers, q \notin trail'.overlap
               PROVE  Source(q)'
    BY DEF OneSource
  <2>1. CASE q # p
    <3>1. Source(q)
      BY <1>4 DEF ViewsInv, OneSource
    <3>2. \A d \in Conns : Pushes(d, q)' => /\ Pushes(d, q) /\ errand'[d].sees = errand[d].sees
                                            /\ (d \in listed' <=> d \in listed)
      BY <2>1, <1>3, <1>9
    <3>3. \A d \in Messenger!ListedOf(q) : d \in Conns /\ d # c
      BY <2>1, <1>7 DEF Messenger!ListedOf
    <3> QED
      BY <2>1, <3>1, <3>2, <3>3, <1>5, <1>7, <1>11, SameSource
  <2>2. CASE q = p
    <3>1. Messenger!ListedOf(p) = {c} /\ \A d \in Conns : Pushes(d, p) => d = c
      BY <2>2, <1>2, <1>4, <1>7, NobodyElseTells
    <3>2. \A d \in Conns : Pushes(d, p)' => d = c
      BY <3>1, <1>9
    <3>3. ASSUME Pushes(c, p)'
          PROVE  Tells(c, p)'
      <4>1. errand'[c].sees = sees
        BY <3>3, <1>9 DEF Pushes
      <4>2. Messenger!ListedOf(p)' = {c} /\ conn'[c].ready /\ shared'[p] = conn'[c].show /\ c \in listed'
        BY <3>1, <1>1, <1>2, <1>3, <1>5, <1>7
      <4>3. Messenger!AppearsOffline(p)' => show = "DISC"
        BY <4>2, <1>5 DEF Messenger!AppearsOffline
      <4>4. sees = IF show = "DISC" THEN "off" ELSE "on"
        BY <4>3, <1>16
      <4> QED
        BY <4>1, <4>2, <4>4, <1>5 DEF Tells
    <3>4. Messenger!ListedOf(p)' = {c}
      BY <3>1, <1>7
    <3> QED
      BY <2>2, <3>2, <3>3, <3>4 DEF Source
  <2> QED
    BY <2>1, <2>2
<1>13. ViewersFit'
  <2> SUFFICES ASSUME NEW v \in Conns
               PROVE  /\ conn'[v].phase \in Early =>
                            /\ ~conn'[v].ready /\ conn'[v].stage = "none"
                            /\ \A q \in Speakers : seen'[v][q] = "unknown"
                      /\ v \in listed' => ipc'.token[conn'[v].token] # "none"
                      /\ \A q \in Speakers :
                            q \in conn'[v].muted \/ (v \in listed' /\ q = Messenger!Who(v)') =>
                               seen'[v][q] = "unknown" /\ ~Replies(v, q)'
                      /\ \A d \in Conns : errand'[d].kind = "push" /\ v \in errand'[d].to =>
                            conn'[v].phase \notin Early /\ Messenger!Who(v)' # errand'[d].about
    BY DEF ViewersFit, Fits
  <2>1. conn'[v].phase \in Early =>
                            /\ ~conn'[v].ready /\ conn'[v].stage = "none"
                            /\ \A q \in Speakers : seen'[v][q] = "unknown"
    BY <1>1, <1>3, <1>5 DEF ViewsInv, ViewersFit, Fits, Early
  <2>2. v \in listed' => ipc'.token[conn'[v].token] # "none"
    <3>1. v \in listed => ipc.token[conn[v].token] # "none"
      BY DEF ViewsInv, ViewersFit, Fits
    <3>2. conn'[v].token = conn[v].token
      BY <1>5
    <3> QED
      BY <3>1, <3>2, <1>3
  <2>3. \A q \in Speakers : q \in conn'[v].muted \/ (v \in listed' /\ q = Messenger!Who(v)') =>
                               seen'[v][q] = "unknown" /\ ~Replies(v, q)'
    BY <1>3, <1>5, <1>6, <1>9 DEF ViewsInv, ViewersFit, Fits
  <2>4. ASSUME NEW d \in Conns, errand'[d].kind = "push", v \in errand'[d].to
        PROVE  conn'[v].phase \notin Early /\ Messenger!Who(v)' # errand'[d].about
    <3>1. CASE d = c
      BY <2>4, <3>1, <1>5, <1>6, <1>9, <1>10
    <3>2. CASE d # c
      BY <2>4, <3>2, <1>5, <1>6, <1>9 DEF ViewsInv, ViewersFit, Fits
    <3> QED
      BY <3>1, <3>2
  <2> QED
    BY <2>1, <2>2, <2>3, <2>4
<1>14. Current'
  <2> SUFFICES ASSUME NEW v \in channel, NEW q \in Speakers
               PROVE  Counted(v, q)' => UpToDate(v, q)'
    BY <1>3 DEF Current
  <2>1. v \in Conns /\ v \in listed /\ (Counted(v, q) => UpToDate(v, q))
    BY <1>1 DEF ViewsInv, Current
  <2>2. CASE q # p
    <3>1. Replies(v, q) => errand'[v] = errand[v]
      BY <2>1, <1>8, <1>9 DEF Replies
    <3>2. \A d \in Messenger!ListedOf(q) : d \in Conns /\ d # c
      BY <2>2, <1>7 DEF Messenger!ListedOf
    <3> QED
      BY <2>1, <2>2, <3>1, <3>2, <1>3, <1>4, <1>5, <1>6, <1>7, <1>9, <1>11, SameView
  <2>3. CASE q = p /\ Messenger!Who(v) = p
    <3>1. seen'[v][q] = "unknown" /\ ~Replies(v, q)'
      BY <2>1, <2>3, <1>3, <1>6, <1>13 DEF ViewersFit, Fits
    <3> QED
      BY <3>1 DEF UpToDate
  <2>4. CASE q = p /\ Messenger!Who(v) # p
    <3>1. v \in Messenger!Viewers(p)
      BY <2>4 DEF Messenger!Viewers
    <3> QED
      BY <2>4, <3>1, <1>9 DEF Counted
  <2> QED
    BY <2>2, <2>3, <2>4
<1> QED
  BY <1>12, <1>13, <1>14 DEF ViewsInv

LEMMA DeliverViews ==
    ASSUME MessengerInv, ViewsInv, NEW c \in Conns, NEW v \in Conns, Messenger!Deliver(c, v)
    PROVE  ViewsInv'
<1>1. /\ errand \in [Conns -> ErrandRecord] /\ SoundJob(errand[c]) /\ conn \in [Conns -> ConnRecord]
      /\ listed \in SUBSET Conns /\ channel \in SUBSET listed /\ trail \in TrailRecord
      /\ seen \in [Conns -> [Speakers -> Messenger!Sees]]
  BY DEF MessengerInv, MessengerTyped
<1>2. PICK p \in Speakers : p = errand[c].about
  BY <1>1 DEF Messenger!Deliver, SoundJob
<1>3. /\ errand[c].kind = "push" /\ v \in errand[c].to
      /\ UNCHANGED <<ipc, room, conn, Messenger!service>>
      /\ seen' = [seen EXCEPT ![v][p] = Messenger!Sent(v, p, errand[c].sees)]
  BY <1>2 DEF Messenger!Deliver
<1>4. UNCHANGED <<ipc, conn, listed, channel, shared>>
  BY <1>3 DEF Messenger!service
<1>5. /\ \A d \in Conns : d # c => errand'[d] = errand[d]
      /\ errand'[c].kind \in {"none", "push"}
      /\ errand'[c].kind = "push" => errand'[c].about = p /\ errand'[c].sees = errand[c].sees
                                     /\ errand'[c].to = errand[c].to \ {v}
      /\ errand'[c].kind = "none" => errand[c].to = {v}
  <2> DEFINE j == IF errand[c].to = {v} THEN Messenger!Idle ELSE [errand[c] EXCEPT !.to = errand[c].to \ {v}]
  <2>1. errand' = [errand EXCEPT ![c] = j]
    BY DEF Messenger!Deliver
  <2>2. /\ j.kind = IF errand[c].to = {v} THEN "none" ELSE "push"
        /\ errand[c].to # {v} => j.about = p /\ j.sees = errand[c].sees /\ j.to = errand[c].to \ {v}
    BY <1>1, <1>2, <1>3 DEF Messenger!Idle, ErrandRecord
  <2> HIDE DEF j
  <2> QED
    BY <1>1, <2>1, <2>2
<1>6. /\ trail'.overlap = trail.overlap
      /\ trail.crossed \subseteq trail'.crossed
      /\ Replies(v, p) => <<v, p>> \in trail'.crossed
  <2>1. trail' = [trail EXCEPT !.crossed = IF errand[v].kind = "reply" /\ errand[v].about = p
                                          THEN trail.crossed \union {<<v, p>>} ELSE trail.crossed]
    BY <1>2 DEF Messenger!Deliver
  <2> QED
    BY <2>1, <1>1 DEF TrailRecord, Replies
<1>7. /\ \A q : Messenger!ListedOf(q)' = Messenger!ListedOf(q)
      /\ \A d : (Fine(d)' <=> Fine(d)) /\ Messenger!Who(d)' = Messenger!Who(d)
  BY <1>4 DEF Messenger!ListedOf, Messenger!Who, Fine
<1>8. /\ \A q : \A d \in Conns : Pushes(d, q)' => Pushes(d, q) /\ errand'[d].sees = errand[d].sees
      /\ \A q : \A d \in Conns : Replies(d, q)' <=> Replies(d, q)
  BY <1>1, <1>2, <1>3, <1>5 DEF Pushes, Replies
<1>9. /\ seen'[v][p] = Messenger!Sent(v, p, errand[c].sees)
      /\ \A w \in Conns, q \in Speakers : w # v \/ q # p => seen'[w][q] = seen[w][q]
  BY <1>1, <1>3
<1>10. OneSource'
  <2> SUFFICES ASSUME NEW q \in Speakers, q \notin trail'.overlap
               PROVE  Source(q)'
    BY DEF OneSource
  <2>1. Source(q)
    BY <1>6 DEF ViewsInv, OneSource
  <2> QED
    BY <2>1, <1>4, <1>7, <1>8, SameSource
<1>11. conn[v].phase \notin Early /\ Messenger!Who(v) # p
  BY <1>2, <1>3 DEF ViewsInv, ViewersFit, Fits
<1>12. ViewersFit'
  <2> SUFFICES ASSUME NEW w \in Conns
               PROVE  /\ conn'[w].phase \in Early =>
                            /\ ~conn'[w].ready /\ conn'[w].stage = "none"
                            /\ \A q \in Speakers : seen'[w][q] = "unknown"
                      /\ w \in listed' => ipc'.token[conn'[w].token] # "none"
                      /\ \A q \in Speakers :
                            q \in conn'[w].muted \/ (w \in listed' /\ q = Messenger!Who(w)') =>
                               seen'[w][q] = "unknown" /\ ~Replies(w, q)'
                      /\ \A d \in Conns : errand'[d].kind = "push" /\ w \in errand'[d].to =>
                            conn'[w].phase \notin Early /\ Messenger!Who(w)' # errand'[d].about
    BY DEF ViewersFit, Fits
  <2>1. /\ conn[w].phase \in Early =>
                            /\ ~conn[w].ready /\ conn[w].stage = "none"
                            /\ \A q \in Speakers : seen[w][q] = "unknown"
        /\ w \in listed => ipc.token[conn[w].token] # "none"
        /\ \A q \in Speakers : q \in conn[w].muted \/ (w \in listed /\ q = Messenger!Who(w)) =>
                seen[w][q] = "unknown" /\ ~Replies(w, q)
        /\ \A d \in Conns : errand[d].kind = "push" /\ w \in errand[d].to =>
                conn[w].phase \notin Early /\ Messenger!Who(w) # errand[d].about
    BY DEF ViewsInv, ViewersFit, Fits
  <2>2. conn[w].phase \in Early => w # v
    BY <1>11
  <2>3. \A q \in Speakers : q \in conn[w].muted \/ (w \in listed /\ q = Messenger!Who(w)) =>
                               seen'[w][q] = "unknown"
    <3> SUFFICES ASSUME NEW q \in Speakers, q \in conn[w].muted \/ (w \in listed /\ q = Messenger!Who(w))
                 PROVE  seen'[w][q] = "unknown"
      OBVIOUS
    <3>1. CASE w = v /\ q = p
      BY <3>1, <2>1, <1>9, <1>11 DEF Messenger!Sent
    <3>2. CASE w # v \/ q # p
      BY <3>2, <2>1, <1>9
    <3> QED
      BY <3>1, <3>2
  <2>4. ASSUME NEW d \in Conns, errand'[d].kind = "push", w \in errand'[d].to
        PROVE  conn[w].phase \notin Early /\ Messenger!Who(w) # errand'[d].about
    BY <2>1, <2>4, <1>2, <1>3, <1>5
  <2> QED
    BY <2>1, <2>2, <2>3, <2>4, <1>4, <1>7, <1>8, <1>9
<1>13. Current'
  <2> SUFFICES ASSUME NEW w \in channel, NEW q \in Speakers
               PROVE  Counted(w, q)' => UpToDate(w, q)'
    BY <1>4 DEF Current
  <2>1. w \in Conns /\ w \in listed /\ (Counted(w, q) => UpToDate(w, q))
    BY <1>1 DEF ViewsInv, Current
  <2>2. CASE w # v \/ q # p
    <3>1. Comes(w, q) => Comes(w, q)'
      <4> SUFFICES ASSUME NEW d \in Conns, Pushes(d, q), w \in errand[d].to
                   PROVE  Pushes(d, q)' /\ w \in errand'[d].to
        BY DEF Comes
      <4>1. d = c => q = p
        BY <1>2 DEF Pushes
      <4> QED
        BY <4>1, <2>2, <1>3, <1>5 DEF Pushes
    <3>2. Replies(w, q) => errand'[w] = errand[w]
      BY <2>1, <1>3, <1>5 DEF Replies
    <3> QED
      BY <2>1, <2>2, <3>1, <3>2, <1>4, <1>6, <1>7, <1>8, <1>9, SameView
  <2>3. CASE w = v /\ q = p
    <3> SUFFICES ASSUME Counted(v, p)'
                 PROVE  UpToDate(v, p)'
      BY <2>3
    <3>1. /\ p \notin trail.overlap /\ ~Replies(v, p) /\ Fine(v)
          /\ \A k \in Messenger!ListedOf(p) : Fine(k)
      BY <1>6, <1>7 DEF Counted
    <3>2. Source(p) /\ Tells(c, p)
      BY <3>1, <1>2, <1>3 DEF ViewsInv, OneSource, Source, Pushes
    <3>3. Messenger!Available(v)
      BY <3>1 DEF Fine, Messenger!Available, Messenger!Marked
    <3>4. Messenger!Shown(p)' = Messenger!Shown(p)
      BY <1>4, <1>7 DEF Messenger!Shown, Messenger!AppearsOffline, Messenger!Available,
         Messenger!Marked
    <3>5. ~Replies(v, p)'
      BY <3>1, <1>8
    <3>6. CASE p \in conn[v].muted
      <4>1. seen[v][p] = "unknown"
        BY <3>6 DEF ViewsInv, ViewersFit, Fits
      <4> QED
        BY <3>5, <3>6, <4>1, <1>9 DEF Messenger!Sent, UpToDate
    <3>7. CASE p \notin conn[v].muted
      <4>1. seen'[v][p] = IF errand[c].sees = "on" /\ Messenger!AppearsOffline(p) THEN "off" ELSE errand[c].sees
        BY <3>3, <3>7, <1>9 DEF Messenger!Sent
      <4>2. CASE c \in listed
        <5>1. /\ Messenger!ListedOf(p) = {c} /\ conn[c].ready /\ shared[p] = conn[c].show
              /\ errand[c].sees = IF conn[c].show = "DISC" THEN "off" ELSE "on"
          BY <3>2, <4>2 DEF Tells
        <5>2. Messenger!Available(c)
          BY <3>1, <5>1 DEF Fine, Messenger!Available, Messenger!Marked
        <5>3. Messenger!AppearsOffline(p) <=> conn[c].show = "DISC"
          BY <5>1, <5>2 DEF Messenger!AppearsOffline
        <5>4. Messenger!Shown(p) = IF conn[c].show = "DISC" THEN "off" ELSE "on"
          BY <5>1, <5>3 DEF Messenger!Shown
        <5> QED
          BY <3>4, <3>5, <4>1, <5>1, <5>3, <5>4 DEF UpToDate
      <4>3. CASE c \notin listed
        <5>1. Messenger!ListedOf(p) = {} /\ errand[c].sees = "off"
          BY <3>2, <4>3 DEF Tells
        <5>2. Messenger!Shown(p) = "off"
          BY <5>1 DEF Messenger!Shown
        <5> QED
          BY <3>4, <3>5, <4>1, <5>1, <5>2 DEF UpToDate
      <4> QED
        BY <4>2, <4>3
    <3> QED
      BY <3>6, <3>7
  <2> QED
    BY <2>2, <2>3
<1> QED
  BY <1>10, <1>12, <1>13 DEF ViewsInv

\* What a connection sees, or whom it mutes, changes together with its own job, which
\* is no push.
LEMMA OwnViews ==
    ASSUME MessengerInv, ViewsInv, NEW c \in Conns, NEW p \in Speakers,
           UNCHANGED <<ipc, Messenger!service, trail>>,
           \A d \in Conns : d # c => errand'[d] = errand[d] /\ conn'[d] = conn[d]
                                     /\ \A q \in Speakers : seen'[d][q] = seen[d][q],
           errand[c].kind # "push", errand'[c].kind # "push",
           \A q \in Speakers : q # p =>
              /\ seen'[c][q] = seen[c][q]
              /\ ~Replies(c, q) /\ ~Replies(c, q)'
              /\ q \in conn'[c].muted => q \in conn[c].muted,
           conn'[c].phase = conn[c].phase, conn'[c].token = conn[c].token,
           conn'[c].forced = conn[c].forced, conn'[c].stage = conn[c].stage,
           conn'[c].show = conn[c].show, conn'[c].ready = conn[c].ready,
           conn[c].phase \in Early => seen'[c][p] = "unknown",
           p \in conn'[c].muted \/ (c \in listed /\ p = Messenger!Who(c)) =>
              seen'[c][p] = "unknown" /\ ~Replies(c, p)',
           Messenger!Shown(p)' = Messenger!Shown(p) /\ c \in channel /\ Counted(c, p) => UpToDate(c, p)'
    PROVE  ViewsInv'
<1>1. /\ errand \in [Conns -> ErrandRecord] /\ conn \in [Conns -> ConnRecord]
      /\ listed \in SUBSET Conns /\ channel \in SUBSET listed
  BY DEF MessengerInv, MessengerTyped
<1>2. UNCHANGED <<ipc, listed, channel, shared, trail>>
  BY DEF Messenger!service
<1>3. \A d \in Conns :
         /\ conn'[d].phase = conn[d].phase /\ conn'[d].token = conn[d].token
         /\ conn'[d].forced = conn[d].forced /\ conn'[d].stage = conn[d].stage
         /\ conn'[d].show = conn[d].show /\ conn'[d].ready = conn[d].ready
  OBVIOUS
<1>4. \A d \in Conns : (Fine(d)' <=> Fine(d)) /\ Messenger!Who(d)' = Messenger!Who(d)
  BY <1>2, <1>3 DEF Fine, Messenger!Who
<1>5. \A q : Messenger!ListedOf(q)' = Messenger!ListedOf(q) /\ Messenger!ListedOf(q) \subseteq Conns
  <2>1. \A d \in listed : Messenger!Who(d)' = Messenger!Who(d)
    BY <1>1, <1>4
  <2> QED
    BY <2>1, <1>1, <1>2 DEF Messenger!ListedOf
<1>6. \A q : Messenger!Shown(q)' = Messenger!Shown(q)
  <2>1. \A d \in Conns : Messenger!Available(d)' <=> Messenger!Available(d)
    BY <1>2, <1>3 DEF Messenger!Available, Messenger!Marked
  <2>2. \A q : Messenger!AppearsOffline(q)' <=> Messenger!AppearsOffline(q)
    BY <2>1, <1>3, <1>5 DEF Messenger!AppearsOffline
  <2> QED
    BY <2>2, <1>2, <1>5 DEF Messenger!Shown
<1>7. \A q : \A d \in Conns : /\ Pushes(d, q)' <=> Pushes(d, q)
                              /\ Pushes(d, q) => errand'[d] = errand[d]
  BY DEF Pushes
<1>8. OneSource'
  <2> SUFFICES ASSUME NEW q \in Speakers, q \notin trail'.overlap
               PROVE  Source(q)'
    BY DEF OneSource
  <2>1. Source(q)
    BY <1>2 DEF ViewsInv, OneSource
  <2> QED
    BY <2>1, <1>2, <1>3, <1>5, <1>7, SameSource
<1>9. ViewersFit'
  <2> SUFFICES ASSUME NEW w \in Conns
               PROVE  /\ conn'[w].phase \in Early =>
                            /\ ~conn'[w].ready /\ conn'[w].stage = "none"
                            /\ \A q \in Speakers : seen'[w][q] = "unknown"
                      /\ w \in listed' => ipc'.token[conn'[w].token] # "none"
                      /\ \A q \in Speakers :
                            q \in conn'[w].muted \/ (w \in listed' /\ q = Messenger!Who(w)') =>
                               seen'[w][q] = "unknown" /\ ~Replies(w, q)'
                      /\ \A d \in Conns : errand'[d].kind = "push" /\ w \in errand'[d].to =>
                            conn'[w].phase \notin Early /\ Messenger!Who(w)' # errand'[d].about
    BY DEF ViewersFit, Fits
  <2>1. /\ conn[w].phase \in Early =>
                            /\ ~conn[w].ready /\ conn[w].stage = "none"
                            /\ \A q \in Speakers : seen[w][q] = "unknown"
        /\ w \in listed => ipc.token[conn[w].token] # "none"
        /\ \A q \in Speakers : q \in conn[w].muted \/ (w \in listed /\ q = Messenger!Who(w)) =>
                seen[w][q] = "unknown" /\ ~Replies(w, q)
        /\ \A d \in Conns : errand[d].kind = "push" /\ w \in errand[d].to =>
                conn[w].phase \notin Early /\ Messenger!Who(w) # errand[d].about
    BY DEF ViewsInv, ViewersFit, Fits
  <2>2. conn'[w].phase \in Early =>
           /\ ~conn'[w].ready /\ conn'[w].stage = "none"
           /\ \A q \in Speakers : seen'[w][q] = "unknown"
    BY <2>1, <1>3
  <2>3. w \in listed' => ipc'.token[conn'[w].token] # "none"
    BY <2>1, <1>2, <1>3
  <2>4. \A q \in Speakers : q \in conn'[w].muted \/ (w \in listed' /\ q = Messenger!Who(w)') =>
                               seen'[w][q] = "unknown" /\ ~Replies(w, q)'
    <3>1. CASE w = c
      BY <3>1, <2>1, <1>2, <1>4
    <3>2. CASE w # c
      BY <3>2, <2>1, <1>2, <1>4 DEF Replies
    <3> QED
      BY <3>1, <3>2
  <2>5. \A d \in Conns : errand'[d].kind = "push" /\ w \in errand'[d].to =>
                               conn'[w].phase \notin Early /\ Messenger!Who(w)' # errand'[d].about
    BY <2>1, <1>3, <1>4
  <2> QED
    BY <2>2, <2>3, <2>4, <2>5
<1>10. Current'
  <2> SUFFICES ASSUME NEW w \in channel, NEW q \in Speakers
               PROVE  Counted(w, q)' => UpToDate(w, q)'
    BY <1>2 DEF Current
  <2>1. w \in Conns /\ w \in listed /\ (Counted(w, q) => UpToDate(w, q))
    BY <1>1 DEF ViewsInv, Current
  <2>2. Comes(w, q) <=> Comes(w, q)'
    BY <1>7 DEF Comes
  <2>3. CASE w # c \/ q # p
    <3>1. (Replies(w, q)' <=> Replies(w, q)) /\ (Replies(w, q) => errand'[w] = errand[w])
      BY <2>1, <2>3 DEF Replies
    <3>2. seen'[w][q] = seen[w][q]
      BY <2>1, <2>3
    <3> QED
      BY <2>1, <2>2, <3>1, <3>2, <1>2, <1>3, <1>4, <1>5, SameView
  <2>4. CASE w = c /\ q = p
    <3>1. Counted(w, q)' <=> Counted(w, q)
      BY <2>1, <2>2, <1>2, <1>3, <1>4, <1>5 DEF Counted
    <3> QED
      BY <2>4, <3>1, <1>6
  <2> QED
    BY <2>3, <2>4
<1> QED
  BY <1>8, <1>9, <1>10 DEF ViewsInv

LEMMA RepliedViews ==
    ASSUME MessengerInv, ViewsInv, NEW c \in Conns, Messenger!Replied(c)
    PROVE  ViewsInv'
<1>1. /\ errand \in [Conns -> ErrandRecord] /\ SoundJob(errand[c]) /\ conn \in [Conns -> ConnRecord]
      /\ seen \in [Conns -> [Speakers -> Messenger!Sees]]
  BY DEF MessengerInv, MessengerTyped
<1>2. PICK p \in Speakers : p = errand[c].about
  BY <1>1 DEF Messenger!Replied, SoundJob
<1>3. /\ errand[c].kind = "reply" /\ errand' = [errand EXCEPT ![c] = Messenger!Idle] /\ Messenger!Idle.kind = "none"
      /\ UNCHANGED <<ipc, conn, Messenger!service, trail>>
      /\ seen' = IF conn[c].phase = "auth" THEN [seen EXCEPT ![c][p] = errand[c].sees] ELSE seen
  BY <1>2 DEF Messenger!Replied, Messenger!Idle
<1>4. errand'[c].kind = "none" /\ \A d \in Conns : d # c => errand'[d] = errand[d]
  BY <1>1, <1>3
<1>5. /\ \A d \in Conns, q \in Speakers : d # c \/ q # p => seen'[d][q] = seen[d][q]
      /\ conn[c].phase = "auth" => seen'[c][p] = errand[c].sees
      /\ conn[c].phase # "auth" => seen'[c][p] = seen[c][p]
  <2>1. CASE conn[c].phase = "auth"
    <3>1. PICK x : x = errand[c].sees
      OBVIOUS
    <3>2. seen' = [seen EXCEPT ![c] = [seen[c] EXCEPT ![p] = x]]
      BY <1>3, <2>1, <3>1
    <3>5. seen \in [Conns -> [Speakers -> Messenger!Sees]]
      BY <1>1
    <3> DEFINE row == [seen[c] EXCEPT ![p] = x]
    <3>6. row[p] = x /\ \A q \in Speakers : q # p => row[q] = seen[c][q]
      BY <3>5
    <3>7. seen' = [seen EXCEPT ![c] = row]
      BY <3>2
    <3> HIDE DEF row
    <3>3. seen'[c] = row /\ \A d \in Conns : d # c => seen'[d] = seen[d]
      BY <3>5, <3>7
    <3>4. seen'[c][p] = x /\ \A q \in Speakers : q # p => seen'[c][q] = seen[c][q]
      BY <3>3, <3>6
    <3> QED
      BY <3>1, <3>3, <3>4, <2>1
  <2>2. CASE conn[c].phase # "auth"
    BY <1>3, <2>2
  <2> QED
    BY <2>1, <2>2
<1>6. /\ Replies(c, p) /\ ~Replies(c, p)'
      /\ \A q \in Speakers : q # p => ~Replies(c, q) /\ ~Replies(c, q)'
  BY <1>2, <1>3, <1>4 DEF Replies
<1>7. p \notin conn[c].muted /\ ~(c \in listed /\ p = Messenger!Who(c))
  BY <1>6 DEF ViewsInv, ViewersFit, Fits
<1>8. conn[c].phase \in Early => seen'[c][p] = "unknown"
  BY <1>5 DEF ViewsInv, ViewersFit, Fits, Early
<1>9. ASSUME Messenger!Shown(p)' = Messenger!Shown(p), c \in channel, Counted(c, p)
      PROVE  UpToDate(c, p)'
  <2>1. errand[c].sees = Messenger!Shown(p)
    BY <1>6, <1>9 DEF ViewsInv, Current, UpToDate
  <2>2. seen'[c][p] = Messenger!Shown(p)
    BY <2>1, <1>5, <1>9 DEF Counted
  <2> QED
    BY <2>2, <1>6, <1>9 DEF UpToDate
<1>10. \A d \in Conns : d # c => errand'[d] = errand[d] /\ conn'[d] = conn[d]
                                        /\ \A q \in Speakers : seen'[d][q] = seen[d][q]
  BY <1>3, <1>4, <1>5
<1>11. \A q \in Speakers : q # p =>
              /\ seen'[c][q] = seen[c][q]
              /\ ~Replies(c, q) /\ ~Replies(c, q)'
              /\ q \in conn'[c].muted => q \in conn[c].muted
  BY <1>3, <1>5, <1>6
<1> QED
  BY <1>3, <1>4, <1>6, <1>7, <1>8, <1>9, <1>10, <1>11, OwnViews

LEMMA PresenceAddViews ==
    ASSUME MessengerInv, ViewsInv, NEW c \in Conns, NEW p \in Speakers, Messenger!PresenceAdd(c,
           p)
    PROVE  ViewsInv'
<1> DEFINE reply == [kind |-> "reply", about |-> p, sees |-> Messenger!Shown(p), to |-> {c}]
<1>1. /\ errand \in [Conns -> ErrandRecord] /\ conn \in [Conns -> ConnRecord] /\ conn[c] \in ConnRecord
      /\ errand[c] = Messenger!Idle /\ Messenger!Idle.kind = "none" /\ conn[c].phase = "auth" /\ p # Messenger!Who(c)
  BY DEF MessengerInv, MessengerTyped, Messenger!PresenceAdd, Messenger!Serves, Messenger!Reads,
         Messenger!Idle
<1>2. /\ conn' = [conn EXCEPT ![c].muted = conn[c].muted \ {p}]
      /\ errand' = [errand EXCEPT ![c] = reply]
      /\ UNCHANGED <<ipc, Messenger!service, seen, trail>>
  BY DEF Messenger!PresenceAdd
<1>3. reply.kind = "reply" /\ reply.about = p /\ reply.sees = Messenger!Shown(p)
  OBVIOUS
<1> HIDE DEF reply
<1>4. errand'[c] = reply /\ \A d \in Conns : d # c => errand'[d] = errand[d] /\ conn'[d] = conn[d]
  BY <1>1, <1>2
<1>5. /\ conn'[c].phase = conn[c].phase /\ conn'[c].token = conn[c].token
      /\ conn'[c].forced = conn[c].forced /\ conn'[c].stage = conn[c].stage
      /\ conn'[c].show = conn[c].show /\ conn'[c].ready = conn[c].ready
      /\ conn'[c].muted = conn[c].muted \ {p}
  BY <1>1, <1>2 DEF ConnRecord
<1>6. \A q : (Replies(c, q)' => q = p) /\ ~Replies(c, q)
  BY <1>1, <1>3, <1>4 DEF Replies
<1>7. Messenger!Shown(p)' = Messenger!Shown(p) => UpToDate(c, p)'
  BY <1>3, <1>4 DEF UpToDate, Replies
<1> QED
  BY <1>1, <1>2, <1>3, <1>4, <1>5, <1>6, <1>7, OwnViews DEF Early

LEMMA PresenceDeleteViews ==
    ASSUME MessengerInv, ViewsInv, NEW c \in Conns, NEW p \in Speakers,
           Messenger!PresenceDelete(c, p)
    PROVE  ViewsInv'
<1>1. /\ errand \in [Conns -> ErrandRecord] /\ conn \in [Conns -> ConnRecord] /\ conn[c] \in ConnRecord
      /\ seen \in [Conns -> [Speakers -> Messenger!Sees]]
      /\ errand[c] = Messenger!Idle /\ Messenger!Idle.kind = "none" /\ conn[c].phase = "auth" /\ p # Messenger!Who(c)
  BY DEF MessengerInv, MessengerTyped, Messenger!PresenceDelete, Messenger!Serves,
         Messenger!Reads, Messenger!Idle
<1>2. /\ conn' = [conn EXCEPT ![c].muted = conn[c].muted \union {p}]
      /\ seen' = [seen EXCEPT ![c][p] = "unknown"]
      /\ UNCHANGED <<ipc, errand, Messenger!service, trail>>
  BY DEF Messenger!PresenceDelete
<1>3. /\ \A d \in Conns : d # c => conn'[d] = conn[d]
      /\ \A d \in Conns, q \in Speakers : d # c \/ q # p => seen'[d][q] = seen[d][q]
      /\ seen'[c][p] = "unknown"
  BY <1>1, <1>2
<1>4. /\ conn'[c].phase = conn[c].phase /\ conn'[c].token = conn[c].token
      /\ conn'[c].forced = conn[c].forced /\ conn'[c].stage = conn[c].stage
      /\ conn'[c].show = conn[c].show /\ conn'[c].ready = conn[c].ready
      /\ conn'[c].muted = conn[c].muted \union {p}
  BY <1>1, <1>2 DEF ConnRecord
<1>5. \A q : ~Replies(c, q)' /\ ~Replies(c, q)
  BY <1>1, <1>2 DEF Replies
<1>6. UpToDate(c, p)'
  BY <1>3, <1>5 DEF UpToDate
<1>7. \A d \in Conns : d # c => errand'[d] = errand[d] /\ conn'[d] = conn[d]
                                        /\ \A q \in Speakers : seen'[d][q] = seen[d][q]
  BY <1>2, <1>3
<1>8. \A q \in Speakers : q # p =>
              /\ seen'[c][q] = seen[c][q]
              /\ ~Replies(c, q) /\ ~Replies(c, q)'
              /\ q \in conn'[c].muted => q \in conn[c].muted
  BY <1>3, <1>4, <1>5
<1>9. errand[c].kind # "push" /\ errand'[c].kind # "push"
  BY <1>1, <1>2
<1> QED
  BY <1>2, <1>3, <1>4, <1>5, <1>6, <1>7, <1>8, <1>9, OwnViews

LEMMA EndsViews ==
    ASSUME Messenger!PersonaOfAssumption, MessengerInv, ViewsInv, NEW c \in Conns,
           Messenger!Ends(c)
    PROVE  ViewsInv'
<1> DEFINE k == [Messenger!NewConn EXCEPT !.phase = "gone", !.token = conn[c].token]
<1>1. /\ conn[c] \in ConnRecord /\ SoundConn(conn[c]) /\ conn \in [Conns -> ConnRecord]
      /\ errand \in [Conns -> ErrandRecord] /\ errand[c].kind \notin {"push", "reply"}
      /\ c \in listed <=> Registered(conn[c])
      /\ seen \in [Conns -> [Speakers -> Messenger!Sees]]
      /\ listed \in SUBSET Conns /\ channel \in SUBSET listed
      /\ shared \in [Speakers -> {"CHAT", "DISC", "AWAY"}]
  BY DEF MessengerInv, MessengerTyped, Phases, Messenger!Ends
<1>2. /\ conn[c].phase \in {"open", "waiting", "auth", "closing", "quiesced"}
      /\ conn' = [conn EXCEPT ![c] = k] /\ UNCHANGED <<ipc, trail>>
      /\ seen' = [seen EXCEPT ![c] = [q \in Speakers |-> "unknown"]]
  BY DEF Messenger!Ends
<1>3. k.phase = "gone" /\ k.token = conn[c].token /\ k.muted = {}
  BY DEF Messenger!NewConn
<1> HIDE DEF k
<1>4. /\ conn'[c] = k /\ \A d \in Conns : d # c => conn'[d] = conn[d]
      /\ \A q \in Speakers : seen'[c][q] = "unknown"
      /\ \A d \in Conns : d # c => seen'[d] = seen[d]
  BY <1>1, <1>2
<1>5. /\ \A d \in Conns : d # c => (Fine(d)' <=> Fine(d))
      /\ \A d \in Conns : Messenger!Who(d)' = Messenger!Who(d)
  BY <1>2, <1>3, <1>4 DEF Fine, Messenger!Who
<1>6. Messenger!Leaves(c) <=> c \in listed
  BY <1>1, <1>2 DEF Messenger!Leaves, Registered, SoundConn, Early
<1>7. \A q : Messenger!ListedOf(q) \subseteq Conns
  BY <1>1 DEF Messenger!ListedOf
\* Whatever becomes of its job, this much is common.
<1>8. ASSUME errand'[c].kind # "reply",
             \A d \in Conns : d # c => errand'[d] = errand[d],
             listed' = listed \ {c}, \A v \in Conns :
                errand'[c].kind = "push" /\ v \in errand'[c].to =>
                      v # c /\ conn[v].phase \notin Early /\ Messenger!Who(v) # errand'[c].about
      PROVE  ViewersFit'
  <2> SUFFICES ASSUME NEW w \in Conns
               PROVE  /\ conn'[w].phase \in Early =>
                            /\ ~conn'[w].ready /\ conn'[w].stage = "none"
                            /\ \A q \in Speakers : seen'[w][q] = "unknown"
                      /\ w \in listed' => ipc'.token[conn'[w].token] # "none"
                      /\ \A q \in Speakers :
                            q \in conn'[w].muted \/ (w \in listed' /\ q = Messenger!Who(w)') =>
                               seen'[w][q] = "unknown" /\ ~Replies(w, q)'
                      /\ \A d \in Conns : errand'[d].kind = "push" /\ w \in errand'[d].to =>
                            conn'[w].phase \notin Early /\ Messenger!Who(w)' # errand'[d].about
    BY DEF ViewersFit, Fits
  <2>1. /\ conn[w].phase \in Early =>
                            /\ ~conn[w].ready /\ conn[w].stage = "none"
                            /\ \A q \in Speakers : seen[w][q] = "unknown"
        /\ w \in listed => ipc.token[conn[w].token] # "none"
        /\ \A q \in Speakers : q \in conn[w].muted \/ (w \in listed /\ q = Messenger!Who(w)) =>
                seen[w][q] = "unknown" /\ ~Replies(w, q)
        /\ \A d \in Conns : errand[d].kind = "push" /\ w \in errand[d].to =>
                conn[w].phase \notin Early /\ Messenger!Who(w) # errand[d].about
    BY DEF ViewsInv, ViewersFit, Fits
  <2>2. k.phase \notin Early
    BY <1>3 DEF Early
  <2>3. \A d \in Conns : errand'[d].kind = "push" /\ w \in errand'[d].to =>
                               conn'[w].phase \notin Early /\ Messenger!Who(w)' # errand'[d].about
    BY <2>1, <2>2, <1>4, <1>5, <1>8
  <2>4. CASE w = c
    BY <2>2, <2>3, <2>4, <1>3, <1>4, <1>8 DEF Replies
  <2>5. CASE w # c
    BY <2>1, <2>3, <2>5, <1>2, <1>4, <1>5, <1>8 DEF Replies
  <2> QED
    BY <2>4, <2>5
<1>9. CASE ~Messenger!Leaves(c)
  <2>1. UNCHANGED <<listed, channel, shared>> /\ errand' = [errand EXCEPT ![c] = Messenger!Idle] /\ Messenger!Idle.kind = "none"
    BY <1>9 DEF Messenger!Ends, Messenger!service, Messenger!Idle
  <2>2. errand'[c].kind = "none" /\ \A d \in Conns : d # c => errand'[d] = errand[d]
    BY <2>1, <1>1
  <2>3. ViewersFit'
    BY <2>1, <2>2, <1>6, <1>8, <1>9
  <2>4. \A q : Messenger!ListedOf(q)' = Messenger!ListedOf(q) /\ c \notin Messenger!ListedOf(q)
    BY <2>1, <1>1, <1>5, <1>6, <1>9 DEF Messenger!ListedOf
  <2>5. \A q : \A d \in Conns : /\ Pushes(d, q)' <=> Pushes(d, q)
                                /\ Pushes(d, q) => errand'[d] = errand[d]
                                /\ Replies(d, q)' <=> Replies(d, q)
                                /\ Replies(d, q) => errand'[d] = errand[d]
    BY <2>2, <1>1 DEF Pushes, Replies
  <2>6. OneSource'
    <3> SUFFICES ASSUME NEW q \in Speakers, q \notin trail'.overlap
                 PROVE  Source(q)'
      BY DEF OneSource
    <3>1. Source(q)
      BY <1>2 DEF ViewsInv, OneSource
    <3>2. \A d \in Messenger!ListedOf(q) : d \in Conns /\ d # c
      BY <2>4, <1>7
    <3>3. \A d \in Conns : Pushes(d, q)' => /\ Pushes(d, q) /\ errand'[d].sees = errand[d].sees
                                            /\ (d \in listed' <=> d \in listed)
      BY <2>1, <2>5
    <3> QED
      BY <3>1, <3>2, <3>3, <2>1, <2>4, <1>4, SameSource
  <2>7. Current'
    <3> SUFFICES ASSUME NEW w \in channel, NEW q \in Speakers
                 PROVE  Counted(w, q)' => UpToDate(w, q)'
      BY <2>1 DEF Current
    <3>1. w \in Conns /\ w # c /\ (Counted(w, q) => UpToDate(w, q))
      BY <1>1, <1>6, <1>9 DEF ViewsInv, Current
    <3>2. Comes(w, q) => Comes(w, q)'
      BY <2>5 DEF Comes
    <3>3. \A d \in Messenger!ListedOf(q) : d \in Conns /\ d # c
      BY <2>4, <1>7
    <3> QED
      BY <3>1, <3>2, <3>3, <2>1, <2>4, <2>5, <1>2, <1>4, <1>5, SameView
  <2> QED
    BY <2>3, <2>6, <2>7 DEF ViewsInv
<1>10. CASE Messenger!Leaves(c)
  <2>1. PICK p \in Speakers : p = Messenger!Who(c)
    BY <1>10, WhoIsAPersona DEF Messenger!Leaves
  <2>2. PICK sees : sees = Messenger!Shown(p)'
    OBVIOUS
  <2>3. /\ c \in listed /\ listed' = listed \ {c} /\ channel' = channel \ {c}
        /\ shared' = shared \/ shared' = [shared EXCEPT ![p] = "AWAY"]
        /\ errand' = Messenger!Notifies(c, p, sees, Messenger!Viewers(p))
    <3>1. /\ listed' = listed \ {c} /\ channel' = channel \ {c}
          /\ shared' = shared \/ shared' = [shared EXCEPT ![Messenger!Who(c)] = "AWAY"]
          /\ errand' = Messenger!Notifies(c, Messenger!Who(c), Messenger!Shown(Messenger!Who(c))', Messenger!Viewers(Messenger!Who(c)))
      BY <1>10 DEF Messenger!Ends, Messenger!Unregistered, Messenger!NotifiedOnLeave
    <3>2. Messenger!Shown(Messenger!Who(c))' = Messenger!Shown(p)'
      BY <2>1, <1>5
    <3> QED
      BY <3>1, <3>2, <2>1, <2>2, <1>6, <1>10
  <2>4. /\ \A d \in Conns : d # c => errand'[d] = errand[d]
        /\ errand'[c].kind # "reply"
        /\ errand'[c].kind = "push" =>
                 errand'[c].about = p /\ errand'[c].sees = sees /\ errand'[c].to = Messenger!Viewers(p)
        /\ \A q : \A d \in Conns : Replies(d, q)' <=> Replies(d, q)
        /\ \A q : \A d \in Conns : Pushes(d, q)' => (d # c /\ Pushes(d, q)) \/ (d = c /\ q = p)
        /\ \A q : \A v : q # p => (Comes(v, q) => Comes(v, q)')
        /\ \A v \in Messenger!Viewers(p) : Comes(v, p)'
    BY <2>3, <1>1, WhoTells
  <2>5. \A v \in Messenger!Viewers(p) : v \in Conns /\ v # c /\ conn[v].phase \notin Early /\ Messenger!Who(v) # p
    BY <2>1, <1>1 DEF Messenger!Viewers, MessengerInv, Phases, Registered, Early
  <2>6. ViewersFit'
    BY <2>3, <2>4, <2>5, <1>8
  <2>7. /\ \A q : q # p => Messenger!ListedOf(q)' = Messenger!ListedOf(q) /\ c \notin Messenger!ListedOf(q)
        /\ Messenger!ListedOf(p)' = Messenger!ListedOf(p) \ {c} /\ c \in Messenger!ListedOf(p)
    BY <2>1, <2>3, <1>1, <1>5 DEF Messenger!ListedOf
  <2>8. \A q \in Speakers : q # p => shared'[q] = shared[q]
    BY <2>3, <1>1
  <2>9. OneSource'
    <3> SUFFICES ASSUME NEW q \in Speakers, q \notin trail'.overlap
                 PROVE  Source(q)'
      BY DEF OneSource
    <3>1. CASE q # p
      <4>1. Source(q)
        BY <1>2 DEF ViewsInv, OneSource
      <4>2. \A d \in Messenger!ListedOf(q) : d \in Conns /\ d # c
        BY <3>1, <2>7, <1>7
      <4>3. \A d \in Conns : Pushes(d, q)' => /\ Pushes(d, q) /\ errand'[d].sees = errand[d].sees
                                              /\ (d \in listed' <=> d \in listed)
        BY <3>1, <2>3, <2>4
      <4> QED
        BY <3>1, <4>1, <4>2, <4>3, <2>7, <2>8, <1>4, SameSource
    <3>2. CASE q = p
      <4>1. Messenger!ListedOf(p) = {c} /\ \A d \in Conns : Pushes(d, p) => d = c
        BY <3>2, <2>7, <1>2, NobodyElseTells
      <4>2. Messenger!ListedOf(p)' = {} /\ sees = "off"
        <5>1. Messenger!ListedOf(p)' = {}
          BY <4>1, <2>7
        <5> QED
          BY <5>1, <2>2 DEF Messenger!Shown
      <4>3. \A d \in Conns : Pushes(d, p)' => d = c
        BY <4>1, <2>4
      <4>4. Pushes(c, p)' => Tells(c, p)'
        BY <4>2, <2>3, <2>4 DEF Pushes, Tells
      <4> QED
        BY <3>2, <4>2, <4>3, <4>4 DEF Source
    <3> QED
      BY <3>1, <3>2
  <2>10. Current'
    <3> SUFFICES ASSUME NEW w \in channel', NEW q \in Speakers
                 PROVE  Counted(w, q)' => UpToDate(w, q)'
      BY DEF Current
    <3>1. w \in channel /\ w \in Conns /\ w # c /\ w \in listed' /\ (Counted(w, q) => UpToDate(w, q))
      BY <2>3, <1>1 DEF ViewsInv, Current
    <3>2. CASE q # p
      <4>1. \A d \in Messenger!ListedOf(q) : d \in Conns /\ d # c
        BY <3>2, <2>7, <1>7
      <4>2. Replies(w, q) => errand'[w] = errand[w]
        BY <3>1, <2>4
      <4> QED
        BY <3>1, <3>2, <4>1, <4>2, <2>4, <2>7, <2>8, <1>2, <1>4, <1>5, SameView
    <3>3. CASE q = p /\ Messenger!Who(w) = p
      <4>1. seen'[w][q] = "unknown" /\ ~Replies(w, q)'
        BY <3>1, <3>3, <2>6, <1>5 DEF ViewersFit, Fits
      <4> QED
        BY <4>1 DEF UpToDate
    <3>4. CASE q = p /\ Messenger!Who(w) # p
      <4>1. w \in Messenger!Viewers(p)
        BY <3>1, <3>4 DEF Messenger!Viewers
      <4> QED
        BY <3>4, <4>1, <2>4 DEF Counted
    <3> QED
      BY <3>2, <3>3, <3>4
  <2> QED
    BY <2>6, <2>9, <2>10 DEF ViewsInv
<1> QED
  BY <1>9, <1>10

LEMMA ViewsInitially ==
    ASSUME Messenger!PersonaOfAssumption, Messenger!Init
    PROVE  ViewsInv
<1>1. OneSource
  BY DEF Messenger!Init, OneSource, Source, Messenger!ListedOf, Pushes, Messenger!Idle
<1>2. ViewersFit
  BY DEF Messenger!Init, ViewersFit, Fits, Messenger!NewConn, Messenger!Idle, Replies
<1>3. Current
  BY DEF Messenger!Init, Current
<1> QED
  BY <1>1, <1>2, <1>3 DEF ViewsInv

LEMMA ViewsInvariant ==
    ASSUME Messenger!PersonaOfAssumption
    PROVE  Messenger!Spec => []ViewsInv
<1>1. Messenger!Init => ViewsInv
  BY ViewsInitially
<1>2. MessengerInv /\ ViewsInv /\ [Messenger!Next]_Messenger!vars => ViewsInv'
  <2> SUFFICES ASSUME MessengerInv, ViewsInv, [Messenger!Next]_Messenger!vars
               PROVE  ViewsInv'
    OBVIOUS
  <2>1. CASE UNCHANGED Messenger!vars
    <3>1. /\ UNCHANGED <<ipc, conn, errand, listed, channel, shared, seen, trail>>
      BY <2>1 DEF Messenger!vars
    <3>2. \A k \in listed : k \in Conns /\ ipc'.token[conn[k].token] # "none" /\ (Fine(k)' => Fine(k))
      BY <3>1 DEF ViewsInv, ViewersFit, Fits, MessengerInv, MessengerTyped, Fine
    <3> QED
      BY <3>1, <3>2, NothingToTell
  <2>2. CASE Messenger!Next
    <3>1. CASE \/ \E t \in Tokens : Messenger!TokenShown(t)
               \/ Messenger!UsableChanges
               \/ \E p \in Speakers : Messenger!RoomChanges(p)
      BY <3>1, OutsideViews
    <3>2. ASSUME NEW c \in Conns, (\E t \in Tokens : Messenger!Auth(c, t)) \/ Messenger!PollPendingAuth(c)
          PROVE  ViewsInv'
      BY <3>2, AuthViews
    <3>3. ASSUME NEW c \in Conns, \/ Messenger!Bootstraps(c) \/ Messenger!PollDuplicate(c) \/ Messenger!PollDisplaced(c)
                                  \/ Messenger!PollClose(c) \/ Messenger!Disc(c) \/ Messenger!PolicyClose(c)
          PROVE  ViewsInv'
      BY <3>3, MovingViews
    <3>4. ASSUME NEW c \in Conns,
                 \/ Messenger!AfterSend(c) \/ Messenger!PollInvite(c) \/ Messenger!ReleaseCompletion(c)
                 \/ \E p \in Speakers :
                       \/ Messenger!Invite(c, p) \/ Messenger!Revoke(c, p)
                       \/ \E accepted \in BOOLEAN : Messenger!Respond(c, p, accepted)
          PROVE  ViewsInv'
      BY <3>4, InvitationViews
    <3> QED
      BY <2>2, <3>1, <3>2, <3>3, <3>4, PresenceSetViews, DeliverViews, RepliedViews,
         PresenceAddViews, PresenceDeleteViews, EndsViews DEF Messenger!Next
  <2> QED
    BY <2>1, <2>2
<1> QED
  BY <1>1, <1>2, MessengerInvariant, PTL DEF Messenger!Spec

-----------------------------------------------------------------------------
(* The theorems.                                                           *)

\* Every variable has its type; in particular whoever is in the control table is
\* listed, so a friend's frame never goes to a connection that left.
THEOREM MessengerTypes ==
    ASSUME Messenger!PersonaOfAssumption
    PROVE  Messenger!Spec => []Messenger!TypeOK
<1>1. MessengerInv => Messenger!TypeOK
  BY DEF MessengerInv, MessengerTyped, Messenger!TypeOK, IpcRecord, ConnRecord, ConnPhases,
         Shows, ErrandRecord, SoundJob,
     TrailRecord
<1> QED
  BY <1>1, MessengerInvariant, PTL

\* However the host's revocation and the guest's poll interleave, between an
\* acceptance and the next one the guest is told once that the invitation is over.
THEOREM InvitationsEndOnce ==
    ASSUME Messenger!PersonaOfAssumption
    PROVE  Messenger!Spec => []Messenger!ReleasedOnce
<1>1. MessengerInv => Messenger!ReleasedOnce
  BY DEF MessengerInv, Invited, Messenger!ReleasedOnce
<1> QED
  BY <1>1, MessengerInvariant, PTL

\* A revocation is held back only for an acceptance that stands, and an acceptance
\* only for a guest who has a connection.
THEOREM RevokesStayArmed ==
    ASSUME Messenger!PersonaOfAssumption
    PROVE  Messenger!Spec => []Messenger!RevokesAreArmed
<1>1. MessengerInv => Messenger!RevokesAreArmed
  BY DEF MessengerInv, MessengerTyped, Invited, Messenger!RevokesAreArmed
<1> QED
  BY <1>1, MessengerInvariant, PTL

\* The close of an older connection does not erase the public row of a newer one, and
\* no row outlives its connection.
THEOREM PublicPresenceIsOwned ==
    ASSUME Messenger!PersonaOfAssumption
    PROVE  Messenger!Spec => []Messenger!PublicPresenceSurvives
<1>1. MessengerInv => Messenger!PublicPresenceSurvives
  BY DEF MessengerInv, Owned, Messenger!ListedOf, Messenger!PublicPresenceSurvives
<1> QED
  BY <1>1, MessengerInvariant, PTL

\* From its authentication to its end, no step of a duplicate's connection touches
\* the state that the service keeps for the client it duplicates.
THEOREM DuplicatesAreHarmless ==
    ASSUME Messenger!PersonaOfAssumption
    PROVE  Messenger!Spec => Messenger!DuplicatesLeaveNoTrace
<1>1. MessengerInv /\ [Messenger!Next]_Messenger!vars => [Messenger!LeavesNoTrace]_Messenger!vars
  <2> SUFFICES ASSUME MessengerInv, Messenger!Next, NEW c \in Conns, conn[c].forced, conn'[c] # conn[c]
               PROVE  UNCHANGED Messenger!service
    BY DEF Messenger!LeavesNoTrace
  <2>1. /\ conn \in [Conns -> ConnRecord] /\ SoundConn(conn[c])
        /\ conn[c].phase \notin Early
    BY DEF MessengerInv, MessengerTyped, Phases, SoundConn
  <2>2. \A d \in Conns : Messenger!Serves(d) => d # c
    BY DEF Messenger!Serves
  <2>3. ASSUME NEW d \in Conns, Messenger!PollPendingAuth(d) \/ \E t \in Tokens : Messenger!Auth(d, t)
        PROVE  UNCHANGED Messenger!service
    <3>1. conn[d].phase \in Early
      BY <2>3 DEF Messenger!PollPendingAuth, Messenger!Auth, Early
    <3>2. \A k : conn' = [conn EXCEPT ![d] = k] => conn'[c] = conn[c]
      BY <2>1, <3>1
    <3>3. \E k : conn' = [conn EXCEPT ![d] = k]
      <4>1. ASSUME NEW t, Messenger!BeginForcedLogoff(d, t) \/ Messenger!Register(d, t)
            PROVE  \E k : conn' = [conn EXCEPT ![d] = k]
        BY <4>1 DEF Messenger!BeginForcedLogoff, Messenger!Register
      <4>2. CASE Messenger!PollPendingAuth(d)
        BY <4>1, <4>2 DEF Messenger!PollPendingAuth
      <4>3. CASE \E t \in Tokens : Messenger!Auth(d, t)
        BY <4>1, <4>3 DEF Messenger!Auth
      <4> QED
        BY <2>3, <4>2, <4>3
    <3> QED
      BY <3>2, <3>3
  <2>4. ASSUME NEW d \in Conns, NEW s \in {"CHAT", "DISC"}, Messenger!PresenceSet(d, s)
        PROVE  UNCHANGED Messenger!service
    BY <2>1, <2>2, <2>4 DEF Messenger!PresenceSet
  <2>5. ASSUME NEW d \in Conns,
               \/ Messenger!ReleaseCompletion(d)
               \/ \E p \in Speakers :
                     \/ Messenger!Invite(d, p) \/ Messenger!Revoke(d, p)
                     \/ \E accepted \in BOOLEAN : Messenger!Respond(d, p, accepted)
        PROVE  UNCHANGED Messenger!service
    BY <2>5 DEF Messenger!ReleaseCompletion, Messenger!Invite, Messenger!Revoke, Messenger!Respond
  <2>6. ASSUME NEW d \in Conns, Messenger!Ends(d)
        PROVE  UNCHANGED Messenger!service
    <3>1. d = c
      BY <2>1, <2>6 DEF Messenger!Ends
    <3>2. ~Messenger!Leaves(c)
      BY DEF Messenger!Leaves
    <3> QED
      BY <2>6, <3>1, <3>2 DEF Messenger!Ends
  <2>7. ASSUME NEW d \in Conns,
               \/ Messenger!Bootstraps(d) \/ Messenger!PollDuplicate(d) \/ Messenger!PollDisplaced(d) \/ Messenger!PollClose(d)
               \/ \E v \in Conns : Messenger!Deliver(d, v)
               \/ Messenger!Replied(d) \/ Messenger!AfterSend(d) \/ Messenger!PollInvite(d)
               \/ \E p \in Speakers : Messenger!PresenceAdd(d, p) \/ Messenger!PresenceDelete(d, p)
               \/ Messenger!Disc(d) \/ Messenger!PolicyClose(d)
        PROVE  UNCHANGED Messenger!service
    BY <2>7 DEF Messenger!Bootstraps, Messenger!PollDuplicate, Messenger!PollDisplaced,
       Messenger!PollClose, Messenger!Deliver, Messenger!Replied,
       Messenger!AfterSend, Messenger!PollInvite, Messenger!PresenceAdd, Messenger!PresenceDelete, Messenger!Disc, Messenger!PolicyClose
  <2>8. CASE \/ \E t \in Tokens : Messenger!TokenShown(t)
             \/ Messenger!UsableChanges
             \/ \E p \in Speakers : Messenger!RoomChanges(p)
    BY <2>8 DEF Messenger!TokenShown, Messenger!UsableChanges, Messenger!RoomChanges
  <2> QED
    BY <2>3, <2>4, <2>5, <2>6, <2>7, <2>8 DEF Messenger!Next
<1> QED
  BY <1>1, MessengerInvariant, PTL DEF Messenger!Spec, Messenger!DuplicatesLeaveNoTrace

\* Once the frames in flight have arrived, a friend is shown as it is, for as long as
\* its connections do not overlap and no answer was overtaken.
THEOREM ViewsStayCurrent ==
    ASSUME Messenger!PersonaOfAssumption
    PROVE  Messenger!Spec => []Messenger!ViewsAreCurrent
<1>1. MessengerInv /\ ViewsInv => Messenger!ViewsAreCurrent
  <2> SUFFICES ASSUME MessengerInv, ViewsInv, NEW v \in channel, NEW p \in Speakers,
                      seen[v][p] # "unknown", p \notin trail.overlap,
                      <<v, p>> \notin trail.crossed, Messenger!Quiet(v, p),
                      Messenger!Available(v), conn[v].phase = "auth",
                      ipc.token[conn[v].token] = "live",
                      \A c \in Messenger!ListedOf(p) : Messenger!Available(c) /\ ipc.token[conn[c].token] = "live"
               PROVE  seen[v][p] = Messenger!Shown(p)
    BY DEF Messenger!ViewsAreCurrent
  <2>1. Fine(v) /\ \A c \in Messenger!ListedOf(p) : Fine(c)
    BY DEF Fine, Messenger!Available
  <2>2. ~Comes(v, p)
    BY DEF Messenger!Quiet, Comes, Pushes
  <2>3. ~Replies(v, p)
    BY DEF Messenger!Quiet, Replies, Messenger!Idle
  <2> QED
    BY <2>1, <2>2, <2>3 DEF ViewsInv, Current, Counted, UpToDate
<1> QED
  BY <1>1, MessengerInvariant, ViewsInvariant, PTL
=============================================================================
