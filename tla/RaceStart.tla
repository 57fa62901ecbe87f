------------------------------ MODULE RaceStart ------------------------------
(***************************************************************************)
(* How a Carbon room gets from its lobby into a race                       *)
(* (server/carbon/rebroadcaster/race_start.py, ready_epoch.py,             *)
(* ready_seed.py, ready_state.py, ai_registration.py, active_router.py,    *)
(* room_lifecycle.py; gamemanager/race_state.py).                          *)
(*                                                                         *)
(* One room.  Every action is the handling of one datagram of an endpoint, *)
(* or a poll, under the rebroadcaster's lock.  An endpoint acknowledges    *)
(* what was sent to it in order, when it likes: "flight" holds what it has *)
(* not acknowledged, of those publications whose acknowledgement counts.   *)
(*                                                                         *)
(* Abstracted: a reliable sequence number is the place of a publication in *)
(* "flight"; a clock is the flags "left" and "stalled"; how a session      *)
(* object gets complete and confirmed, and the room commit of a Challenge, *)
(* are one step each (SessionSetup has them in full); timers other than    *)
(* RACE_COUNTDOWN, room attributes and the bodies of the windows are left  *)
(* out.                                                                    *)
(***************************************************************************)
EXTENDS Naturals, FiniteSets, Sequences, SequencesExt

CONSTANTS
    None,
    Players,        \* participants of the room
    Host,
    Challenge,      \* the room's game_type is "2"
    Invited,        \* participants with an invite_remote_player_id
    Cars,           \* cars of computer racers that the host may register
    MaxSeeds,       \* Ready requests of the host
    MaxDrops,       \* endpoints lost
    MaxRaces

\* Assumed where the module is instantiated.
ConstantsAssumption ==
    /\ IsFiniteSet(Players) /\ Host \in Players
    /\ Challenge \in BOOLEAN /\ Invited \subseteq Players \ {Host}
    /\ MaxSeeds \in Nat /\ MaxDrops \in Nat /\ MaxRaces \in Nat

VARIABLES
    race,       \* GameRaceState
    epoch,      \* ReadyEpoch, or None
    wire,       \* player -> EndpointWireState of its endpoint, or None
    flight,     \* player -> publications it has yet to acknowledge, in order
    past        \* counts, and what the endpoints did in this race

vars == <<race, epoch, wire, flight, past>>

Phases == {"setup", "countdown", "expired", "start_locked", "loading", "racing",
           "finished"}

NewRace == [phase |-> "setup", locked |-> FALSE, reopened |-> FALSE,
            committed |-> FALSE,        \* room_commit_sent
            timer |-> 0,                \* countdown_generation_id
            left |-> "none",            \* of countdown_deadline; "short": start_delay
            loading |-> {},             \* loading_player_ids
            stalled |-> FALSE,          \* loading_started_at is long ago
            cars |-> {}]                \* player_controlled_ai

NewWire == [complete |-> FALSE,         \* session_confirmed, object complete
            asked |-> FALSE,            \* ready_requested
            seen |-> FALSE,             \* race_ready_seen
            playing |-> FALSE,          \* gameplay_ready
            allocated |-> FALSE,        \* active_game_ready
            lock |-> FALSE,             \* start_lock_final_sequence is set
            latency |-> FALSE,          \* latency_info_sent
            retry |-> FALSE,            \* match_timer_retry is armed
            timer |-> 0,                \* match_timer_generation_id
            epoch |-> 0,                \* ready_epoch_generation
            seed |-> 0,                 \* generation of ready_seed_final_sequence
            windows |-> {},             \* pending_ai_registration_windows
            refreshed |-> FALSE,        \* ai_registration_ready_refresh_sent
            told |-> {}]                \* cars whose registration it was sent

Stages == {"seeded", "paired", "active"}    \* of ReadyStage; ABORTED is None

WireRecord ==
    [complete : BOOLEAN, asked : BOOLEAN, seen : BOOLEAN, playing : BOOLEAN,
     allocated : BOOLEAN, lock : BOOLEAN, latency : BOOLEAN, retry : BOOLEAN, timer : Nat,
     epoch : Nat, seed : Nat, windows : SUBSET (Cars \union {0}), refreshed : BOOLEAN,
     told : SUBSET Cars]

EpochRecord ==
    [generation : Nat, stage : Stages, source : Nat, guest : Players \ {Host},
     states : SUBSET {13, 15}]

\* Assumed where the module is instantiated.
NoneAssumption == None \notin WireRecord /\ None \notin EpochRecord

Init ==
    /\ race = NewRace
    /\ epoch = None
    /\ wire = [p \in Players |-> None]
    /\ flight = [p \in Players |-> <<>>]
    /\ past = [seeds |-> 0, epochs |-> 0, drops |-> 0, races |-> 1, entered |-> {}]

Live == {p \in DOMAIN wire : wire[p] # None}
Guests == Live \ {Host}
Incomplete == {p \in Live : ~wire[p].complete}
Late == {"expired", "start_locked", "loading", "racing", "finished"}

EveryWire(F(_, _)) == [p \in Players |-> IF wire[p] = None THEN None ELSE F(p, wire[p])]
Publish(to, label) == [p \in Players |-> IF p \in to THEN Append(flight[p], label) ELSE flight[p]]
Outstanding(p, label) == Contains(flight[p], label)

(***************************************************************************)
(* Ends of a countdown, and of a race.                                     *)
(***************************************************************************)
AbortedWire(p, w) ==
    [w EXCEPT !.epoch = 0, !.seed = 0, !.asked = FALSE, !.allocated = FALSE,
              !.retry = FALSE, !.timer = 0]

AbortedRace ==
    IF race.phase \in {"setup", "countdown"}
    THEN [race EXCEPT !.phase = "setup", !.locked = FALSE, !.left = "none", !.timer = 0]
    ELSE race

\* abort_ready_epoch, seen by the endpoints W.
AbortedIn(W) ==
    IF epoch = None THEN W
    ELSE [p \in Players |-> IF W[p] = None THEN None ELSE AbortedWire(p, W[p])]

ResetWire(p, w) == [NewWire EXCEPT !.complete = w.complete]

\* reset_finished_race_for_rematch: the transport stays.
Rematch(W) == [p \in Players |-> IF W[p] = None THEN None ELSE ResetWire(p, W[p])]
NextRace(reopened) == [NewRace EXCEPT !.reopened = reopened]
CountRace == [past EXCEPT !.races = @ + 1, !.entered = {}]

(***************************************************************************)
(* Endpoints.                                                              *)
(***************************************************************************)
Bind(p) ==
    /\ wire[p] = None
    /\ wire' = [wire EXCEPT ![p] = NewWire]
    /\ UNCHANGED <<race, epoch, flight, past>>

\* drop_endpoint; the last one takes the room's state with it.
Drop(p) ==
    LET rest == [wire EXCEPT ![p] = None]
        last == Live = {p}
    IN /\ wire[p] # None
       /\ past.drops < MaxDrops
       /\ wire' = AbortedIn(rest)
       /\ race' = IF last THEN NewRace ELSE AbortedRace
       /\ epoch' = None
       /\ flight' = [flight EXCEPT ![p] = <<>>]
       /\ past' = [past EXCEPT !.drops = @ + 1,
                               !.epochs = IF last THEN 0 ELSE @,
                               !.entered = IF last THEN {} ELSE @]

\* seed_countdown, once every session object W is there.
Seeded(W) ==
    LET live == {q \in Players : W[q] # None}
    IN IF /\ ~Challenge /\ ~race.reopened /\ race.phase = "setup"
          /\ Cardinality(live) > 1 /\ \A q \in live : W[q].complete
       THEN [race EXCEPT !.phase = "countdown", !.left = "long"]
       ELSE race

\* A session is confirmed, or a guest brings a further generation of it.
Complete(p) ==
    /\ wire[p] # None
    /\ ~wire[p].complete \/ p # Host
    /\ wire' = [wire EXCEPT ![p].complete = TRUE]
    /\ race' = Seeded(wire')
    /\ UNCHANGED <<epoch, flight, past>>

\* The room commit of a Challenge (room_commit.py).
Commit ==
    /\ Challenge /\ ~race.reopened /\ race.phase = "setup" /\ ~race.committed
    /\ Guests # {} /\ Host \in Live /\ Incomplete = {}
    /\ race' = [race EXCEPT !.committed = TRUE, !.locked = TRUE]
    /\ UNCHANGED <<epoch, wire, flight, past>>

(***************************************************************************)
(* The countdown and its timer.                                            *)
(***************************************************************************)
\* record_countdown_wire_timer: a drifting deadline is a new generation.
Recorded(fresh) == IF race.timer = 0 \/ fresh THEN race.timer + 1 ELSE race.timer

\* hold_preconfirm
Held(q) == Challenge /\ q \in Invited /\ ~wire[q].complete

\* broadcast_timer with RACE_COUNTDOWN.
StartTimer(p, fresh) ==
    LET generation == Recorded(fresh)
        to == {q \in Live : ~Held(q)}
        counting == race.phase \in {"setup", "countdown"}
    IN /\ wire[p] # None /\ epoch = None
       /\ race' = [race EXCEPT !.timer = generation,
                               !.phase = IF counting THEN "countdown" ELSE @,
                               !.left = IF counting THEN "long" ELSE @]
       /\ IF counting
          THEN /\ flight' = Publish(to, <<"timer", generation>>)
               /\ wire' = [q \in Players |->
                    IF q \notin to THEN wire[q]
                    ELSE [wire[q] EXCEPT !.timer = generation,
                                         !.retry = @ \/ (q # Host /\ ~wire[q].allocated)]]
          ELSE UNCHANGED <<flight, wire>>
       /\ UNCHANGED <<epoch, past>>

Allocating(p) ==
    /\ wire[p] # None /\ ~wire[p].allocated
    /\ wire' = [wire EXCEPT ![p].allocated = TRUE]
    /\ UNCHANGED <<race, epoch, flight, past>>

\* retry_match_timer: not due yet, given up, or sent if it still means anything.
Current(p) == wire[p].timer = race.timer /\ Outstanding(p, <<"timer", race.timer>>)

Retries(p) ==
    IF epoch # None THEN {[armed |-> FALSE, sent |-> FALSE]}
    ELSE IF ~wire[p].retry \/ race.timer = 0 THEN {[armed |-> wire[p].retry, sent |-> FALSE]}
    ELSE {[armed |-> TRUE, sent |-> FALSE], [armed |-> FALSE, sent |-> FALSE]}
            \union IF Current(p) THEN {[armed |-> FALSE, sent |-> TRUE]} ELSE {}

Resent(p, r) == IF r.sent THEN Publish({p}, <<"timer", race.timer>>) ELSE flight

\* Another state of an endpoint that has allocated its game.
RetryTimer(p) ==
    /\ wire[p] # None /\ wire[p].allocated
    /\ \E r \in Retries(p) :
          /\ wire' = [wire EXCEPT ![p].retry = r.armed]
          /\ flight' = Resent(p, r)
    /\ UNCHANGED <<race, epoch, past>>

\* The coordinator's state 2.
ExpireCountdown ==
    /\ wire[Host] # None /\ race.phase = "countdown"
    /\ race' = [race EXCEPT !.phase = "expired"]
    /\ UNCHANGED <<epoch, wire, flight, past>>

PassTime ==
    /\ \/ race.left = "long" /\ race' = [race EXCEPT !.left = "short"]
       \/ race.phase = "loading" /\ ~race.stalled /\ race' = [race EXCEPT !.stalled = TRUE]
    /\ UNCHANGED <<epoch, wire, flight, past>>

(***************************************************************************)
(* Ready controls and the locks.                                           *)
(***************************************************************************)
PreReady == Challenge /\ race.phase = "setup" /\ epoch = None

\* broadcast_ready_lock
ReadyLocked(W) ==
    /\ Cardinality(Live) > 1
    /\ \A q \in Live : W[q].asked /\ W[q].complete

\* MATCHMAKING_OFF and DISABLE_JOINS; both in one message speak for the room.
ReadyControl(p, off, disable) ==
    LET asking == IF off /\ disable /\ Incomplete = {} THEN Live ELSE {p}
        W == [q \in Players |->
                IF q \in asking THEN [wire[q] EXCEPT !.asked = TRUE] ELSE wire[q]]
    IN /\ wire[p] # None
       /\ off \/ (disable /\ ~PreReady)
       /\ race' = [race EXCEPT !.locked = @ \/ ReadyLocked(W)]
       /\ IF p = Host THEN wire' = W /\ UNCHANGED flight
          ELSE \E r \in Retries(p) :
                 /\ wire' = [W EXCEPT ![p].retry = r.armed]
                 /\ flight' = Resent(p, r)
       /\ UNCHANGED <<epoch, past>>

\* INVITES_OFF: broadcast_start_lock
StartLock(p) ==
    /\ wire[p] # None /\ ~PreReady
    /\ race.phase = "expired" /\ Cardinality(Live) > 1
    /\ race' = [race EXCEPT !.phase = "start_locked"]
    /\ wire' = [q \in Players |->
                  IF wire[q] = None THEN None ELSE [wire[q] EXCEPT !.lock = TRUE]]
    /\ flight' = Publish(Live, <<"lock", 0>>)
    /\ UNCHANGED <<epoch, past>>

(***************************************************************************)
(* A Challenge's Ready epoch: the host's seed, the helper's states 13 and  *)
(* 15, the host's native bundle.                                           *)
(***************************************************************************)
\* _prepare_destination, and append_host or append_guest.
SeededWire(w, generation, timer) ==
    [w EXCEPT !.epoch = generation, !.seed = generation, !.asked = FALSE,
              !.allocated = FALSE, !.retry = FALSE, !.timer = timer]

\* Its last packet is the one whose acknowledgement counts, for either role.
SeedPublished(generation) == Publish(Live, <<"seed", generation>>)

NewEpoch(generation, source, guest) ==
    [generation |-> generation, stage |-> "seeded", source |-> source,
     guest |-> guest, states |-> {}]

\* relay_retail_ready_seed.  A repeated request opens a new epoch only if the
\* one it opened is gone.
Seed(source, guest) ==
    LET rematch == race.phase = "finished"
        W == IF rematch THEN Rematch(AbortedIn(wire)) ELSE AbortedIn(wire)
        r == IF rematch THEN NextRace(FALSE)
             ELSE IF epoch # None THEN AbortedRace ELSE race
        generation == past.epochs + 1
        timer == IF r.timer = 0 \/ source > past.seeds THEN r.timer + 1 ELSE r.timer
    IN /\ Challenge /\ wire[Host] # None /\ guest \in Guests
       /\ race.phase \in {"setup", "finished"} \/ epoch # None
       /\ source \in {past.seeds, past.seeds + 1} /\ source \in 1 .. MaxSeeds
       /\ epoch # None => epoch.source # source
       /\ rematch => past.races < MaxRaces
       /\ wire' = [p \in Players |->
                     IF W[p] = None THEN None ELSE SeededWire(W[p], generation, timer)]
       /\ race' = [r EXCEPT !.timer = timer]
       /\ epoch' = NewEpoch(generation, source, guest)
       /\ flight' = SeedPublished(generation)
       /\ past' = [IF rematch THEN CountRace ELSE past
                     EXCEPT !.seeds = source, !.epochs = generation]

\* A plausible bug: the gate looks at the host's seed alone.
SeedsArrived_Host(f) ==
    wire[Host] # None =>
        (wire[Host].seed # 0 => ~Contains(f[Host], <<"seed", wire[Host].seed>>))

\* The delivery gate of relay_clean_state13_ack; f is what is outstanding.
SeedsArrived(f) ==
    \A p \in Live : wire[p].seed # 0 => ~Contains(f[p], <<"seed", wire[p].seed>>)

Paired(e, f) ==
    IF e.stage = "seeded" /\ e.states = {13, 15} /\ Cardinality(Live) > 1 /\ SeedsArrived(f)
    THEN [e EXCEPT !.stage = "paired"]
    ELSE e

GuestStates(S) ==
    /\ epoch # None /\ epoch.stage = "seeded"
    /\ wire[epoch.guest] # None
    /\ epoch' = Paired([epoch EXCEPT !.states = @ \union S], flight)
    /\ UNCHANGED <<race, wire, flight, past>>

\* relay_native_ready_bundle
NativeBundle ==
    /\ epoch # None /\ epoch.stage = "paired" /\ wire[Host] # None
    /\ epoch' = [epoch EXCEPT !.stage = "active"]
    /\ race' = [race EXCEPT !.phase = IF @ = "setup" THEN "countdown" ELSE @,
                            !.left = "long", !.locked = TRUE]
    /\ wire' = [p \in Players |->
                  IF wire[p] = None THEN None
                  ELSE [wire[p] EXCEPT !.asked = TRUE, !.retry = FALSE, !.timer = race.timer]]
    /\ flight' = Publish(Live, <<"timer", race.timer>>)
    /\ UNCHANGED past

(***************************************************************************)
(* Acknowledgements: the epoch's gate, the latency that follows the start  *)
(* lock, and the registration of computer racers wait for them.            *)
(***************************************************************************)
\* update_delivery
Confirmed(windows, f) == {n \in windows : Contains(f, <<"cars", n>>)}

Acknowledge(p, n) ==
    LET f == [flight EXCEPT ![p] = SubSeq(@, n + 1, Len(@))]
        arrived == wire[p].lock /\ ~Contains(f[p], <<"lock", 0>>)
    IN /\ wire[p] # None /\ n \in 1 .. Len(flight[p])
       /\ flight' = f
       /\ epoch' = IF epoch = None THEN None ELSE Paired(epoch, f)
       /\ wire' = [wire EXCEPT ![p].latency = @ \/ arrived,
                               ![p].windows = IF race.phase = "finished" THEN {}
                                              ELSE Confirmed(@, f[p])]
       /\ UNCHANGED <<race, past>>

\* AIRegistrationCoordinator.relay: a car is registered once.
RegisterCar(c) ==
    /\ wire[Host] # None /\ c \in Cars \ race.cars
    /\ race.phase \in {"loading", "racing"}
    /\ race' = [race EXCEPT !.cars = @ \union {c}]
    /\ wire' = [p \in Players |->
                  IF wire[p] = None THEN None
                  ELSE [wire[p] EXCEPT !.windows = @ \union {c}, !.told = @ \union {c}]]
    /\ flight' = Publish(Live, <<"cars", c>>)
    /\ UNCHANGED <<epoch, past>>

\* Its windows are given up after some retries.
GiveUpCars(p) ==
    /\ wire[p] # None /\ wire[p].windows # {}
    /\ wire' = [wire EXCEPT ![p].windows = {}]
    /\ UNCHANGED <<race, epoch, flight, past>>

(***************************************************************************)
(* Loading, and the start.                                                 *)
(***************************************************************************)
Expired ==
    IF /\ race.phase = "countdown" /\ race.left = "short" /\ race.locked
       /\ Cardinality(Live) > 1 /\ \A q \in Live : wire[q].asked
    THEN "expired" ELSE race.phase

\* broadcast_startloading
HostLoads ==
    /\ wire[Host] # None /\ Incomplete = {}
    /\ Expired \in {"expired", "start_locked"}
    /\ race' = [race EXCEPT !.phase = "loading", !.loading = {Host}, !.stalled = FALSE]
    /\ past' = [past EXCEPT !.entered = @ \union {Host}]
    /\ UNCHANGED <<epoch, wire, flight>>

\* observe_startloading_signal.
Observed(p) ==
    IF race.phase = "loading" THEN [race EXCEPT !.loading = @ \union {p}] ELSE race

GuestLoads(p) ==
    /\ p \in Guests
    /\ race' = Observed(p)
    /\ past' = [past EXCEPT !.entered = @ \union {p}]
    /\ UNCHANGED <<epoch, wire, flight>>

\* refresh_ready_guests, after what is acknowledged or given up is dropped.
NeedsRefresh(p, w) ==
    p # Host /\ race.cars # {} /\ ~w.refreshed /\ w.windows = {}

Started(p, w) ==
    IF NeedsRefresh(p, w)
    THEN [w EXCEPT !.playing = TRUE, !.refreshed = TRUE, !.windows = {0}, !.told = race.cars]
    ELSE [w EXCEPT !.playing = TRUE]

\* maybe_broadcast_startsync, when the endpoints are W.
StartsWith(W) ==
    /\ race.phase = "loading" /\ Cardinality(Live) > 1
    /\ \A p \in Live : W[p].seen

StartSync(W) ==
    IF StartsWith(W)
    THEN /\ race' = [race EXCEPT !.phase = "racing"]
         /\ wire' = [p \in Players |-> IF W[p] = None THEN None ELSE Started(p, W[p])]
         /\ flight' = Publish({p \in Live : NeedsRefresh(p, W[p])}, <<"cars", 0>>)
    ELSE wire' = W /\ UNCHANGED <<race, flight>>

Ready(p) ==
    /\ wire[p] # None
    /\ StartSync([wire EXCEPT ![p].seen = TRUE])
    /\ past' = [past EXCEPT !.entered = @ \union {p}]
    /\ UNCHANGED epoch

\* poll_loading_ready_fallback.
AllEntered == Cardinality(Live) > 1 /\ Live \subseteq race.loading /\ Incomplete = {}

Fallback ==
    /\ race.phase = "loading" /\ race.stalled /\ AllEntered
    /\ \E p \in Live : ~wire[p].seen
    /\ StartSync([p \in Players |->
                    IF wire[p] = None THEN None ELSE [wire[p] EXCEPT !.seen = TRUE]])
    /\ UNCHANGED <<epoch, past>>

(***************************************************************************)
(* The end of a race (race_results.py), and the room after it.             *)
(***************************************************************************)
FinishRace ==
    /\ race.phase = "racing"
    /\ race' = [race EXCEPT !.phase = "finished"]
    /\ UNCHANGED <<epoch, wire, flight, past>>

\* reopen_finished_room
Reopen(p) ==
    /\ wire[p] # None /\ race.phase = "finished" /\ past.races < MaxRaces
    /\ race' = NextRace(TRUE)
    /\ epoch' = None
    /\ wire' = Rematch(AbortedIn(wire))
    /\ past' = CountRace
    /\ UNCHANGED flight

Next ==
    \/ Commit \/ ExpireCountdown \/ PassTime \/ NativeBundle \/ HostLoads \/ Fallback
    \/ FinishRace
    \/ \E p \in Players :
        \/ Bind(p) \/ Drop(p) \/ Complete(p) \/ Allocating(p) \/ RetryTimer(p)
        \/ StartLock(p) \/ GuestLoads(p) \/ Ready(p) \/ Reopen(p) \/ GiveUpCars(p)
        \/ \E fresh \in BOOLEAN : StartTimer(p, fresh)
        \/ \E off, disable \in BOOLEAN : ReadyControl(p, off, disable)
        \/ \E source \in 1 .. MaxSeeds : Seed(source, p)
        \/ \E n \in 1 .. Len(flight[p]) : Acknowledge(p, n)
    \/ \E S \in (SUBSET {13, 15}) \ {{}} : GuestStates(S)
    \/ \E c \in Cars : RegisterCar(c)

Spec == Init /\ [][Next]_vars

\* The service polls for ever (RebroadcasterUDPServer's loop).
FairSpec == Spec /\ WF_vars(Fallback) /\ WF_vars(PassTime)

(***************************************************************************)
(* Properties                                                              *)
(***************************************************************************)
\* Types; and an endpoint has a flag of a stage only when the race got there.
TypeOK ==
    /\ race.phase \in Phases /\ race.timer \in Nat
    /\ race.loading \subseteq Players /\ race.cars \subseteq Cars
    /\ race.loading # {} => race.phase \in {"loading", "racing", "finished"}
    /\ epoch # None => epoch.stage \in Stages /\ epoch.guest \in Players \ {Host}
    /\ \A p \in Players : wire[p] = None => flight[p] = <<>>

\* A Ready epoch and the race it starts agree through aborts, rematches, lost
\* and late endpoints: an active epoch has a locked room that counts down or
\* is further, no endpoint is armed by an epoch that is over, and none waits
\* for a countdown that no longer exists (abort_ready_epoch).
EpochMatchesRace ==
    /\ (epoch # None /\ epoch.stage = "active") =>
            race.locked /\ race.phase # "setup"
    /\ \A p \in Live :
        /\ wire[p].epoch # 0 => epoch # None /\ wire[p].epoch = epoch.generation
        /\ wire[p].seed = wire[p].epoch

\* The helper's states are released to nobody before every endpoint of the
\* epoch has acknowledged its own seed: a host that got them earlier closes
\* the connection (relay_clean_state13_ack).
PairFollowsSeeds ==
    (epoch # None /\ epoch.stage # "seeded") =>
        \A p \in Live : wire[p].seed # 0 => ~Outstanding(p, <<"seed", wire[p].seed>>)

\* What an endpoint was told of one race never counts in the next: start
\* lock, latency and start belong to the race's own stages
\* (reset_finished_race_for_rematch, abort_ready_epoch).
FlagsAreOfThisRace ==
    \A p \in Live :
        /\ wire[p].lock => race.phase \in Late
        /\ wire[p].latency => wire[p].lock
        /\ wire[p].playing => race.phase \in {"racing", "finished"}
        /\ wire[p].told \subseteq race.cars

\* Nobody is started who did not report READY or loading in this very race.
NobodyStartsUnprepared == \A p \in Live : wire[p].playing => p \in past.entered

\* A guest that races against computer racers was sent registrations, and one that
\* the start refreshed was sent all of them, those of later cars included
\* (refresh_ready_guests).
CarsAreRegistered ==
    \A p \in Guests :
        /\ wire[p].playing /\ race.cars # {} => wire[p].told # {}
        /\ wire[p].refreshed => wire[p].told = race.cars

\* "Finish a stalled loading barrier after every live peer entered it"
\* (race_start.py, poll_loading_ready_fallback).
LoadingIsReleased ==
    (race.phase = "loading" /\ AllEntered) ~> (race.phase # "loading" \/ ~AllEntered)

\* The invariants of the start of a race together.
StartsTogether ==
    /\ EpochMatchesRace /\ PairFollowsSeeds /\ FlagsAreOfThisRace
    /\ NobodyStartsUnprepared /\ CarsAreRegistered
=============================================================================
