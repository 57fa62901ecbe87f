---------------------------- MODULE RaceStartProofs ----------------------------
(***************************************************************************)
(* Proofs about RaceStart, for any number of players, cars, seeds, losses  *)
(* and races: what an endpoint was told belongs to the Ready epoch and to  *)
(* the race that the room is in.                                           *)
(*                                                                         *)
(* The inductive invariant says for each endpoint what its flags promise   *)
(* about the room (Fits).  Most steps leave the promises alone and take    *)
(* the room further (QuietStep); those that take it back, an abort, a      *)
(* rematch and the loss of an endpoint, take the flags back with it.  A    *)
(* second layer (CarsFit) says what it was told of the computer racers.    *)
(*                                                                         *)
(* And about ReliablePublication, for any sequence space in which a life   *)
(* of an endpoint turns less than half of it, any retry policies, and any  *)
(* losses, repetitions and reorderings: nothing that a client lacks is     *)
(* forgotten, nothing that it acknowledged is sent again, and a life joins *)
(* once.  The invariant PublicationInv says that of a client in touch with *)
(* the endpoint all records that it lacks are retained, and that what may  *)
(* be replayed lies beyond what it acknowledged; a handler is a sequence   *)
(* of stages, each of which Leads from a state to the next.                *)
(***************************************************************************)
EXTENDS RaceStart, TLAPS

RaceRecord ==
    [phase : Phases, locked : BOOLEAN, reopened : BOOLEAN, committed : BOOLEAN, timer : Nat,
     left : {"none", "short", "long"}, loading : SUBSET Players, stalled : BOOLEAN,
     cars : SUBSET Cars]

PastRecord ==
    [seeds : Nat, epochs : Nat, drops : Nat, races : Nat, entered : SUBSET Players]

Labels == {"timer", "lock", "seed", "cars"} \X (Nat \union Cars)

Types ==
    /\ race \in RaceRecord
    /\ epoch \in EpochRecord \union {None}
    /\ wire \in [Players -> WireRecord \union {None}]
    /\ flight \in [Players -> Seq(Labels)]
    /\ past \in PastRecord
    /\ \A p \in Players : wire[p] = None => flight[p] = <<>>

\* What the room promises: an active epoch has a locked room, and who loads has said so.
RoomFits ==
    /\ (epoch # None /\ epoch.stage = "active") => race.locked /\ race.phase # "setup"
    /\ race.loading # {} => race.phase \in {"loading", "racing", "finished"}
    /\ race.loading \subseteq past.entered

\* What the flags of the endpoint w promise about the room; "f" is what it has not
\* acknowledged.
Fits(w, f, r, e, entered, p) ==
    /\ w.epoch # 0 => e # None /\ w.epoch = e.generation
    /\ w.seed = w.epoch
    /\ (e # None /\ e.stage # "seeded") /\ w.seed # 0 => ~Contains(f, <<"seed", w.seed>>)
    /\ w.lock => r.phase \in Late
    /\ w.latency => w.lock
    /\ w.playing => r.phase \in {"racing", "finished"}
    /\ w.told \subseteq r.cars
    /\ w.playing \/ w.seen => p \in entered

EndpointsFit ==
    \A p \in Players :
        wire[p] # None => Fits(wire[p], flight[p], race, epoch, past.entered, p)

Inv == Types /\ RoomFits /\ EndpointsFit

-----------------------------------------------------------------------------
(* What is outstanding.                                                    *)

\* No seed comes to what is outstanding.
NoSeed(f, g) == \A n \in Nat : Contains(g, <<"seed", n>>) => Contains(f, <<"seed", n>>)

LEMMA OneMoreLabel ==
    ASSUME NEW f \in Seq(Labels), NEW l \in Labels, l[1] # "seed"
    PROVE  Append(f, l) \in Seq(Labels) /\ NoSeed(f, Append(f, l))
<1>1. \A n \in Nat : l # <<"seed", n>>
  OBVIOUS
<1>2. Append(f, l) \in Seq(Labels) /\ Len(Append(f, l)) = Len(f) + 1
      /\ \A i \in 1..(Len(f) + 1) : Append(f, l)[i] = IF i <= Len(f) THEN f[i] ELSE l
  OBVIOUS
<1>3. ASSUME NEW n \in Nat, NEW i \in 1..(Len(f) + 1), Append(f, l)[i] = <<"seed", n>>
      PROVE  Contains(f, <<"seed", n>>)
  <2>1. i \in 1..Len(f) /\ f[i] = <<"seed", n>>
    BY <1>1, <1>2, <1>3
  <2> QED
    BY <2>1 DEF Contains
<1> QED
  BY <1>2, <1>3 DEF NoSeed, Contains

LEMMA LabelsAre ==
    ASSUME NEW x \in Nat \union Cars
    PROVE  /\ <<"timer", x>> \in Labels /\ <<"lock", x>> \in Labels /\ <<"cars", x>> \in Labels
           /\ <<"seed", x>> \in Labels
           /\ <<"timer", x>>[1] # "seed" /\ <<"lock", x>>[1] # "seed" /\ <<"cars", x>>[1] # "seed"
BY DEF Labels

\* Whatever is published but a seed.
LEMMA Published ==
    ASSUME Types, NEW to, NEW l \in Labels
    PROVE  /\ Publish(to, l) \in [Players -> Seq(Labels)]
           /\ l[1] # "seed" => \A p \in Players : NoSeed(flight[p], Publish(to, l)[p])
           /\ \A p \in Players \ to : Publish(to, l)[p] = flight[p]
<1>1. \A p \in Players : flight[p] \in Seq(Labels)
  BY DEF Types
<1>2. \A p \in Players : Append(flight[p], l) \in Seq(Labels)
  BY <1>1
<1>3. \A p \in Players : NoSeed(flight[p], flight[p])
  BY DEF NoSeed
<1>4. l[1] # "seed" => \A p \in Players : NoSeed(flight[p], Append(flight[p], l))
  BY <1>1, OneMoreLabel
<1> QED
  BY <1>1, <1>2, <1>3, <1>4 DEF Publish

\* An acknowledgement takes away.
LEMMA Acknowledged ==
    ASSUME NEW f \in Seq(Labels), NEW n \in 1..Len(f)
    PROVE  /\ SubSeq(f, n + 1, Len(f)) \in Seq(Labels)
           /\ NoSeed(f, SubSeq(f, n + 1, Len(f)))
<1> DEFINE g == SubSeq(f, n + 1, Len(f))
<1>1. /\ g \in Seq(Labels) /\ Len(g) = Len(f) - n
      /\ \A i \in 1..Len(g) : g[i] = f[n + i] /\ n + i \in 1..Len(f)
  OBVIOUS
<1> HIDE DEF g
<1>2. NoSeed(f, g)
  BY <1>1 DEF NoSeed, Contains
<1> QED
  BY <1>1, <1>2 DEF g

-----------------------------------------------------------------------------
(* What a step does to an endpoint.                                        *)

\* The room goes on.
Further(r, s) ==
    /\ r.phase \in Late => s.phase \in Late
    /\ r.phase \in {"racing", "finished"} => s.phase \in {"racing", "finished"}
    /\ r.cars \subseteq s.cars

\* The epoch stays or is completed.
Continues(e, d) ==
    \/ d = e
    \/ e # None /\ d # None /\ d.generation = e.generation

\* The endpoint v becomes w, keeps its promises and makes none that the room s does
\* not keep.
Keeps(v, w, s, entered, p) ==
    /\ v.epoch = w.epoch /\ v.seed = w.seed
    /\ w.lock => v.lock \/ s.phase \in Late
    /\ w.latency => w.lock \/ (v.latency /\ (v.lock => w.lock))
    /\ w.playing => v.playing \/ s.phase \in {"racing", "finished"}
    /\ w.told = v.told \/ w.told \subseteq s.cars
    /\ w.playing \/ w.seen => v.playing \/ v.seen \/ p \in entered

\* The states of the guest are passed on when the seeds have arrived.
PairsLate(e, d, w, g) ==
    d = e \/ (d.stage # "seeded" /\ w.seed # 0 =>
                 e.stage # "seeded" \/ ~Contains(g, <<"seed", w.seed>>))

LEMMA StillFits ==
    ASSUME NEW v, NEW w, NEW f, NEW g, NEW r, NEW s, NEW e, NEW d, NEW A, NEW B, NEW p,
           Keeps(v, w, s, B, p), NoSeed(f, g), Further(r, s), A \subseteq B,
           v.seed \in Nat, Continues(e, d), PairsLate(e, d, w, g),
           Fits(v, f, r, e, A, p)
    PROVE  Fits(w, g, s, d, B, p)
<1>1. /\ w.epoch # 0 => d # None /\ w.epoch = d.generation
      /\ w.seed = w.epoch
  BY DEF Keeps, Continues, Fits
<1>2. (d # None /\ d.stage # "seeded") /\ w.seed # 0 => ~Contains(g, <<"seed", w.seed>>)
  BY DEF Keeps, Continues, PairsLate, NoSeed, Fits
<1>3. /\ w.lock => s.phase \in Late
      /\ w.latency => w.lock
      /\ w.playing => s.phase \in {"racing", "finished"}
  BY DEF Keeps, Further, Fits
<1>4. w.told \subseteq s.cars
  BY DEF Keeps, Further, Fits
<1>5. w.playing \/ w.seen => p \in B
  BY DEF Keeps, Fits
<1> QED
  BY <1>1, <1>2, <1>3, <1>4, <1>5 DEF Fits

\* A step that takes back nothing: the room goes on, no seed is published, each
\* endpoint keeps its promises.
LEMMA StepsOn ==
    ASSUME NoneAssumption, Inv,
           race' \in RaceRecord, past' \in PastRecord, epoch' \in EpochRecord \union {None},
           wire' \in [Players -> WireRecord \union {None}],
           flight' \in [Players -> Seq(Labels)],
           Further(race, race'), past.entered \subseteq past'.entered,
           Continues(epoch, epoch'),
           \A p \in Players :
              /\ wire[p] = None => wire'[p] = None /\ flight'[p] = flight[p]
              /\ wire[p] # None => /\ wire'[p] # None
                                   /\ Keeps(wire[p], wire'[p], race', past'.entered, p)
                                   /\ PairsLate(epoch, epoch', wire'[p], flight'[p])
                                   /\ NoSeed(flight[p], flight'[p])
    PROVE  Types' /\ EndpointsFit'
<1>1. Types'
  BY DEF Inv, Types
<1>2. ASSUME NEW p \in Players, wire'[p] # None
      PROVE  Fits(wire'[p], flight'[p], race', epoch', past'.entered, p)
  <2>1. wire[p] # None /\ Fits(wire[p], flight[p], race, epoch, past.entered, p)
    BY <1>2 DEF Inv, EndpointsFit
  <2>2. wire[p].seed \in Nat
    BY <2>1 DEF Inv, Types, WireRecord
  <2> QED
    BY <2>1, <2>2, StillFits
<1> QED
  BY <1>1, <1>2 DEF EndpointsFit

\* What keeps an endpoint as it is, for its promises.
LEMMA AlikeKeeps ==
    ASSUME NEW v, NEW w, NEW s, NEW B, NEW p,
           v.epoch = w.epoch, v.seed = w.seed, v.lock = w.lock, v.latency = w.latency,
           v.playing = w.playing, v.told = w.told, v.seen = w.seen
    PROVE  Keeps(v, w, s, B, p)
BY DEF Keeps

Alike(v, w) ==
    /\ v.epoch = w.epoch /\ v.seed = w.seed /\ v.lock = w.lock /\ v.latency = w.latency
    /\ v.playing = w.playing /\ v.told = w.told /\ v.seen = w.seen

\* A step that changes no promise of an endpoint, nor the epoch.
LEMMA QuietStep ==
    ASSUME NoneAssumption, Inv,
           race' \in RaceRecord, past' \in PastRecord, epoch' = epoch,
           wire' \in [Players -> WireRecord \union {None}],
           flight' \in [Players -> Seq(Labels)],
           Further(race, race'), past.entered \subseteq past'.entered,
           \A p \in Players :
              /\ wire[p] = None => wire'[p] = None /\ flight'[p] = flight[p]
              /\ wire[p] # None => wire'[p] \in WireRecord /\ Alike(wire[p], wire'[p])
              /\ NoSeed(flight[p], flight'[p])
    PROVE  Types' /\ EndpointsFit'
<1>1. epoch' \in EpochRecord \union {None} /\ Continues(epoch, epoch')
  BY DEF Inv, Types, Continues
<1>2. ASSUME NEW p \in Players, wire[p] # None
      PROVE  /\ wire'[p] # None
             /\ Keeps(wire[p], wire'[p], race', past'.entered, p)
             /\ PairsLate(epoch, epoch', wire'[p], flight'[p])
  BY <1>2, AlikeKeeps DEF NoneAssumption, Alike, PairsLate
<1> QED
  BY <1>1, <1>2, StepsOn

LEMMA QuietFields ==
    ASSUME NEW w \in WireRecord, NEW b \in BOOLEAN, NEW c \in BOOLEAN, NEW n \in Nat
    PROVE  /\ [w EXCEPT !.complete = b] \in WireRecord /\ Alike(w, [w EXCEPT !.complete = b])
           /\ [w EXCEPT !.allocated = b] \in WireRecord /\ Alike(w, [w EXCEPT !.allocated = b])
           /\ [w EXCEPT !.retry = b] \in WireRecord /\ Alike(w, [w EXCEPT !.retry = b])
           /\ [w EXCEPT !.asked = b] \in WireRecord /\ Alike(w, [w EXCEPT !.asked = b])
           /\ [w EXCEPT !.timer = n, !.retry = b] \in WireRecord
           /\ Alike(w, [w EXCEPT !.timer = n, !.retry = b])
           /\ [w EXCEPT !.asked = b, !.retry = c, !.timer = n] \in WireRecord
           /\ Alike(w, [w EXCEPT !.asked = b, !.retry = c, !.timer = n])
           /\ [w EXCEPT !.windows = {}] \in WireRecord /\ Alike(w, [w EXCEPT !.windows = {}])
<1>1. /\ [w EXCEPT !.complete = b] \in WireRecord /\ Alike(w, [w EXCEPT !.complete = b])
      /\ [w EXCEPT !.allocated = b] \in WireRecord /\ Alike(w, [w EXCEPT !.allocated = b])
  BY DEF WireRecord, Alike
<1>2. /\ [w EXCEPT !.retry = b] \in WireRecord /\ Alike(w, [w EXCEPT !.retry = b])
      /\ [w EXCEPT !.asked = b] \in WireRecord /\ Alike(w, [w EXCEPT !.asked = b])
  BY DEF WireRecord, Alike
<1>3. /\ [w EXCEPT !.timer = n, !.retry = b] \in WireRecord
      /\ Alike(w, [w EXCEPT !.timer = n, !.retry = b])
  BY DEF WireRecord, Alike
<1>4. /\ [w EXCEPT !.asked = b, !.retry = c, !.timer = n] \in WireRecord
      /\ Alike(w, [w EXCEPT !.asked = b, !.retry = c, !.timer = n])
  BY DEF WireRecord, Alike
<1>5. [w EXCEPT !.windows = {}] \in WireRecord /\ Alike(w, [w EXCEPT !.windows = {}])
  BY DEF WireRecord, Alike
<1> QED
  BY <1>1, <1>2, <1>3, <1>4, <1>5

LEMMA SameIsAlike ==
    /\ \A w : Alike(w, w)
    /\ \A f : NoSeed(f, f)
    /\ \A r : Further(r, r)
BY DEF Alike, NoSeed, Further

-----------------------------------------------------------------------------
(* The steps that change no promise.                                       *)

\* What is known of the parts.
LEMMA Parts ==
    ASSUME Inv
    PROVE  /\ race \in RaceRecord /\ past \in PastRecord
           /\ epoch \in EpochRecord \union {None}
           /\ wire \in [Players -> WireRecord \union {None}]
           /\ flight \in [Players -> Seq(Labels)]
           /\ Live = {p \in Players : wire[p] # None}
           /\ \A p \in Players : wire[p] # None => wire[p] \in WireRecord
BY DEF Inv, Types, Live

\* The room alone changes, or who has entered the race.
LEMMA RoomSteps ==
    ASSUME ConstantsAssumption, NoneAssumption, Inv,
           \/ Commit \/ ExpireCountdown \/ PassTime \/ HostLoads \/ FinishRace
           \/ \E p \in Players : GuestLoads(p)
    PROVE  Inv'
<1>1. UNCHANGED <<epoch, wire, flight>>
  BY DEF Commit, ExpireCountdown, PassTime, HostLoads, FinishRace, GuestLoads
<1>2. /\ race' \in RaceRecord /\ past' \in PastRecord
      /\ Further(race, race') /\ past.entered \subseteq past'.entered
      /\ RoomFits'
  <2>1. CASE Commit
    <3>1. race' = [race EXCEPT !.committed = TRUE, !.locked = TRUE] /\ UNCHANGED <<epoch, past>>
      BY <2>1 DEF Commit
    <3> QED
      BY <3>1, Parts DEF RaceRecord, Further, RoomFits, Inv
  <2>2. CASE ExpireCountdown
    <3>1. /\ race' = [race EXCEPT !.phase = "expired"] /\ UNCHANGED <<epoch, past>>
          /\ race.phase = "countdown"
      BY <2>2 DEF ExpireCountdown
    <3> QED
      BY <3>1, Parts DEF RaceRecord, Further, RoomFits, Inv, Phases, Late
  <2>3. CASE PassTime
    <3>1. /\ race' \in {[race EXCEPT !.left = "short"], [race EXCEPT !.stalled = TRUE]}
          /\ UNCHANGED <<epoch, past>>
      BY <2>3 DEF PassTime
    <3> QED
      BY <3>1, Parts DEF RaceRecord, Further, RoomFits, Inv
  <2>4. CASE HostLoads
    <3>1. /\ race' = [race EXCEPT !.phase = "loading", !.loading = {Host}, !.stalled = FALSE]
          /\ past' = [past EXCEPT !.entered = past.entered \union {Host}] /\ UNCHANGED epoch
          /\ race.phase \in {"countdown", "expired", "start_locked"} /\ Host \in Players
      BY <2>4 DEF HostLoads, Expired, ConstantsAssumption
    <3>2. past' \in PastRecord /\ past'.entered = past.entered \union {Host}
      BY <3>1, Parts DEF PastRecord
    <3>3. /\ race' \in RaceRecord /\ race'.phase = "loading" /\ race'.loading = {Host}
          /\ race'.locked = race.locked /\ race'.cars = race.cars
      BY <3>1, Parts DEF RaceRecord, Phases
    <3>4. Further(race, race')
      BY <3>1, <3>3 DEF Further, Late
    <3>5. RoomFits'
      BY <3>1, <3>2, <3>3 DEF RoomFits, Inv
    <3> QED
      BY <3>2, <3>3, <3>4, <3>5
  <2>5. CASE FinishRace
    <3>1. /\ race' = [race EXCEPT !.phase = "finished"] /\ UNCHANGED <<epoch, past>>
          /\ race.phase = "racing"
      BY <2>5 DEF FinishRace
    <3> QED
      BY <3>1, Parts DEF RaceRecord, Further, RoomFits, Inv, Phases, Late
  <2>6. ASSUME NEW p \in Players, GuestLoads(p)
        PROVE  /\ race' \in RaceRecord /\ past' \in PastRecord
               /\ Further(race, race') /\ past.entered \subseteq past'.entered
               /\ RoomFits'
    <3>1. /\ race' = Observed(p) /\ past' = [past EXCEPT !.entered = past.entered \union {p}]
          /\ UNCHANGED epoch
      BY <2>6 DEF GuestLoads
    <3>2. past' \in PastRecord /\ past'.entered = past.entered \union {p}
      BY <3>1, Parts DEF PastRecord
    <3>3. CASE race.phase = "loading"
      <4>1. race' = [race EXCEPT !.loading = race.loading \union {p}]
        BY <3>1, <3>3 DEF Observed
      <4>2. /\ race' \in RaceRecord /\ race'.loading = race.loading \union {p}
            /\ race'.phase = race.phase /\ race'.locked = race.locked
            /\ race'.cars = race.cars
        BY <4>1, Parts DEF RaceRecord
      <4>3. Further(race, race')
        BY <4>2 DEF Further
      <4>4. RoomFits'
        BY <3>1, <3>2, <3>3, <4>2 DEF RoomFits, Inv
      <4> QED
        BY <3>2, <4>2, <4>3, <4>4
    <3>4. CASE race.phase # "loading"
      <4>1. race' = race
        BY <3>1, <3>4 DEF Observed
      <4> QED
        BY <3>1, <3>2, <4>1, Parts DEF Further, RoomFits, Inv
    <3> QED
      BY <3>3, <3>4
  <2> QED
    BY <2>1, <2>2, <2>3, <2>4, <2>5, <2>6
<1>3. Types' /\ EndpointsFit'
  BY <1>1, <1>2, Parts, QuietStep, SameIsAlike
<1> QED
  BY <1>2, <1>3 DEF Inv

\* A countdown, its timer and its retries, Ready controls, and what an endpoint says
\* of itself.
LEMMA Resends ==
    ASSUME Inv, NEW p \in Players, wire[p] # None, NEW r \in Retries(p)
    PROVE  /\ r.armed \in BOOLEAN
           /\ Resent(p, r) \in [Players -> Seq(Labels)]
           /\ \A q \in Players : NoSeed(flight[q], Resent(p, r)[q])
           /\ \A q \in Players \ {p} : Resent(p, r)[q] = flight[q]
<1>1. r.armed \in BOOLEAN
  <2>1. wire[p].retry \in BOOLEAN
    BY Parts DEF WireRecord
  <2>2. \/ r = [armed |-> FALSE, sent |-> FALSE]
        \/ r = [armed |-> wire[p].retry, sent |-> FALSE]
        \/ r = [armed |-> TRUE, sent |-> FALSE]
        \/ r = [armed |-> FALSE, sent |-> TRUE]
    BY DEF Retries
  <2>3. r.armed = FALSE \/ r.armed = wire[p].retry \/ r.armed = TRUE
    BY <2>2
  <2> QED
    BY <2>1, <2>3
<1>2. race.timer \in Nat
  BY Parts DEF RaceRecord
<1> DEFINE l == <<"timer", race.timer>>
<1>3. l \in Labels /\ l[1] # "seed"
  BY <1>2, LabelsAre
<1> HIDE DEF l
<1>4. /\ Publish({p}, l) \in [Players -> Seq(Labels)]
      /\ \A q \in Players : NoSeed(flight[q], Publish({p}, l)[q])
      /\ \A q \in Players \ {p} : Publish({p}, l)[q] = flight[q]
  BY <1>3, Published DEF Inv
<1>5. Resent(p, r) = IF r.sent THEN Publish({p}, l) ELSE flight
  BY DEF Resent, l
<1> QED
  BY <1>1, <1>4, <1>5, Parts, SameIsAlike

LEMMA TimerSteps ==
    ASSUME ConstantsAssumption, NoneAssumption, Inv, NEW p \in Players,
           \/ Complete(p) \/ Allocating(p) \/ RetryTimer(p) \/ GiveUpCars(p)
           \/ \E fresh \in BOOLEAN : StartTimer(p, fresh)
           \/ \E off, disable \in BOOLEAN : ReadyControl(p, off, disable)
    PROVE  Inv'
<1>1. CASE Complete(p)
  <2>1. /\ wire[p] # None /\ wire' = [wire EXCEPT ![p] = [wire[p] EXCEPT !.complete = TRUE]]
        /\ race' = Seeded(wire') /\ UNCHANGED <<epoch, flight, past>>
    BY <1>1, Parts DEF Complete
  <2>2. \/ race' = race
        \/ /\ race.phase = "setup"
           /\ race' = [race EXCEPT !.phase = "countdown", !.left = "long"]
    BY <2>1 DEF Seeded
  <2>3. race' \in RaceRecord /\ Further(race, race') /\ RoomFits'
    BY <2>1, <2>2, Parts DEF RaceRecord, Phases, Further, Late, RoomFits, Inv
  <2>4. [wire[p] EXCEPT !.complete = TRUE] \in WireRecord /\ Alike(wire[p], [wire[p] EXCEPT !.complete = TRUE])
    BY <2>1, Parts, QuietFields
  <2>5. Types' /\ EndpointsFit'
    BY <2>1, <2>3, <2>4, Parts, QuietStep, SameIsAlike
  <2> QED
    BY <2>3, <2>5 DEF Inv
<1>2. CASE Allocating(p) \/ GiveUpCars(p)
  <2>1. PICK w \in WireRecord : Alike(wire[p], w) /\ wire' = [wire EXCEPT ![p] = w]
    <3>1. wire[p] \in WireRecord
      BY <1>2, Parts DEF Allocating, GiveUpCars
    <3>2. \/ wire' = [wire EXCEPT ![p] = [wire[p] EXCEPT !.allocated = TRUE]]
          \/ wire' = [wire EXCEPT ![p] = [wire[p] EXCEPT !.windows = {}]]
      BY <1>2, Parts DEF Allocating, GiveUpCars
    <3>3. /\ [wire[p] EXCEPT !.allocated = TRUE] \in WireRecord
          /\ Alike(wire[p], [wire[p] EXCEPT !.allocated = TRUE])
          /\ [wire[p] EXCEPT !.windows = {}] \in WireRecord
          /\ Alike(wire[p], [wire[p] EXCEPT !.windows = {}])
      BY <3>1, QuietFields
    <3> QED
      BY <3>2, <3>3
  <2>2. UNCHANGED <<race, epoch, flight, past>> /\ wire[p] # None
    BY <1>2 DEF Allocating, GiveUpCars
  <2>3. Types' /\ EndpointsFit'
    BY <2>1, <2>2, Parts, QuietStep, SameIsAlike
  <2> QED
    BY <2>2, <2>3 DEF Inv, RoomFits
<1>3. CASE RetryTimer(p)
  <2>1. wire[p] # None /\ UNCHANGED <<race, epoch, past>>
    BY <1>3 DEF RetryTimer
  <2>2. PICK r \in Retries(p) : /\ wire' = [wire EXCEPT ![p] = [wire[p] EXCEPT !.retry = r.armed]]
                                /\ flight' = Resent(p, r)
    BY <1>3, Parts DEF RetryTimer
  <2>3. /\ r.armed \in BOOLEAN /\ flight' \in [Players -> Seq(Labels)]
        /\ \A q \in Players : NoSeed(flight[q], flight'[q])
        /\ \A q \in Players \ {p} : flight'[q] = flight[q]
    BY <2>1, <2>2, Resends
  <2>4. /\ [wire[p] EXCEPT !.retry = r.armed] \in WireRecord
        /\ Alike(wire[p], [wire[p] EXCEPT !.retry = r.armed])
    BY <2>1, <2>3, Parts, QuietFields
  <2>5. Types' /\ EndpointsFit'
    BY <2>1, <2>2, <2>3, <2>4, Parts, QuietStep, SameIsAlike
  <2> QED
    BY <2>1, <2>5 DEF Inv, RoomFits
<1>4. ASSUME NEW fresh \in BOOLEAN, StartTimer(p, fresh)
      PROVE  Inv'
  <2> DEFINE n == Recorded(fresh)
             to == {q \in Live : ~Held(q)}
             counting == race.phase \in {"setup", "countdown"}
             timed(q) == [wire[q] EXCEPT !.timer = n,
                             !.retry = wire[q].retry \/ (q # Host /\ ~wire[q].allocated)]
  <2>1. /\ epoch = None /\ UNCHANGED <<epoch, past>>
        /\ race' = [race EXCEPT !.timer = n,
                                !.phase = IF counting THEN "countdown" ELSE race.phase,
                                !.left = IF counting THEN "long" ELSE race.left]
        /\ \/ /\ flight' = Publish(to, <<"timer", n>>)
              /\ wire' = [q \in Players |-> IF q \notin to THEN wire[q] ELSE timed(q)]
           \/ UNCHANGED <<flight, wire>>
    BY <1>4 DEF StartTimer
  <2>2. n \in Nat
    BY Parts DEF Recorded, RaceRecord
  <2>3. \A q \in Players : wire[q] # None => timed(q) \in WireRecord /\ Alike(wire[q], timed(q))
    <3> SUFFICES ASSUME NEW q \in Players, wire[q] # None
                 PROVE  timed(q) \in WireRecord /\ Alike(wire[q], timed(q))
      OBVIOUS
    <3>1. wire[q] \in WireRecord /\ (wire[q].retry \/ (q # Host /\ ~wire[q].allocated)) \in BOOLEAN
      BY Parts
    <3> QED
      BY <2>2, <3>1, QuietFields
  <2>4. /\ <<"timer", n>> \in Labels /\ <<"timer", n>>[1] # "seed"
    BY <2>2, LabelsAre
  <2>5. to = {q \in Players : wire[q] # None /\ q \in to}
    BY Parts
  <2> HIDE DEF n
  <2>6. race' \in RaceRecord /\ Further(race, race') /\ RoomFits'
    <3>1. /\ race' \in RaceRecord /\ race'.loading = race.loading /\ race'.cars = race.cars
          /\ race'.phase = IF counting THEN "countdown" ELSE race.phase
      BY <2>1, <2>2, Parts DEF RaceRecord, Phases
    <3>2. Further(race, race')
      BY <3>1 DEF Further, Late
    <3> QED
      BY <2>1, <3>1, <3>2 DEF RoomFits, Inv
  <2> HIDE DEF to, timed, counting
  <2>7. /\ Publish(to, <<"timer", n>>) \in [Players -> Seq(Labels)]
        /\ \A q \in Players : NoSeed(flight[q], Publish(to, <<"timer", n>>)[q])
        /\ \A q \in Players \ to : Publish(to, <<"timer", n>>)[q] = flight[q]
    BY <2>4, Published DEF Inv
  <2>8. Types' /\ EndpointsFit'
    BY <2>1, <2>3, <2>5, <2>6, <2>7, Parts, QuietStep, SameIsAlike
  <2> QED
    BY <2>6, <2>8 DEF Inv
<1>5. ASSUME NEW off \in BOOLEAN, NEW disable \in BOOLEAN, ReadyControl(p, off, disable)
      PROVE  Inv'
  <2> DEFINE asking == IF off /\ disable /\ Incomplete = {} THEN Live ELSE {p}
             W == [q \in Players |->
                     IF q \in asking THEN [wire[q] EXCEPT !.asked = TRUE] ELSE wire[q]]
  <2>1. /\ wire[p] # None /\ UNCHANGED <<epoch, past>>
        /\ race' = [race EXCEPT !.locked = race.locked \/ ReadyLocked(W)]
        /\ \/ wire' = W /\ UNCHANGED flight
           \/ \E r \in Retries(p) :
                 /\ wire' = [W EXCEPT ![p] = [W[p] EXCEPT !.retry = r.armed]]
                 /\ flight' = Resent(p, r)
    BY <1>5 DEF ReadyControl
  <2>2. \A q \in asking : q \in Players /\ wire[q] # None
    BY <2>1, Parts
  <2>3. \A q \in Players :
           /\ wire[q] = None => W[q] = None
           /\ wire[q] # None => W[q] \in WireRecord /\ Alike(wire[q], W[q])
    BY <2>2, Parts, QuietFields, SameIsAlike
  <2>4. ReadyLocked(W) \in BOOLEAN
    BY DEF ReadyLocked
  <2>5. W \in [Players -> WireRecord \union {None}]
    BY <2>3
  <2> HIDE DEF W, asking
  <2>6. race' \in RaceRecord /\ Further(race, race') /\ RoomFits'
    <3>1. /\ race' \in RaceRecord /\ race'.loading = race.loading /\ race'.cars = race.cars
          /\ race'.phase = race.phase /\ (race.locked => race'.locked)
      BY <2>1, <2>4, Parts DEF RaceRecord
    <3> QED
      BY <2>1, <3>1 DEF Further, RoomFits, Inv
  <2>7. CASE wire' = W /\ UNCHANGED flight
    <3>1. Types' /\ EndpointsFit'
      BY <2>1, <2>3, <2>5, <2>6, <2>7, Parts, QuietStep, SameIsAlike
    <3> QED
      BY <2>6, <3>1 DEF Inv
  <2>8. ASSUME NEW r \in Retries(p),
               wire' = [W EXCEPT ![p] = [W[p] EXCEPT !.retry = r.armed]],
               flight' = Resent(p, r)
        PROVE  Inv'
    <3>1. /\ r.armed \in BOOLEAN /\ flight' \in [Players -> Seq(Labels)]
          /\ \A q \in Players : NoSeed(flight[q], flight'[q])
          /\ \A q \in Players \ {p} : flight'[q] = flight[q]
      BY <2>1, <2>8, Resends
    <3>2. /\ [W[p] EXCEPT !.retry = r.armed] \in WireRecord
          /\ Alike(W[p], [W[p] EXCEPT !.retry = r.armed]) /\ Alike(wire[p], W[p])
      BY <2>1, <2>3, <3>1, QuietFields
    <3>3. Alike(wire[p], [W[p] EXCEPT !.retry = r.armed])
      BY <3>2 DEF Alike
    <3>4. Types' /\ EndpointsFit'
      BY <2>1, <2>3, <2>5, <2>6, <2>8, <3>1, <3>2, <3>3, Parts, QuietStep, SameIsAlike
    <3> QED
      BY <2>6, <3>4 DEF Inv
  <2> QED
    BY <2>1, <2>7, <2>8
<1> QED
  BY <1>1, <1>2, <1>3, <1>4, <1>5

-----------------------------------------------------------------------------
(* The steps that take the race further.                                   *)

LEMMA PairedIs ==
    ASSUME NEW e \in EpochRecord, NEW f
    PROVE  /\ Paired(e, f) \in EpochRecord /\ Paired(e, f).generation = e.generation
           /\ Paired(e, f).stage = "active" => e.stage = "active"
           /\ Paired(e, f).stage # "seeded" => e.stage # "seeded" \/ SeedsArrived(f)
BY DEF Paired, EpochRecord, Stages

\* broadcast_start_lock.
LEMMA StartLockStep ==
    ASSUME ConstantsAssumption, NoneAssumption, Inv, NEW p \in Players, StartLock(p)
    PROVE  Inv'
<1> DEFINE locked(q) == [wire[q] EXCEPT !.lock = TRUE]
<1>1. /\ race.phase = "expired" /\ race' = [race EXCEPT !.phase = "start_locked"]
      /\ wire' = [q \in Players |-> IF wire[q] = None THEN None ELSE locked(q)]
      /\ flight' = Publish(Live, <<"lock", 0>>) /\ UNCHANGED <<epoch, past>>
  BY DEF StartLock
<1>2. /\ race' \in RaceRecord /\ race'.phase = "start_locked"
      /\ race'.loading = race.loading /\ race'.cars = race.cars /\ race'.locked = race.locked
  BY <1>1, Parts DEF RaceRecord, Phases
<1>3. Further(race, race') /\ RoomFits'
  BY <1>1, <1>2 DEF Further, Late, RoomFits, Inv
<1>4. \A q \in Players : wire[q] # None =>
         locked(q) \in WireRecord /\ Keeps(wire[q], locked(q), race', past'.entered, q)
  <2> SUFFICES ASSUME NEW q \in Players, wire[q] # None
               PROVE  locked(q) \in WireRecord /\ Keeps(wire[q], locked(q), race', past'.entered, q)
    OBVIOUS
  <2>1. wire[q] \in WireRecord
    BY Parts
  <2>2. /\ locked(q) \in WireRecord /\ locked(q).lock = TRUE
        /\ locked(q).epoch = wire[q].epoch /\ locked(q).seed = wire[q].seed
        /\ locked(q).latency = wire[q].latency /\ locked(q).playing = wire[q].playing
        /\ locked(q).told = wire[q].told /\ locked(q).seen = wire[q].seen
    BY <2>1 DEF WireRecord
  <2>3. race'.phase \in Late
    BY <1>2 DEF Late
  <2> HIDE DEF locked
  <2> QED
    BY <2>1, <2>2, <2>3 DEF WireRecord, Keeps
<1> HIDE DEF locked
<1>5. /\ Publish(Live, <<"lock", 0>>) \in [Players -> Seq(Labels)]
      /\ \A q \in Players : NoSeed(flight[q], Publish(Live, <<"lock", 0>>)[q])
      /\ \A q \in Players \ Live : Publish(Live, <<"lock", 0>>)[q] = flight[q]
  <2>1. <<"lock", 0>> \in Labels /\ <<"lock", 0>>[1] # "seed"
    BY LabelsAre
  <2> QED
    BY <2>1, Published DEF Inv
<1>6. \A q \in Players : wire[q] = None => wire'[q] = None /\ flight'[q] = flight[q]
  BY <1>1, <1>5, Parts
<1>7. \A q \in Players : wire[q] # None =>
         /\ wire'[q] # None /\ Keeps(wire[q], wire'[q], race', past'.entered, q)
         /\ PairsLate(epoch, epoch', wire'[q], flight'[q]) /\ NoSeed(flight[q], flight'[q])
  BY <1>1, <1>4, <1>5 DEF NoneAssumption, PairsLate
<1>8. wire' \in [Players -> WireRecord \union {None}]
  BY <1>1, <1>4
<1>9. Types' /\ EndpointsFit'
  BY <1>1, <1>2, <1>3, <1>5, <1>6, <1>7, <1>8, Parts, StepsOn DEF Continues
<1> QED
  BY <1>3, <1>9 DEF Inv

\* relay_native_ready_bundle.
LEMMA NativeBundleStep ==
    ASSUME ConstantsAssumption, NoneAssumption, Inv, NativeBundle
    PROVE  Inv'
<1> DEFINE armed(q) == [wire[q] EXCEPT !.asked = TRUE, !.retry = FALSE, !.timer = race.timer]
           l == <<"timer", race.timer>>
<1>1. /\ epoch # None /\ epoch.stage = "paired" /\ epoch' = [epoch EXCEPT !.stage = "active"]
      /\ race' = [race EXCEPT !.phase = IF race.phase = "setup" THEN "countdown" ELSE race.phase,
                              !.left = "long", !.locked = TRUE]
      /\ wire' = [q \in Players |-> IF wire[q] = None THEN None ELSE armed(q)]
      /\ flight' = Publish(Live, l) /\ UNCHANGED past
  BY DEF NativeBundle
<1>2. /\ race' \in RaceRecord
      /\ race'.phase = IF race.phase = "setup" THEN "countdown" ELSE race.phase
      /\ race'.loading = race.loading /\ race'.cars = race.cars /\ race'.locked = TRUE
  BY <1>1, Parts DEF RaceRecord, Phases
<1>3. /\ epoch' \in EpochRecord /\ epoch'.generation = epoch.generation
      /\ epoch.stage # "seeded"
  BY <1>1, Parts DEF EpochRecord, Stages
<1>4. Further(race, race') /\ RoomFits' /\ Continues(epoch, epoch')
  <2>1. Further(race, race')
    BY <1>2 DEF Further, Late
  <2>2. RoomFits'
    <3>1. race.loading # {} => race.phase \in {"loading", "racing", "finished"}
      BY DEF RoomFits, Inv
    <3>2. race'.loading # {} => race'.phase \in {"loading", "racing", "finished"}
      BY <1>2, <3>1
    <3>3. race'.locked /\ race'.phase # "setup"
      BY <1>2
    <3>4. race'.loading \subseteq past'.entered
      BY <1>1, <1>2 DEF RoomFits, Inv
    <3> QED
      BY <3>2, <3>3, <3>4 DEF RoomFits
  <2>3. epoch' # None
    BY <1>3 DEF NoneAssumption
  <2> QED
    BY <1>1, <1>3, <2>1, <2>2, <2>3 DEF Continues
<1>5. race.timer \in Nat /\ l \in Labels /\ l[1] # "seed"
  BY Parts, LabelsAre DEF RaceRecord
<1>6. \A q \in Players : wire[q] # None => armed(q) \in WireRecord /\ Alike(wire[q], armed(q))
  BY <1>5, Parts, QuietFields
<1> HIDE DEF armed, l
<1>7. /\ Publish(Live, l) \in [Players -> Seq(Labels)]
      /\ \A q \in Players : NoSeed(flight[q], Publish(Live, l)[q])
      /\ \A q \in Players \ Live : Publish(Live, l)[q] = flight[q]
  BY <1>5, Published DEF Inv
<1>8. \A q \in Players : wire[q] = None => wire'[q] = None /\ flight'[q] = flight[q]
  BY <1>1, <1>7, Parts
<1>9. ASSUME NEW q \in Players, wire[q] # None
      PROVE  /\ wire'[q] # None /\ Keeps(wire[q], wire'[q], race', past'.entered, q)
             /\ PairsLate(epoch, epoch', wire'[q], flight'[q]) /\ NoSeed(flight[q], flight'[q])
  <2>1. wire'[q] = armed(q) /\ Alike(wire[q], armed(q)) /\ armed(q) \in WireRecord
    BY <1>1, <1>6, <1>9
  <2>2. Keeps(wire[q], wire'[q], race', past'.entered, q)
    BY <2>1, AlikeKeeps DEF Alike
  <2> QED
    BY <1>1, <1>3, <1>7, <2>1, <2>2 DEF NoneAssumption, PairsLate
<1>10. wire' \in [Players -> WireRecord \union {None}]
  BY <1>1, <1>6
<1>11. Types' /\ EndpointsFit'
  BY <1>1, <1>2, <1>3, <1>4, <1>7, <1>8, <1>9, <1>10, Parts, StepsOn
<1> QED
  BY <1>4, <1>11 DEF Inv

\* relay_clean_state13_ack, of the guest's states.
LEMMA GuestStatesStep ==
    ASSUME ConstantsAssumption, NoneAssumption, Inv, NEW S \in SUBSET {13, 15}, GuestStates(S)
    PROVE  Inv'
<1> DEFINE e == [epoch EXCEPT !.states = epoch.states \union S]
<1>1. /\ epoch # None /\ epoch.stage = "seeded" /\ epoch' = Paired(e, flight)
      /\ UNCHANGED <<race, wire, flight, past>>
  BY DEF GuestStates
<1>2. epoch \in EpochRecord
  BY <1>1, Parts
<1>3. e \in EpochRecord /\ e.generation = epoch.generation /\ e.stage = "seeded"
  BY <1>1, <1>2 DEF EpochRecord
<1> HIDE DEF e
<1>4. /\ epoch' \in EpochRecord /\ epoch'.generation = epoch.generation
      /\ epoch'.stage # "active"
      /\ epoch'.stage # "seeded" => SeedsArrived(flight)
  BY <1>1, <1>3, PairedIs
<1>5. RoomFits' /\ Continues(epoch, epoch')
  BY <1>1, <1>4 DEF RoomFits, Inv, Continues, NoneAssumption
<1>6. \A q \in Players : wire[q] # None =>
         /\ Keeps(wire[q], wire'[q], race', past'.entered, q)
         /\ PairsLate(epoch, epoch', wire'[q], flight'[q])
  BY <1>1, <1>4, Parts, AlikeKeeps DEF PairsLate, SeedsArrived
<1>7. Types' /\ EndpointsFit'
  BY <1>1, <1>4, <1>5, <1>6, Parts, StepsOn, SameIsAlike
<1> QED
  BY <1>5, <1>7 DEF Inv

\* AckTracker: an endpoint acknowledges the first n of what it was sent.
LEMMA AcknowledgeStep ==
    ASSUME ConstantsAssumption, NoneAssumption, Inv,
           NEW p \in Players, NEW n \in 1..Len(flight[p]), Acknowledge(p, n)
    PROVE  Inv'
<1> DEFINE g == SubSeq(flight[p], n + 1, Len(flight[p]))
           f == [flight EXCEPT ![p] = g]
           arrived == wire[p].lock /\ ~Contains(f[p], <<"lock", 0>>)
           left == IF race.phase = "finished" THEN {} ELSE Confirmed(wire[p].windows, f[p])
           w == [wire[p] EXCEPT !.latency = wire[p].latency \/ arrived, !.windows = left]
<1>1. /\ wire[p] # None /\ flight' = f /\ UNCHANGED <<race, past>>
      /\ epoch' = IF epoch = None THEN None ELSE Paired(epoch, f)
  BY DEF Acknowledge
<1>2. wire' = [wire EXCEPT ![p] = w]
  BY Parts DEF Acknowledge
<1>3. flight[p] \in Seq(Labels)
  BY Parts
<1>4. g \in Seq(Labels) /\ NoSeed(flight[p], g)
  BY <1>3, Acknowledged
<1>5. /\ f \in [Players -> Seq(Labels)]
      /\ \A q \in Players : NoSeed(flight[q], f[q])
      /\ \A q \in Players \ {p} : f[q] = flight[q]
  BY <1>4, Parts, SameIsAlike
<1>6. wire[p] \in WireRecord /\ arrived \in BOOLEAN /\ (arrived => wire[p].lock)
  BY <1>1, Parts
<1>7. left \subseteq wire[p].windows
  BY DEF Confirmed
<1> HIDE DEF g, f, arrived, left
<1>8. /\ w \in WireRecord /\ w.seed = wire[p].seed
      /\ Keeps(wire[p], w, race, past.entered, p)
  BY <1>6, <1>7 DEF WireRecord, Keeps
<1> HIDE DEF w
<1>9. /\ epoch' \in EpochRecord \union {None} /\ Continues(epoch, epoch')
      /\ epoch' # None => /\ epoch # None
                          /\ epoch'.stage = "active" => epoch.stage = "active"
                          /\ epoch'.stage # "seeded" => epoch.stage # "seeded" \/ SeedsArrived(f)
  <2>1. CASE epoch = None
    BY <1>1, <2>1 DEF Continues
  <2>2. CASE epoch # None
    <3>1. epoch \in EpochRecord /\ epoch' = Paired(epoch, f)
      BY <1>1, <2>2, Parts
    <3>2. epoch' \in EpochRecord /\ epoch' # None
      BY <3>1, PairedIs DEF NoneAssumption
    <3> QED
      BY <2>2, <3>1, <3>2, PairedIs DEF Continues
  <2> QED
    BY <2>1, <2>2
<1>10. RoomFits'
  BY <1>1, <1>9 DEF RoomFits, Inv
<1>11. ASSUME NEW q \in Players, wire[q] # None
       PROVE  /\ wire'[q] # None /\ wire'[q].seed = wire[q].seed
              /\ Keeps(wire[q], wire'[q], race', past'.entered, q)
  <2>1. CASE q = p
    BY <1>1, <1>2, <1>8, <2>1, Parts DEF NoneAssumption
  <2>2. CASE q # p
    BY <1>1, <1>2, <1>11, <2>2, Parts, AlikeKeeps
  <2> QED
    BY <2>1, <2>2
<1>12. ASSUME NEW q \in Players, wire[q] # None
       PROVE  PairsLate(epoch, epoch', wire'[q], flight'[q])
  <2>1. CASE epoch = None
    BY <1>1, <2>1 DEF PairsLate
  <2>2. CASE epoch # None
    <3>1. epoch' # None
      BY <1>9, <2>2 DEF Continues
    <3>2. SeedsArrived(f) => (wire'[q].seed # 0 => ~Contains(flight'[q], <<"seed", wire'[q].seed>>))
      BY <1>1, <1>11, <1>12, Parts DEF SeedsArrived
    <3> QED
      BY <1>9, <3>1, <3>2 DEF PairsLate
  <2> QED
    BY <2>1, <2>2
<1>13. \A q \in Players : wire[q] = None => wire'[q] = None /\ flight'[q] = flight[q]
  BY <1>1, <1>2, <1>5, Parts
<1>14. wire' \in [Players -> WireRecord \union {None}]
  BY <1>2, <1>8, Parts
<1>15. Types' /\ EndpointsFit'
  BY <1>1, <1>5, <1>9, <1>11, <1>12, <1>13, <1>14, Parts, StepsOn, SameIsAlike
<1> QED
  BY <1>10, <1>15 DEF Inv

\* AIRegistrationCoordinator.relay.
LEMMA RegisterCarStep ==
    ASSUME ConstantsAssumption, NoneAssumption, Inv, NEW c \in Cars, RegisterCar(c)
    PROVE  Inv'
<1> DEFINE told(q) == [wire[q] EXCEPT !.windows = wire[q].windows \union {c},
                                      !.told = wire[q].told \union {c}]
           l == <<"cars", c>>
<1>1. /\ race' = [race EXCEPT !.cars = race.cars \union {c}] /\ UNCHANGED <<epoch, past>>
      /\ wire' = [q \in Players |-> IF wire[q] = None THEN None ELSE told(q)]
      /\ flight' = Publish(Live, l)
  BY DEF RegisterCar
<1>2. /\ race' \in RaceRecord /\ race'.phase = race.phase /\ race'.loading = race.loading
      /\ race'.locked = race.locked /\ race'.cars = race.cars \union {c}
  BY <1>1, Parts DEF RaceRecord
<1>3. Further(race, race') /\ RoomFits'
  BY <1>1, <1>2 DEF Further, RoomFits, Inv
<1>4. l \in Labels /\ l[1] # "seed"
  BY LabelsAre
<1>5. ASSUME NEW q \in Players, wire[q] # None
      PROVE  told(q) \in WireRecord /\ Keeps(wire[q], told(q), race', past'.entered, q)
  <2>1. wire[q] \in WireRecord /\ wire[q].told \subseteq race.cars
    BY <1>5, Parts DEF Inv, EndpointsFit, Fits
  <2>2. told(q).told \subseteq race'.cars
    BY <1>2, <2>1 DEF WireRecord
  <2>3. told(q) \in WireRecord
    BY <2>1 DEF WireRecord
  <2> QED
    BY <2>1, <2>2, <2>3 DEF Keeps, WireRecord
<1> HIDE DEF told, l
<1>6. /\ Publish(Live, l) \in [Players -> Seq(Labels)]
      /\ \A q \in Players : NoSeed(flight[q], Publish(Live, l)[q])
      /\ \A q \in Players \ Live : Publish(Live, l)[q] = flight[q]
  BY <1>4, Published DEF Inv
<1>7. \A q \in Players : wire[q] = None => wire'[q] = None /\ flight'[q] = flight[q]
  BY <1>1, <1>6, Parts
<1>8. \A q \in Players : wire[q] # None =>
         /\ wire'[q] # None /\ Keeps(wire[q], wire'[q], race', past'.entered, q)
         /\ PairsLate(epoch, epoch', wire'[q], flight'[q]) /\ NoSeed(flight[q], flight'[q])
  BY <1>1, <1>5, <1>6 DEF NoneAssumption, PairsLate
<1>9. wire' \in [Players -> WireRecord \union {None}]
  BY <1>1, <1>5
<1>10. Types' /\ EndpointsFit'
  BY <1>1, <1>2, <1>3, <1>6, <1>7, <1>8, <1>9, Parts, StepsOn DEF Continues
<1> QED
  BY <1>3, <1>10 DEF Inv

\* maybe_broadcast_startsync, for endpoints W of which some have just been seen ready.
LEMMA StartSyncStep ==
    ASSUME ConstantsAssumption, NoneAssumption, Inv,
           NEW W \in [Players -> WireRecord \union {None}],
           past' \in PastRecord, past.entered \subseteq past'.entered, UNCHANGED epoch,
           \A q \in Players :
              /\ wire[q] = None => W[q] = None
              /\ wire[q] # None => /\ W[q] # None
                                   /\ Keeps(wire[q], W[q], race, past'.entered, q)
                                   /\ W[q].seen => wire[q].seen \/ q \in past'.entered,
           StartSync(W)
    PROVE  Inv'
<1>1. CASE StartsWith(W)
  <2> DEFINE to == {q \in Live : NeedsRefresh(q, W[q])}
             l == <<"cars", 0>>
  <2>1. /\ race' = [race EXCEPT !.phase = "racing"]
        /\ wire' = [q \in Players |-> IF W[q] = None THEN None ELSE Started(q, W[q])]
        /\ flight' = Publish(to, l)
    BY <1>1 DEF StartSync
  <2>2. /\ race' \in RaceRecord /\ race'.phase = "racing" /\ race'.loading = race.loading
        /\ race'.locked = race.locked /\ race'.cars = race.cars /\ race.phase = "loading"
    BY <1>1, <2>1, Parts DEF RaceRecord, Phases, StartsWith
  <2>3. Further(race, race')
    BY <2>2 DEF Further, Late
  <2>4. RoomFits'
    BY <2>2 DEF RoomFits, Inv
  <2>5. ASSUME NEW q \in Players, wire[q] # None
        PROVE  /\ Started(q, W[q]) \in WireRecord
               /\ Keeps(wire[q], Started(q, W[q]), race', past'.entered, q)
    <3>1. W[q] \in WireRecord /\ Keeps(wire[q], W[q], race, past'.entered, q)
      BY <2>5
    <3>2. W[q].seen /\ (wire[q].seen \/ q \in past'.entered)
      BY <1>1, <2>5, Parts DEF StartsWith
    <3>3. race.cars \subseteq Cars
      BY Parts DEF RaceRecord
    <3> DEFINE s == Started(q, W[q])
    <3>4. /\ s \in WireRecord /\ s.epoch = W[q].epoch /\ s.seed = W[q].seed
          /\ s.lock = W[q].lock /\ s.latency = W[q].latency
          /\ s.told = W[q].told \/ s.told = race.cars
      <4>1. CASE NeedsRefresh(q, W[q])
        <5>1. s = [W[q] EXCEPT !.playing = TRUE, !.refreshed = TRUE, !.windows = {0},
                               !.told = race.cars]
          BY <4>1 DEF Started
        <5> QED
          BY <3>1, <3>3, <5>1 DEF WireRecord
      <4>2. CASE ~NeedsRefresh(q, W[q])
        <5>1. s = [W[q] EXCEPT !.playing = TRUE]
          BY <4>2 DEF Started
        <5> QED
          BY <3>1, <5>1 DEF WireRecord
      <4> QED
        BY <4>1, <4>2
    <3> HIDE DEF s
    <3>5. Keeps(wire[q], s, race', past'.entered, q)
      <4>1. wire[q].epoch = s.epoch /\ wire[q].seed = s.seed
        BY <3>1, <3>4 DEF Keeps
      <4>2. s.lock => wire[q].lock \/ race'.phase \in Late
        BY <2>2 DEF Late
      <4>3. s.latency => s.lock \/ (wire[q].latency /\ (wire[q].lock => s.lock))
        BY <3>1, <3>4 DEF Keeps
      <4>4. s.told = wire[q].told \/ s.told \subseteq race'.cars
        BY <2>2, <3>1, <3>4 DEF Keeps
      <4> QED
        BY <2>2, <3>2, <4>1, <4>2, <4>3, <4>4 DEF Keeps
    <3> QED
      BY <3>4, <3>5 DEF s
  <2>6. to \subseteq Live
    OBVIOUS
  <2>7. l \in Labels /\ l[1] # "seed"
    BY LabelsAre
  <2> HIDE DEF to, l
  <2>8. /\ flight' \in [Players -> Seq(Labels)]
        /\ \A q \in Players : NoSeed(flight[q], flight'[q])
        /\ \A q \in Players \ to : flight'[q] = flight[q]
    BY <2>1, <2>7, Published DEF Inv
  <2>9. \A q \in Players : wire[q] = None => wire'[q] = None /\ flight'[q] = flight[q]
    BY <2>1, <2>6, <2>8, Parts
  <2>10. \A q \in Players : wire[q] # None =>
            /\ wire'[q] # None /\ Keeps(wire[q], wire'[q], race', past'.entered, q)
            /\ PairsLate(epoch, epoch', wire'[q], flight'[q]) /\ NoSeed(flight[q], flight'[q])
    BY <2>1, <2>5, <2>8 DEF NoneAssumption, PairsLate
  <2>11. wire' \in [Players -> WireRecord \union {None}]
    <3>1. \A q \in Players : W[q] # None => Started(q, W[q]) \in WireRecord
      BY <2>5
    <3> QED
      BY <2>1, <3>1
  <2>12. Types' /\ EndpointsFit'
    BY <2>2, <2>3, <2>8, <2>9, <2>10, <2>11, Parts, StepsOn DEF Continues
  <2> QED
    BY <2>4, <2>12 DEF Inv
<1>2. CASE ~StartsWith(W)
  <2>1. wire' = W /\ UNCHANGED <<race, flight>>
    BY <1>2 DEF StartSync
  <2>2. RoomFits'
    BY <2>1 DEF RoomFits, Inv
  <2>3. Types' /\ EndpointsFit'
    <3>1. \A q \in Players : wire[q] # None =>
            /\ wire'[q] # None /\ Keeps(wire[q], wire'[q], race', past'.entered, q)
            /\ PairsLate(epoch, epoch', wire'[q], flight'[q]) /\ NoSeed(flight[q], flight'[q])
      BY <2>1, SameIsAlike DEF PairsLate
    <3> QED
      BY <2>1, <3>1, Parts, StepsOn, SameIsAlike DEF Continues
  <2> QED
    BY <2>2, <2>3 DEF Inv
<1> QED
  BY <1>1, <1>2

LEMMA SeenKeeps ==
    ASSUME NEW w \in WireRecord, NEW s, NEW B, NEW p, p \in B
    PROVE  /\ [w EXCEPT !.seen = TRUE] \in WireRecord
           /\ Keeps(w, [w EXCEPT !.seen = TRUE], s, B, p)
BY DEF WireRecord, Keeps

LEMMA ReadySteps ==
    ASSUME ConstantsAssumption, NoneAssumption, Inv,
           Fallback \/ \E p \in Players : Ready(p)
    PROVE  Inv'
<1>1. ASSUME NEW p \in Players, Ready(p)
      PROVE  Inv'
  <2> DEFINE w == [wire[p] EXCEPT !.seen = TRUE]
             W == [wire EXCEPT ![p] = w]
  <2>1. /\ wire[p] # None /\ StartSync(W) /\ UNCHANGED epoch
        /\ past' = [past EXCEPT !.entered = past.entered \union {p}]
    BY <1>1, Parts DEF Ready
  <2>2. past' \in PastRecord /\ past'.entered = past.entered \union {p}
    BY <2>1, Parts DEF PastRecord
  <2>3. w \in WireRecord /\ Keeps(wire[p], w, race, past'.entered, p)
    BY <2>1, <2>2, Parts, SeenKeeps
  <2> HIDE DEF w
  <2>4. W \in [Players -> WireRecord \union {None}]
    BY <2>3, Parts
  <2>5. \A q \in Players :
           /\ wire[q] = None => W[q] = None
           /\ wire[q] # None => /\ W[q] # None
                                /\ Keeps(wire[q], W[q], race, past'.entered, q)
                                /\ W[q].seen => wire[q].seen \/ q \in past'.entered
    <3> SUFFICES ASSUME NEW q \in Players
                 PROVE  /\ wire[q] = None => W[q] = None
                        /\ wire[q] # None =>
                              /\ W[q] # None
                              /\ Keeps(wire[q], W[q], race, past'.entered, q)
                              /\ W[q].seen => wire[q].seen \/ q \in past'.entered
      OBVIOUS
    <3>1. CASE q = p
      BY <2>1, <2>2, <2>3, <3>1, Parts DEF NoneAssumption
    <3>2. CASE q # p
      BY <3>2, Parts, AlikeKeeps
    <3> QED
      BY <3>1, <3>2
  <2> HIDE DEF W
  <2> QED
    BY <2>1, <2>2, <2>4, <2>5, StartSyncStep
<1>2. CASE Fallback
  <2> DEFINE seen(q) == [wire[q] EXCEPT !.seen = TRUE]
             W == [q \in Players |-> IF wire[q] = None THEN None ELSE seen(q)]
  <2>1. /\ Live \subseteq race.loading /\ StartSync(W) /\ UNCHANGED <<epoch, past>>
    BY <1>2 DEF Fallback, AllEntered
  <2>2. \A q \in Players : wire[q] # None => q \in past'.entered
    BY <2>1, Parts DEF Inv, RoomFits
  <2>3. \A q \in Players : wire[q] # None =>
           seen(q) \in WireRecord /\ Keeps(wire[q], seen(q), race, past'.entered, q)
    BY <2>2, Parts, SeenKeeps
  <2> HIDE DEF seen
  <2>4. W \in [Players -> WireRecord \union {None}]
    BY <2>3
  <2>5. \A q \in Players :
           /\ wire[q] = None => W[q] = None
           /\ wire[q] # None => /\ W[q] # None
                                /\ Keeps(wire[q], W[q], race, past'.entered, q)
                                /\ W[q].seen => wire[q].seen \/ q \in past'.entered
    BY <2>2, <2>3 DEF NoneAssumption
  <2> HIDE DEF W
  <2> QED
    BY <2>1, <2>4, <2>5, Parts, StartSyncStep
<1> QED
  BY <1>1, <1>2

-----------------------------------------------------------------------------
(* The steps that take the room back, and the flags with it.               *)

\* What an endpoint promises about the race alone.
Flags(w, r, entered, p) ==
    /\ w.lock => r.phase \in Late
    /\ w.latency => w.lock
    /\ w.playing => r.phase \in {"racing", "finished"}
    /\ w.told \subseteq r.cars
    /\ w.playing \/ w.seen => p \in entered

\* It is not bound to an epoch.
Free(w, r, entered, p) == w.epoch = 0 /\ w.seed = 0 /\ Flags(w, r, entered, p)

LEMMA FreeFits ==
    ASSUME NEW w, NEW r, NEW A, NEW p, Free(w, r, A, p), NEW f, NEW e
    PROVE  Fits(w, f, r, e, A, p)
BY DEF Free, Flags, Fits

LEMMA FlagsGoOn ==
    ASSUME NEW w, NEW r, NEW s, NEW A, NEW p, Flags(w, r, A, p), Further(r, s)
    PROVE  Flags(w, s, A, p)
BY DEF Flags, Further

LEMMA NewIsFree ==
    /\ NewWire \in WireRecord
    /\ \A r, A, p : Free(NewWire, r, A, p)
<1>1. NewWire \in WireRecord
  BY DEF NewWire, WireRecord
<1>2. \A r, A, p : Free(NewWire, r, A, p)
  BY DEF NewWire, Free, Flags
<1> QED
  BY <1>1, <1>2

LEMMA ResetIsFree ==
    ASSUME NEW w \in WireRecord, NEW p
    PROVE  /\ ResetWire(p, w) \in WireRecord
           /\ \A r, A, q : Free(ResetWire(p, w), r, A, q)
<1> DEFINE v == ResetWire(p, w)
<1>1. w.complete \in BOOLEAN
  BY DEF WireRecord
<1>2. v = [NewWire EXCEPT !.complete = w.complete]
  BY DEF ResetWire
<1>3. v \in WireRecord
  BY <1>1, <1>2, NewIsFree DEF WireRecord
<1>4. /\ v.epoch = NewWire.epoch /\ v.seed = NewWire.seed /\ v.lock = NewWire.lock
      /\ v.latency = NewWire.latency /\ v.playing = NewWire.playing /\ v.told = NewWire.told
      /\ v.seen = NewWire.seen
  BY <1>1, <1>2, NewIsFree DEF WireRecord
<1> HIDE DEF v
<1>5. \A r, A, q : Free(v, r, A, q)
  BY <1>4, NewIsFree DEF Free, Flags
<1> QED
  BY <1>3, <1>5 DEF v

LEMMA AbortedIsFree ==
    ASSUME NEW w \in WireRecord, NEW p, NEW r, NEW A, NEW q, Flags(w, r, A, q)
    PROVE  AbortedWire(p, w) \in WireRecord /\ Free(AbortedWire(p, w), r, A, q)
BY DEF AbortedWire, WireRecord, Free, Flags

\* abort_ready_epoch leaves no endpoint bound to an epoch.
LEMMA Aborted ==
    ASSUME ConstantsAssumption, NoneAssumption, Inv,
           NEW W \in [Players -> WireRecord \union {None}],
           \A q \in Players : W[q] # None => W[q] = wire[q]
    PROVE  /\ AbortedIn(W) \in [Players -> WireRecord \union {None}]
           /\ \A q \in Players :
                 /\ W[q] = None <=> AbortedIn(W)[q] = None
                 /\ W[q] # None => AbortedIn(W)[q] \in WireRecord
                                   /\ Free(AbortedIn(W)[q], race, past.entered, q)
<1>1. ASSUME NEW q \in Players, W[q] # None
      PROVE  W[q] \in WireRecord /\ Fits(W[q], flight[q], race, epoch, past.entered, q)
  BY <1>1, Parts DEF Inv, EndpointsFit
<1>2. ASSUME NEW q \in Players, W[q] # None
      PROVE  Flags(W[q], race, past.entered, q) /\ (epoch = None => W[q].epoch = 0 /\ W[q].seed = 0)
  BY <1>1, <1>2 DEF Fits, Flags
<1>3. CASE epoch = None
  BY <1>1, <1>2, <1>3 DEF AbortedIn, Free
<1>4. CASE epoch # None
  <2>1. AbortedIn(W) = [q \in Players |-> IF W[q] = None THEN None ELSE AbortedWire(q, W[q])]
    BY <1>4 DEF AbortedIn
  <2>2. \A q \in Players : W[q] # None =>
           /\ AbortedWire(q, W[q]) \in WireRecord
           /\ Free(AbortedWire(q, W[q]), race, past.entered, q)
    BY <1>1, <1>2, AbortedIsFree
  <2> QED
    BY <2>1, <2>2 DEF NoneAssumption
<1> QED
  BY <1>3, <1>4

LEMMA AbortedRaceIs ==
    ASSUME Inv
    PROVE  /\ AbortedRace \in RaceRecord /\ Further(race, AbortedRace)
           /\ AbortedRace.loading = race.loading
           /\ race.loading # {} => AbortedRace.phase = race.phase
<1>1. race \in RaceRecord
  BY Parts
<1>2. race.loading # {} => race.phase \notin {"setup", "countdown"}
  BY DEF Inv, RoomFits
<1>3. CASE race.phase \in {"setup", "countdown"}
  <2>1. AbortedRace = [race EXCEPT !.phase = "setup", !.locked = FALSE, !.left = "none",
                                   !.timer = 0]
    BY <1>3 DEF AbortedRace
  <2>2. /\ AbortedRace \in RaceRecord /\ AbortedRace.loading = race.loading
        /\ AbortedRace.cars = race.cars
    BY <1>1, <2>1 DEF RaceRecord, Phases
  <2> QED
    BY <1>2, <1>3, <2>2 DEF Further, Late
<1>4. CASE race.phase \notin {"setup", "countdown"}
  BY <1>1, <1>4, SameIsAlike DEF AbortedRace
<1> QED
  BY <1>3, <1>4

LEMMA NewRaces ==
    /\ NewRace \in RaceRecord /\ NewRace.loading = {}
    /\ \A b \in BOOLEAN : NextRace(b) \in RaceRecord /\ NextRace(b).loading = {}
<1>1. NewRace \in RaceRecord /\ NewRace.loading = {}
  BY DEF NewRace, RaceRecord, Phases
<1>2. ASSUME NEW b \in BOOLEAN
      PROVE  NextRace(b) \in RaceRecord /\ NextRace(b).loading = {}
  <2>1. NextRace(b) = [NewRace EXCEPT !.reopened = b]
    BY DEF NextRace
  <2> QED
    BY <1>1, <2>1 DEF RaceRecord
<1> QED
  BY <1>1, <1>2

LEMMA CountRaceIs ==
    ASSUME Inv
    PROVE  CountRace \in PastRecord /\ CountRace.entered = {}
<1> DEFINE m == past.races + 1
<1>1. past \in PastRecord /\ m \in Nat
  BY Parts DEF PastRecord
<1>2. CountRace = [past EXCEPT !.races = m, !.entered = {}]
  BY DEF CountRace
<1> HIDE DEF m
<1>3. {} \in SUBSET Players
  OBVIOUS
<1>4. /\ [past EXCEPT !.races = m, !.entered = {}] \in PastRecord
      /\ [past EXCEPT !.races = m, !.entered = {}].entered = {}
  BY <1>1, <1>3 DEF PastRecord
<1> QED
  BY <1>2, <1>4

\* reset_finished_race_for_rematch.
LEMMA RematchIsFree ==
    ASSUME NEW W \in [Players -> WireRecord \union {None}], NoneAssumption
    PROVE  /\ Rematch(W) \in [Players -> WireRecord \union {None}]
           /\ \A q \in Players :
                 /\ W[q] = None <=> Rematch(W)[q] = None
                 /\ W[q] # None => Rematch(W)[q] \in WireRecord
                                   /\ \A r, A : Free(Rematch(W)[q], r, A, q)
<1>1. \A q \in Players : W[q] # None =>
         /\ ResetWire(q, W[q]) \in WireRecord
         /\ \A r, A : Free(ResetWire(q, W[q]), r, A, q)
  BY ResetIsFree
<1> QED
  BY <1>1 DEF Rematch, NoneAssumption

LEMMA BindStep ==
    ASSUME ConstantsAssumption, NoneAssumption, Inv, NEW p \in Players, Bind(p)
    PROVE  Inv'
<1>1. wire' = [wire EXCEPT ![p] = NewWire] /\ UNCHANGED <<race, epoch, flight, past>>
  BY DEF Bind
<1>2. wire' \in [Players -> WireRecord \union {None}]
  BY <1>1, NewIsFree, Parts
<1>3. Types'
  BY <1>1, <1>2, Parts, NewIsFree DEF Types, Inv, NoneAssumption
<1>4. RoomFits'
  BY <1>1 DEF Inv, RoomFits
<1>5. ASSUME NEW q \in Players, wire'[q] # None
      PROVE  Fits(wire'[q], flight'[q], race', epoch', past'.entered, q)
  <2>1. CASE q = p
    BY <1>1, <2>1, NewIsFree, FreeFits, Parts
  <2>2. CASE q # p
    BY <1>1, <1>5, <2>2, Parts DEF Inv, EndpointsFit
  <2> QED
    BY <2>1, <2>2
<1> QED
  BY <1>3, <1>4, <1>5 DEF Inv, EndpointsFit

\* drop_endpoint.
LEMMA DropStep ==
    ASSUME ConstantsAssumption, NoneAssumption, Inv, NEW p \in Players, Drop(p)
    PROVE  Inv'
<1> DEFINE rest == [wire EXCEPT ![p] = None]
           last == Live = {p}
<1>1. /\ wire[p] # None /\ wire' = AbortedIn(rest) /\ epoch' = None
      /\ race' = IF last THEN NewRace ELSE AbortedRace
      /\ flight' = [flight EXCEPT ![p] = <<>>]
      /\ past' = [past EXCEPT !.drops = past.drops + 1,
                              !.epochs = IF last THEN 0 ELSE past.epochs,
                              !.entered = IF last THEN {} ELSE past.entered]
  BY DEF Drop
<1>2. past' \in PastRecord /\ past'.entered = IF last THEN {} ELSE past.entered
  <2> DEFINE m == past.drops + 1
             n == IF last THEN 0 ELSE past.epochs
             S == IF last THEN {} ELSE past.entered
  <2>1. past \in PastRecord /\ m \in Nat /\ n \in Nat /\ S \in SUBSET Players
    BY Parts DEF PastRecord
  <2>2. past' = [past EXCEPT !.drops = m, !.epochs = n, !.entered = S]
    BY <1>1
  <2> HIDE DEF m, n, S
  <2>3. /\ [past EXCEPT !.drops = m, !.epochs = n, !.entered = S] \in PastRecord
        /\ [past EXCEPT !.drops = m, !.epochs = n, !.entered = S].entered = S
    BY <2>1 DEF PastRecord
  <2> QED
    BY <2>2, <2>3 DEF S
<1>3. /\ rest \in [Players -> WireRecord \union {None}] /\ rest[p] = None
      /\ \A q \in Players : rest[q] # None => rest[q] = wire[q]
      /\ \A q \in Players \ {p} : rest[q] = wire[q]
  BY Parts
<1> HIDE DEF rest
<1>4. /\ wire' \in [Players -> WireRecord \union {None}]
      /\ \A q \in Players :
            /\ rest[q] = None <=> wire'[q] = None
            /\ rest[q] # None => Free(wire'[q], race, past.entered, q)
  BY <1>1, <1>3, Aborted
<1>5. race' \in RaceRecord /\ RoomFits'
  BY <1>1, <1>2, NewRaces, AbortedRaceIs DEF RoomFits, Inv
<1>6. /\ flight' \in [Players -> Seq(Labels)]
      /\ \A q \in Players : wire'[q] = None => flight'[q] = <<>>
  BY <1>1, <1>3, <1>4, Parts DEF Inv, Types
<1>7. Types'
  BY <1>1, <1>2, <1>4, <1>5, <1>6 DEF Types
<1>8. ASSUME NEW q \in Players, wire'[q] # None
      PROVE  Fits(wire'[q], flight'[q], race', epoch', past'.entered, q)
  <2>1. q # p /\ wire[q] # None /\ Free(wire'[q], race, past.entered, q)
    BY <1>3, <1>4, <1>8
  <2>2. ~last
    BY <2>1, Parts
  <2>3. Further(race, race') /\ past'.entered = past.entered
    BY <1>1, <1>2, <2>2, AbortedRaceIs
  <2>4. Free(wire'[q], race', past'.entered, q)
    BY <2>1, <2>3, FlagsGoOn DEF Free
  <2> QED
    BY <2>4, FreeFits
<1> QED
  BY <1>5, <1>7, <1>8 DEF Inv, EndpointsFit

\* reopen_finished_room.
LEMMA ReopenStep ==
    ASSUME ConstantsAssumption, NoneAssumption, Inv, NEW p \in Players, Reopen(p)
    PROVE  Inv'
<1>1. /\ race' = NextRace(TRUE) /\ epoch' = None /\ wire' = Rematch(AbortedIn(wire))
      /\ past' = CountRace /\ UNCHANGED flight
  BY DEF Reopen
<1>2. /\ AbortedIn(wire) \in [Players -> WireRecord \union {None}]
      /\ \A q \in Players : wire[q] = None <=> AbortedIn(wire)[q] = None
  BY Parts, Aborted
<1>3. /\ wire' \in [Players -> WireRecord \union {None}]
      /\ \A q \in Players : wire[q] = None <=> wire'[q] = None
      /\ \A q \in Players : wire'[q] # None => \A r, A : Free(wire'[q], r, A, q)
  BY <1>1, <1>2, RematchIsFree
<1>4. past' \in PastRecord /\ past'.entered = {}
  BY <1>1, CountRaceIs
<1>5. race' \in RaceRecord /\ RoomFits'
  BY <1>1, NewRaces DEF RoomFits
<1>6. Types'
  BY <1>1, <1>3, <1>4, <1>5, Parts DEF Types, Inv
<1>7. EndpointsFit'
  BY <1>3, FreeFits DEF EndpointsFit
<1> QED
  BY <1>5, <1>6, <1>7 DEF Inv

LEMMA SeededFits ==
    ASSUME NEW w \in WireRecord, NEW n \in Nat, NEW t \in Nat, NEW f, NEW r, NEW e,
           NEW A, NEW p, Flags(w, r, A, p), e # None, e.generation = n, e.stage = "seeded"
    PROVE  SeededWire(w, n, t) \in WireRecord /\ Fits(SeededWire(w, n, t), f, r, e, A, p)
<1> DEFINE v == SeededWire(w, n, t)
<1>1. /\ v \in WireRecord /\ v.epoch = n /\ v.seed = n /\ v.lock = w.lock
      /\ v.latency = w.latency /\ v.playing = w.playing /\ v.told = w.told /\ v.seen = w.seen
  BY DEF SeededWire, WireRecord
<1> HIDE DEF v
<1>2. Fits(v, f, r, e, A, p)
  BY <1>1 DEF Flags, Fits
<1> QED
  BY <1>1, <1>2 DEF v

\* relay_retail_ready_seed.
LEMMA SeedStep ==
    ASSUME ConstantsAssumption, NoneAssumption, Inv,
           NEW source \in 1 .. MaxSeeds, NEW guest \in Players, Seed(source, guest)
    PROVE  Inv'
<1> DEFINE rematch == race.phase = "finished"
           W == IF rematch THEN Rematch(AbortedIn(wire)) ELSE AbortedIn(wire)
           r == IF rematch THEN NextRace(FALSE)
                ELSE IF epoch # None THEN AbortedRace ELSE race
           n == past.epochs + 1
           t == IF r.timer = 0 \/ source > past.seeds THEN r.timer + 1 ELSE r.timer
           before == IF rematch THEN CountRace ELSE past
<1>1. /\ guest \in Guests
      /\ wire' = [q \in Players |-> IF W[q] = None THEN None ELSE SeededWire(W[q], n, t)]
      /\ race' = [r EXCEPT !.timer = t] /\ epoch' = NewEpoch(n, source, guest)
      /\ flight' = Publish(Live, <<"seed", n>>)
      /\ past' = [before EXCEPT !.seeds = source, !.epochs = n]
  BY DEF Seed, SeedPublished
<1>2. /\ AbortedIn(wire) \in [Players -> WireRecord \union {None}]
      /\ \A q \in Players :
            /\ wire[q] = None <=> AbortedIn(wire)[q] = None
            /\ wire[q] # None => Free(AbortedIn(wire)[q], race, past.entered, q)
  BY Parts, Aborted
<1>3. source \in Nat
  BY DEF ConstantsAssumption
<1>4. n \in Nat
  BY Parts DEF PastRecord
<1>5. before \in PastRecord
  BY Parts, CountRaceIs
<1>6. past' \in PastRecord /\ past'.entered = before.entered
  BY <1>1, <1>3, <1>4, <1>5 DEF PastRecord
<1>7. r \in RaceRecord /\ r.loading \subseteq before.entered
      /\ (r.loading # {} => r.phase \in {"loading", "racing", "finished"})
  <2>1. CASE rematch
    BY <2>1, NewRaces
  <2>2. CASE ~rematch
    BY <2>2, Parts, AbortedRaceIs DEF Inv, RoomFits
  <2> QED
    BY <2>1, <2>2
<1>8. /\ W \in [Players -> WireRecord \union {None}]
      /\ \A q \in Players :
            /\ wire[q] = None <=> W[q] = None
            /\ wire[q] # None => W[q] \in WireRecord /\ Flags(W[q], r, before.entered, q)
  <2>1. CASE rematch
    BY <1>2, <2>1, RematchIsFree DEF Free
  <2>2. CASE ~rematch
    <3>1. Further(race, r) /\ before = past /\ W = AbortedIn(wire)
      BY <2>2, AbortedRaceIs, SameIsAlike
    <3> HIDE DEF W, r, before
    <3>2. \A q \in Players : wire[q] # None => W[q] \in WireRecord
      BY <1>2, <3>1
    <3>3. \A q \in Players : wire[q] # None => Flags(W[q], r, before.entered, q)
      BY <1>2, <3>1, FlagsGoOn DEF Free
    <3> QED
      BY <1>2, <3>1, <3>2, <3>3
  <2> QED
    BY <2>1, <2>2
<1> HIDE DEF W, r, before
<1>9. t \in Nat
  BY <1>7 DEF RaceRecord
<1> HIDE DEF n, t
<1>10. /\ race' \in RaceRecord /\ race'.loading = r.loading /\ race'.phase = r.phase
       /\ race'.cars = r.cars
  BY <1>1, <1>7, <1>9 DEF RaceRecord
<1>11. /\ epoch' \in EpochRecord /\ epoch' # None /\ epoch'.generation = n
       /\ epoch'.stage = "seeded"
  <2>1. guest \in Players \ {Host}
    BY <1>1 DEF Guests
  <2>2. epoch' \in EpochRecord /\ epoch'.generation = n /\ epoch'.stage = "seeded"
    BY <1>1, <1>3, <1>4, <2>1 DEF NewEpoch, EpochRecord, Stages
  <2> QED
    BY <2>2 DEF NoneAssumption
<1>12. RoomFits'
  BY <1>6, <1>7, <1>10, <1>11 DEF RoomFits
<1>13. /\ flight' \in [Players -> Seq(Labels)]
       /\ \A q \in Players \ Live : flight'[q] = flight[q]
  BY <1>1, <1>4, LabelsAre, Published DEF Inv
<1>14. ASSUME NEW q \in Players, wire[q] # None
       PROVE  /\ wire'[q] \in WireRecord
              /\ Fits(wire'[q], flight'[q], race', epoch', past'.entered, q)
  <2>1. W[q] \in WireRecord /\ Flags(W[q], r, before.entered, q) /\ W[q] # None
    BY <1>8, <1>14
  <2>2. Further(r, race')
    BY <1>10 DEF Further
  <2>3. Flags(W[q], race', past'.entered, q)
    BY <1>6, <2>1, <2>2, FlagsGoOn
  <2>4. wire'[q] = SeededWire(W[q], n, t)
    BY <1>1, <2>1
  <2> QED
    BY <1>4, <1>9, <1>11, <2>1, <2>3, <2>4, SeededFits
<1>15. \A q \in Players : wire[q] = None => wire'[q] = None
  BY <1>1, <1>8
<1>16. wire' \in [Players -> WireRecord \union {None}]
  <2>1. wire' = [q \in Players |-> wire'[q]]
    BY <1>1
  <2> QED
    BY <1>14, <1>15, <2>1
<1>17. \A q \in Players : wire'[q] = None => flight'[q] = <<>>
  BY <1>13, <1>14, Parts DEF NoneAssumption, Inv, Types
<1>18. Types'
  BY <1>6, <1>10, <1>11, <1>13, <1>16, <1>17 DEF Types
<1>19. EndpointsFit'
  BY <1>14, <1>15 DEF EndpointsFit
<1> QED
  BY <1>12, <1>18, <1>19 DEF Inv

-----------------------------------------------------------------------------
(* The invariant and what follows from it.                                 *)

LEMMA Initially ==
    ASSUME ConstantsAssumption, NoneAssumption, Init
    PROVE  Inv
<1>1. race = NewRace /\ epoch = None /\ past.entered = {}
  BY DEF Init
<1>2. wire \in [Players -> WireRecord \union {None}] /\ \A p \in Players : wire[p] = None
  BY DEF Init
<1>3. flight \in [Players -> Seq(Labels)] /\ \A p \in Players : flight[p] = <<>>
  BY DEF Init
<1>4. past \in PastRecord
  BY DEF Init, PastRecord
<1> QED
  BY <1>1, <1>2, <1>3, <1>4, NewRaces DEF Inv, Types, RoomFits, EndpointsFit

LEMMA Stuttering ==
    ASSUME Inv, UNCHANGED vars
    PROVE  Inv'
BY DEF vars, Inv, Types, RoomFits, EndpointsFit

LEMMA NextStep ==
    ASSUME ConstantsAssumption, NoneAssumption, Inv, Next
    PROVE  Inv'
<1>1. CASE Commit \/ ExpireCountdown \/ PassTime \/ HostLoads \/ FinishRace
  BY <1>1, RoomSteps
<1>2. CASE NativeBundle
  BY <1>2, NativeBundleStep
<1>3. CASE Fallback
  BY <1>3, ReadySteps
<1>4. ASSUME NEW p \in Players,
             \/ Bind(p) \/ Drop(p) \/ Complete(p) \/ Allocating(p) \/ RetryTimer(p)
             \/ StartLock(p) \/ GuestLoads(p) \/ Ready(p) \/ Reopen(p) \/ GiveUpCars(p)
             \/ \E fresh \in BOOLEAN : StartTimer(p, fresh)
             \/ \E off, disable \in BOOLEAN : ReadyControl(p, off, disable)
             \/ \E source \in 1 .. MaxSeeds : Seed(source, p)
             \/ \E n \in 1 .. Len(flight[p]) : Acknowledge(p, n)
      PROVE  Inv'
  <2>1. CASE Bind(p) \/ Drop(p) \/ Reopen(p) \/ StartLock(p)
    BY <2>1, BindStep, DropStep, ReopenStep, StartLockStep
  <2>2. CASE GuestLoads(p) \/ Ready(p)
    BY <2>2, RoomSteps, ReadySteps
  <2>3. CASE \/ Complete(p) \/ Allocating(p) \/ RetryTimer(p) \/ GiveUpCars(p)
             \/ \E fresh \in BOOLEAN : StartTimer(p, fresh)
             \/ \E off, disable \in BOOLEAN : ReadyControl(p, off, disable)
    BY <2>3, TimerSteps
  <2>4. CASE \E source \in 1 .. MaxSeeds : Seed(source, p)
    BY <2>4, SeedStep
  <2>5. CASE \E n \in 1 .. Len(flight[p]) : Acknowledge(p, n)
    BY <2>5, AcknowledgeStep
  <2> QED
    BY <1>4, <2>1, <2>2, <2>3, <2>4, <2>5
<1>5. CASE \E S \in (SUBSET {13, 15}) \ {{}} : GuestStates(S)
  BY <1>5, GuestStatesStep
<1>6. CASE \E c \in Cars : RegisterCar(c)
  BY <1>6, RegisterCarStep
<1> QED
  BY <1>1, <1>2, <1>3, <1>4, <1>5, <1>6 DEF Next

LEMMA Invariant ==
    ASSUME ConstantsAssumption, NoneAssumption
    PROVE  Spec => []Inv
<1>1. Init => Inv
  BY Initially
<1>2. Inv /\ [Next]_vars => Inv'
  BY NextStep, Stuttering
<1> QED
  BY <1>1, <1>2, PTL DEF Spec

\* Types hold for ever, and who loads is in a race that loads, runs or has run.
THEOREM StartTypes ==
    ASSUME ConstantsAssumption, NoneAssumption
    PROVE  Spec => []TypeOK
<1>1. Inv => TypeOK
  <2> SUFFICES ASSUME Inv
               PROVE  TypeOK
    OBVIOUS
  <2>1. race \in RaceRecord /\ epoch \in EpochRecord \union {None}
    BY Parts
  <2>2. epoch # None => epoch.stage \in Stages /\ epoch.guest \in Players \ {Host}
    BY <2>1 DEF EpochRecord
  <2>3. race.phase \in Phases /\ race.timer \in Nat
        /\ race.loading \subseteq Players /\ race.cars \subseteq Cars
    BY <2>1 DEF RaceRecord
  <2> QED
    BY <2>2, <2>3 DEF TypeOK, Inv, Types, RoomFits
<1> QED
  BY <1>1, Invariant, PTL

\* abort_ready_epoch: an active Ready epoch has a locked room that counts down or is
\* further, and no endpoint is armed by an epoch that is over.
THEOREM EpochsMatchRaces ==
    ASSUME ConstantsAssumption, NoneAssumption
    PROVE  Spec => []EpochMatchesRace
<1>1. Inv => EpochMatchesRace
  BY DEF Inv, RoomFits, EndpointsFit, Fits, Live, Types, EpochMatchesRace
<1> QED
  BY <1>1, Invariant, PTL

\* relay_clean_state13_ack: the helper's states go to nobody before every endpoint has
\* acknowledged its own seed.
THEOREM PairsFollowSeeds ==
    ASSUME ConstantsAssumption, NoneAssumption
    PROVE  Spec => []PairFollowsSeeds
<1>1. Inv => PairFollowsSeeds
  BY DEF Inv, EndpointsFit, Fits, Live, Types, PairFollowsSeeds, Outstanding
<1> QED
  BY <1>1, Invariant, PTL

\* reset_finished_race_for_rematch: start lock, latency, start and registrations belong
\* to the stages and the cars of the race that the room is in.
THEOREM FlagsAreOfTheirRace ==
    ASSUME ConstantsAssumption, NoneAssumption
    PROVE  Spec => []FlagsAreOfThisRace
<1>1. Inv => FlagsAreOfThisRace
  BY DEF Inv, EndpointsFit, Fits, Live, Types, FlagsAreOfThisRace
<1> QED
  BY <1>1, Invariant, PTL

\* maybe_broadcast_startsync and its fallback: nobody is started who did not report
\* READY or loading in this very race.
THEOREM NobodyIsStartedUnprepared ==
    ASSUME ConstantsAssumption, NoneAssumption
    PROVE  Spec => []NobodyStartsUnprepared
<1>1. Inv => NobodyStartsUnprepared
  BY DEF Inv, EndpointsFit, Fits, Live, Types, NobodyStartsUnprepared
<1> QED
  BY <1>1, Invariant, PTL

-----------------------------------------------------------------------------
(* Computer racers: what an endpoint was told of the cars of the race.     *)

\* A refreshed endpoint knows every car; one with a pending window knows one; so does
\* one that races against some.
Told(w, r, p) ==
    /\ w.refreshed => w.told = r.cars
    /\ w.windows # {} => w.told # {}
    /\ w.playing /\ p # Host /\ r.cars # {} => w.told # {}

CarsFit == \A p \in Players : wire[p] # None => Told(wire[p], race, p)

SameCars(v, w) ==
    /\ w.told = v.told /\ w.refreshed = v.refreshed /\ w.playing = v.playing
    /\ w.windows \subseteq v.windows

\* It knows no car and does not race.
Bare(w) == w.windows = {} /\ ~w.refreshed /\ ~w.playing

\* A step that registers no car and starts no race.
LEMMA CarsStay ==
    ASSUME CarsFit,
           \A q \in Players : wire'[q] # None =>
              \/ Bare(wire'[q])
              \/ wire[q] # None /\ SameCars(wire[q], wire'[q]) /\ race'.cars = race.cars
    PROVE  CarsFit'
<1>1. ASSUME NEW q \in Players, wire'[q] # None
      PROVE  Told(wire'[q], race', q)
  <2>1. CASE Bare(wire'[q])
    BY <2>1 DEF Bare, Told
  <2>2. CASE wire[q] # None /\ SameCars(wire[q], wire'[q]) /\ race'.cars = race.cars
    BY <2>2 DEF CarsFit, SameCars, Told
  <2> QED
    BY <1>1, <2>1, <2>2
<1> QED
  BY <1>1 DEF CarsFit

LEMMA QuietCars ==
    ASSUME NEW w \in WireRecord, NEW b \in BOOLEAN, NEW c \in BOOLEAN, NEW n \in Nat,
           NEW S \in SUBSET w.windows, NEW m \in Nat, NEW p
    PROVE  /\ SameCars(w, w)
           /\ SameCars(w, [w EXCEPT !.complete = b]) /\ SameCars(w, [w EXCEPT !.allocated = b])
           /\ SameCars(w, [w EXCEPT !.retry = b]) /\ SameCars(w, [w EXCEPT !.asked = b])
           /\ SameCars(w, [w EXCEPT !.lock = b]) /\ SameCars(w, [w EXCEPT !.seen = b])
           /\ SameCars(w, [w EXCEPT !.timer = n, !.retry = b])
           /\ SameCars(w, [w EXCEPT !.asked = b, !.retry = c, !.timer = n])
           /\ SameCars(w, [w EXCEPT !.windows = S])
           /\ SameCars(w, [w EXCEPT !.latency = b, !.windows = S])
           /\ SameCars(w, AbortedWire(p, w)) /\ SameCars(w, SeededWire(w, m, n))
<1>1. /\ SameCars(w, w)
      /\ SameCars(w, [w EXCEPT !.complete = b]) /\ SameCars(w, [w EXCEPT !.allocated = b])
      /\ SameCars(w, [w EXCEPT !.retry = b]) /\ SameCars(w, [w EXCEPT !.asked = b])
  BY DEF WireRecord, SameCars
<1>2. /\ SameCars(w, [w EXCEPT !.lock = b]) /\ SameCars(w, [w EXCEPT !.seen = b])
      /\ SameCars(w, [w EXCEPT !.timer = n, !.retry = b])
      /\ SameCars(w, [w EXCEPT !.asked = b, !.retry = c, !.timer = n])
  BY DEF WireRecord, SameCars
<1>3. /\ SameCars(w, [w EXCEPT !.windows = S])
      /\ SameCars(w, [w EXCEPT !.latency = b, !.windows = S])
  BY DEF WireRecord, SameCars
<1>4. SameCars(w, AbortedWire(p, w)) /\ SameCars(w, SeededWire(w, m, n))
  BY DEF WireRecord, SameCars, AbortedWire, SeededWire
<1> QED
  BY <1>1, <1>2, <1>3, <1>4

LEMMA SameCarsTwice ==
    ASSUME NEW u, NEW v, NEW w, SameCars(u, v), SameCars(v, w)
    PROVE  SameCars(u, w)
BY DEF SameCars

LEMMA NewIsBare ==
    /\ Bare(NewWire)
    /\ \A w \in WireRecord : \A p : Bare(ResetWire(p, w))
<1>1. Bare(NewWire)
  BY DEF NewWire, Bare
<1>2. ASSUME NEW w \in WireRecord, NEW p
      PROVE  Bare(ResetWire(p, w))
  <2> DEFINE c == w.complete
  <2>1. ResetWire(p, w) = [NewWire EXCEPT !.complete = c]
    BY DEF ResetWire
  <2> HIDE DEF c
  <2>2. /\ ResetWire(p, w).windows = NewWire.windows
        /\ ResetWire(p, w).refreshed = NewWire.refreshed
        /\ ResetWire(p, w).playing = NewWire.playing
    BY <2>1, NewIsFree DEF WireRecord
  <2> QED
    BY <1>1, <2>2 DEF Bare
<1> QED
  BY <1>1, <1>2

\* The room alone changes, the lock and the native bundle are sent, or an endpoint comes.
LEMMA CarsRoomSteps ==
    ASSUME ConstantsAssumption, NoneAssumption, Inv, CarsFit,
           \/ Commit \/ ExpireCountdown \/ PassTime \/ HostLoads \/ FinishRace
           \/ NativeBundle
           \/ \E p \in Players : GuestLoads(p) \/ StartLock(p) \/ Bind(p)
           \/ \E S \in SUBSET {13, 15} : GuestStates(S)
    PROVE  CarsFit'
<1>1. race \in RaceRecord /\ race.timer \in Nat
  BY Parts DEF RaceRecord
<1>2. \A q \in Players : wire[q] # None => SameCars(wire[q], wire[q])
  BY Parts, QuietCars
<1>3. CASE \/ Commit \/ ExpireCountdown \/ PassTime \/ HostLoads \/ FinishRace
           \/ \E p \in Players : GuestLoads(p)
           \/ \E S \in SUBSET {13, 15} : GuestStates(S)
  <2>1. wire' = wire
    BY <1>3 DEF Commit, ExpireCountdown, PassTime, HostLoads, FinishRace, GuestLoads, GuestStates
  <2>2. race'.cars = race.cars
    BY <1>1, <1>3 DEF Commit, ExpireCountdown, PassTime, HostLoads, FinishRace, GuestLoads,
                      GuestStates, Observed, RaceRecord
  <2> QED
    BY <1>2, <2>1, <2>2, CarsStay
<1>4. CASE NativeBundle
  <2> DEFINE armed(q) == [wire[q] EXCEPT !.asked = TRUE, !.retry = FALSE, !.timer = race.timer]
  <2>1. wire' = [q \in Players |-> IF wire[q] = None THEN None ELSE armed(q)]
    BY <1>4 DEF NativeBundle
  <2>2. race'.cars = race.cars
    BY <1>1, <1>4 DEF NativeBundle, RaceRecord
  <2>3. \A q \in Players : wire[q] # None => SameCars(wire[q], armed(q))
    BY <1>1, Parts, QuietCars
  <2> HIDE DEF armed
  <2> QED
    BY <2>1, <2>2, <2>3, CarsStay
<1>5. ASSUME NEW p \in Players, StartLock(p)
      PROVE  CarsFit'
  <2> DEFINE locked(q) == [wire[q] EXCEPT !.lock = TRUE]
  <2>1. wire' = [q \in Players |-> IF wire[q] = None THEN None ELSE locked(q)]
    BY <1>5 DEF StartLock
  <2>2. race'.cars = race.cars
    BY <1>1, <1>5 DEF StartLock, RaceRecord
  <2>3. \A q \in Players : wire[q] # None => SameCars(wire[q], locked(q))
    BY Parts, QuietCars
  <2> HIDE DEF locked
  <2> QED
    BY <2>1, <2>2, <2>3, CarsStay
<1>6. ASSUME NEW p \in Players, Bind(p)
      PROVE  CarsFit'
  <2>1. wire' = [wire EXCEPT ![p] = NewWire] /\ race' = race
    BY <1>6 DEF Bind
  <2>2. \A q \in Players : wire'[q] = NewWire \/ wire'[q] = wire[q]
    BY <2>1, Parts
  <2> QED
    BY <1>2, <2>1, <2>2, NewIsBare, CarsStay
<1> QED
  BY <1>3, <1>4, <1>5, <1>6

\* One endpoint changes, or several ask, or an acknowledgement takes windows away.
LEMMA CarsWireSteps ==
    ASSUME ConstantsAssumption, NoneAssumption, Inv, CarsFit, NEW p \in Players,
           \/ Complete(p) \/ Allocating(p) \/ RetryTimer(p) \/ GiveUpCars(p)
           \/ \E n \in 1 .. Len(flight[p]) : Acknowledge(p, n)
    PROVE  CarsFit'
<1>1. wire[p] \in WireRecord /\ \A q \in Players : wire[q] # None => SameCars(wire[q], wire[q])
  BY Parts, QuietCars DEF Complete, Allocating, RetryTimer, GiveUpCars, Acknowledge
<1>2. race'.cars = race.cars
  <2>1. race' = race \/ race' = [race EXCEPT !.phase = "countdown", !.left = "long"]
    BY DEF Complete, Allocating, RetryTimer, GiveUpCars, Acknowledge, Seeded
  <2> QED
    BY <2>1, Parts DEF RaceRecord
<1>3. PICK w : wire' = [wire EXCEPT ![p] = w] /\ SameCars(wire[p], w)
  <2>1. CASE Complete(p) \/ Allocating(p) \/ GiveUpCars(p)
    <3>1. \/ wire' = [wire EXCEPT ![p] = [wire[p] EXCEPT !.complete = TRUE]]
          \/ wire' = [wire EXCEPT ![p] = [wire[p] EXCEPT !.allocated = TRUE]]
          \/ wire' = [wire EXCEPT ![p] = [wire[p] EXCEPT !.windows = {}]]
      BY <2>1, Parts DEF Complete, Allocating, GiveUpCars
    <3>2. /\ SameCars(wire[p], [wire[p] EXCEPT !.complete = TRUE])
          /\ SameCars(wire[p], [wire[p] EXCEPT !.allocated = TRUE])
          /\ SameCars(wire[p], [wire[p] EXCEPT !.windows = {}])
      BY <1>1, QuietCars
    <3> QED
      BY <3>1, <3>2
  <2>2. CASE RetryTimer(p)
    <3>1. PICK r \in Retries(p) : wire' = [wire EXCEPT ![p] = [wire[p] EXCEPT !.retry = r.armed]]
      BY <2>2, Parts DEF RetryTimer
    <3>2. r.armed \in BOOLEAN
      BY <2>2, <3>1, Resends DEF RetryTimer
    <3> QED
      BY <1>1, <3>1, <3>2, QuietCars
  <2>3. ASSUME NEW n \in 1 .. Len(flight[p]), Acknowledge(p, n)
        PROVE  \E w : wire' = [wire EXCEPT ![p] = w] /\ SameCars(wire[p], w)
    <3> DEFINE f == [flight EXCEPT ![p] = SubSeq(flight[p], n + 1, Len(flight[p]))]
               b == wire[p].latency \/ (wire[p].lock /\ ~Contains(f[p], <<"lock", 0>>))
               S == IF race.phase = "finished" THEN {} ELSE Confirmed(wire[p].windows, f[p])
    <3>1. wire' = [wire EXCEPT ![p] = [wire[p] EXCEPT !.latency = b, !.windows = S]]
      BY <2>3, Parts DEF Acknowledge
    <3>2. b \in BOOLEAN
      OBVIOUS
    <3>3. S \in SUBSET wire[p].windows
      BY DEF Confirmed
    <3> HIDE DEF b, S, f
    <3>4. SameCars(wire[p], [wire[p] EXCEPT !.latency = b, !.windows = S])
      BY <1>1, <3>2, <3>3, QuietCars
    <3> QED
      BY <3>1, <3>4
  <2> QED
    BY <2>1, <2>2, <2>3
<1>4. \A q \in Players : wire'[q] # None => wire[q] # None /\ SameCars(wire[q], wire'[q])
  <2>1. wire[p] # None
    BY DEF Complete, Allocating, RetryTimer, GiveUpCars, Acknowledge
  <2> QED
    BY <1>1, <1>3, <2>1, Parts
<1> QED
  BY <1>2, <1>4, CarsStay

LEMMA CarsTimer ==
    ASSUME ConstantsAssumption, NoneAssumption, Inv, CarsFit, NEW p \in Players,
           NEW fresh \in BOOLEAN, StartTimer(p, fresh)
    PROVE  CarsFit'
<1> DEFINE n == Recorded(fresh)
           to == {q \in Live : ~Held(q)}
           counting == race.phase \in {"setup", "countdown"}
           timed(q) == [wire[q] EXCEPT !.timer = n,
                           !.retry = wire[q].retry \/ (q # Host /\ ~wire[q].allocated)]
<1>1. /\ race' = [race EXCEPT !.timer = n,
                              !.phase = IF counting THEN "countdown" ELSE race.phase,
                              !.left = IF counting THEN "long" ELSE race.left]
      /\ \/ wire' = [q \in Players |-> IF q \notin to THEN wire[q] ELSE timed(q)]
         \/ wire' = wire
  BY DEF StartTimer
<1>2. race \in RaceRecord /\ n \in Nat
  BY Parts DEF Recorded, RaceRecord
<1>3. to = {q \in Players : wire[q] # None /\ q \in to}
  BY Parts
<1> HIDE DEF n, to
<1>4. race'.cars = race.cars
  BY <1>1, <1>2 DEF RaceRecord
<1>5. ASSUME NEW q \in Players, wire[q] # None
      PROVE  SameCars(wire[q], timed(q)) /\ SameCars(wire[q], wire[q])
  <2>1. wire[q] \in WireRecord /\ (wire[q].retry \/ (q # Host /\ ~wire[q].allocated)) \in BOOLEAN
    BY <1>5, Parts
  <2> QED
    BY <1>2, <2>1, QuietCars
<1> HIDE DEF timed
<1> QED
  BY <1>1, <1>3, <1>4, <1>5, CarsStay

LEMMA CarsControl ==
    ASSUME ConstantsAssumption, NoneAssumption, Inv, CarsFit, NEW p \in Players,
           NEW off \in BOOLEAN, NEW disable \in BOOLEAN, ReadyControl(p, off, disable)
    PROVE  CarsFit'
<1> DEFINE asking == IF off /\ disable /\ Incomplete = {} THEN Live ELSE {p}
           W == [q \in Players |->
                   IF q \in asking THEN [wire[q] EXCEPT !.asked = TRUE] ELSE wire[q]]
<1>1. /\ wire[p] # None
      /\ race' = [race EXCEPT !.locked = race.locked \/ ReadyLocked(W)]
      /\ \/ wire' = W
         \/ \E r \in Retries(p) : wire' = [W EXCEPT ![p] = [W[p] EXCEPT !.retry = r.armed]]
  BY DEF ReadyControl
<1>2. \A q \in asking : q \in Players /\ wire[q] # None
  BY <1>1, Parts
<1>3. \A q \in Players :
         /\ wire[q] = None => W[q] = None
         /\ wire[q] # None => W[q] \in WireRecord /\ SameCars(wire[q], W[q])
  BY <1>2, Parts, QuietFields, QuietCars
<1>4. race'.cars = race.cars
  BY <1>1, Parts DEF RaceRecord
<1>5. W \in [Players -> WireRecord \union {None}]
  BY <1>3
<1> HIDE DEF W, asking
<1>6. CASE wire' = W
  BY <1>3, <1>4, <1>6, CarsStay
<1>7. ASSUME NEW r \in Retries(p), wire' = [W EXCEPT ![p] = [W[p] EXCEPT !.retry = r.armed]]
      PROVE  CarsFit'
  <2>1. r.armed \in BOOLEAN
    BY <1>1, <1>7, Resends
  <2>2. SameCars(W[p], [W[p] EXCEPT !.retry = r.armed])
    BY <1>1, <1>3, <2>1, QuietCars
  <2>3. SameCars(wire[p], [W[p] EXCEPT !.retry = r.armed])
    BY <1>1, <1>3, <2>2, SameCarsTwice
  <2>4. \A q \in Players : wire'[q] # None => wire[q] # None /\ SameCars(wire[q], wire'[q])
    BY <1>1, <1>3, <1>5, <1>7, <2>3
  <2> QED
    BY <1>4, <2>4, CarsStay
<1> QED
  BY <1>1, <1>6, <1>7

\* An abort keeps what an endpoint knows of the cars.
LEMMA AbortedCars ==
    ASSUME ConstantsAssumption, NoneAssumption, Inv,
           NEW W \in [Players -> WireRecord \union {None}],
           \A q \in Players : W[q] # None => W[q] = wire[q]
    PROVE  \A q \in Players : AbortedIn(W)[q] # None =>
              W[q] # None /\ SameCars(wire[q], AbortedIn(W)[q])
<1>1. \A q \in Players : W[q] # None =>
         /\ W[q] = wire[q] /\ SameCars(W[q], W[q]) /\ SameCars(W[q], AbortedWire(q, W[q]))
  BY QuietCars
<1>2. CASE epoch = None
  BY <1>1, <1>2 DEF AbortedIn
<1>3. CASE epoch # None
  <2>1. AbortedIn(W) = [q \in Players |-> IF W[q] = None THEN None ELSE AbortedWire(q, W[q])]
    BY <1>3 DEF AbortedIn
  <2> QED
    BY <1>1, <2>1
<1> QED
  BY <1>2, <1>3

LEMMA AbortedRaceCars ==
    ASSUME Inv
    PROVE  AbortedRace.cars = race.cars
BY Parts DEF AbortedRace, RaceRecord

LEMMA CarsTakenBack ==
    ASSUME ConstantsAssumption, NoneAssumption, Inv, CarsFit, NEW p \in Players,
           \/ Drop(p) \/ Reopen(p)
           \/ \E source \in 1 .. MaxSeeds : Seed(source, p)
    PROVE  CarsFit'
<1>1. CASE Drop(p)
  <2> DEFINE rest == [wire EXCEPT ![p] = None]
  <2>1. /\ wire' = AbortedIn(rest)
        /\ race' = IF Live = {p} THEN NewRace ELSE AbortedRace
    BY <1>1 DEF Drop
  <2>2. /\ rest \in [Players -> WireRecord \union {None}] /\ rest[p] = None
        /\ \A q \in Players : rest[q] # None => rest[q] = wire[q] /\ q # p
    BY Parts
  <2> HIDE DEF rest
  <2>3. \A q \in Players : wire'[q] # None =>
           rest[q] # None /\ wire[q] # None /\ q # p /\ SameCars(wire[q], wire'[q])
    BY <2>1, <2>2, AbortedCars
  <2>4. \A q \in Players : wire'[q] # None => race'.cars = race.cars
    <3> SUFFICES ASSUME NEW q \in Players, wire'[q] # None
                 PROVE  race'.cars = race.cars
      OBVIOUS
    <3>1. q \in Live /\ q # p
      BY <2>3, Parts
    <3> QED
      BY <2>1, <3>1, AbortedRaceCars
  <2> QED
    BY <2>3, <2>4, CarsStay
<1>2. AbortedIn(wire) \in [Players -> WireRecord \union {None}]
  BY Parts, Aborted
<1>3. \A q \in Players : Rematch(AbortedIn(wire))[q] # None => Bare(Rematch(AbortedIn(wire))[q])
  BY <1>2, NewIsBare DEF Rematch
<1>4. CASE Reopen(p)
  <2>1. wire' = Rematch(AbortedIn(wire))
    BY <1>4 DEF Reopen
  <2> QED
    BY <1>3, <2>1, CarsStay
<1>5. ASSUME NEW source \in 1 .. MaxSeeds, Seed(source, p)
      PROVE  CarsFit'
  <2> DEFINE rematch == race.phase = "finished"
             W == IF rematch THEN Rematch(AbortedIn(wire)) ELSE AbortedIn(wire)
             r == IF rematch THEN NextRace(FALSE)
                  ELSE IF epoch # None THEN AbortedRace ELSE race
             n == past.epochs + 1
             t == IF r.timer = 0 \/ source > past.seeds THEN r.timer + 1 ELSE r.timer
  <2>1. /\ wire' = [q \in Players |-> IF W[q] = None THEN None ELSE SeededWire(W[q], n, t)]
        /\ race' = [r EXCEPT !.timer = t]
    BY <1>5 DEF Seed
  <2>2. n \in Nat
    BY Parts DEF PastRecord
  <2>3. r \in RaceRecord /\ (rematch \/ r.cars = race.cars)
    BY Parts, NewRaces, AbortedRaceIs, AbortedRaceCars
  <2>4. \A q \in Players : W[q] # None =>
           /\ W[q] \in WireRecord
           /\ Bare(W[q]) \/ (wire[q] # None /\ SameCars(wire[q], W[q]) /\ r.cars = race.cars)
    <3>1. CASE rematch
      BY <1>2, <1>3, <3>1, RematchIsFree
    <3>2. CASE ~rematch
      BY <1>2, <2>3, <3>2, Parts, AbortedCars
    <3> QED
      BY <3>1, <3>2
  <2> HIDE DEF W, r
  <2>5. t \in Nat
    BY <2>3 DEF RaceRecord
  <2> HIDE DEF n, t
  <2>6. race'.cars = r.cars
    BY <2>1, <2>3, <2>5 DEF RaceRecord
  <2>7. ASSUME NEW q \in Players, wire'[q] # None
        PROVE  \/ Bare(wire'[q])
               \/ wire[q] # None /\ SameCars(wire[q], wire'[q]) /\ race'.cars = race.cars
    <3>1. W[q] # None /\ wire'[q] = SeededWire(W[q], n, t)
      BY <2>1, <2>7
    <3>2. SameCars(W[q], SeededWire(W[q], n, t))
      BY <2>2, <2>4, <2>5, <3>1, QuietCars
    <3>3. CASE Bare(W[q])
      BY <3>1, <3>2, <3>3 DEF Bare, SameCars
    <3>4. CASE ~Bare(W[q])
      BY <2>4, <2>6, <3>1, <3>2, <3>4, SameCarsTwice
    <3> QED
      BY <3>3, <3>4
  <2> QED
    BY <2>7, CarsStay
<1> QED
  BY <1>1, <1>4, <1>5

LEMMA CarsRegistered ==
    ASSUME ConstantsAssumption, NoneAssumption, Inv, CarsFit, NEW c \in Cars, RegisterCar(c)
    PROVE  CarsFit'
<1> DEFINE told(q) == [wire[q] EXCEPT !.windows = wire[q].windows \union {c},
                                      !.told = wire[q].told \union {c}]
<1>1. /\ race' = [race EXCEPT !.cars = race.cars \union {c}]
      /\ wire' = [q \in Players |-> IF wire[q] = None THEN None ELSE told(q)]
  BY DEF RegisterCar
<1>2. race'.cars = race.cars \union {c}
  BY <1>1, Parts DEF RaceRecord
<1>3. ASSUME NEW q \in Players, wire[q] # None
      PROVE  Told(told(q), race', q)
  <2>1. told(q).told = wire[q].told \union {c} /\ told(q).refreshed = wire[q].refreshed
    BY <1>3, Parts DEF WireRecord
  <2>2. wire[q].refreshed => wire[q].told = race.cars
    BY <1>3 DEF CarsFit, Told
  <2>3. told(q).told # {}
    BY <2>1
  <2> HIDE DEF told
  <2> QED
    BY <1>2, <2>1, <2>2, <2>3 DEF Told
<1> HIDE DEF told
<1> QED
  BY <1>1, <1>3 DEF CarsFit

LEMMA CarsStarted ==
    ASSUME ConstantsAssumption, NoneAssumption, Inv, CarsFit,
           NEW W \in [Players -> WireRecord \union {None}],
           \A q \in Players : W[q] # None => wire[q] # None /\ SameCars(wire[q], W[q]),
           StartSync(W)
    PROVE  CarsFit'
<1>1. ASSUME NEW q \in Players, W[q] # None
      PROVE  W[q] \in WireRecord /\ Told(W[q], race, q)
  BY <1>1 DEF CarsFit, Told, SameCars
<1>2. CASE ~StartsWith(W)
  BY <1>1, <1>2 DEF StartSync, CarsFit
<1>3. CASE StartsWith(W)
  <2>1. /\ race' = [race EXCEPT !.phase = "racing"]
        /\ wire' = [q \in Players |-> IF W[q] = None THEN None ELSE Started(q, W[q])]
    BY <1>3 DEF StartSync
  <2>2. race'.cars = race.cars
    BY <2>1, Parts DEF RaceRecord
  <2>3. ASSUME NEW q \in Players, W[q] # None
        PROVE  Told(Started(q, W[q]), race', q)
    <3> DEFINE s == Started(q, W[q])
    <3>1. CASE NeedsRefresh(q, W[q])
      <4>1. s = [W[q] EXCEPT !.playing = TRUE, !.refreshed = TRUE, !.windows = {0},
                             !.told = race.cars]
        BY <3>1 DEF Started
      <4>2. s.told = race.cars /\ race.cars # {}
        BY <1>1, <2>3, <3>1, <4>1 DEF WireRecord, NeedsRefresh
      <4> HIDE DEF s
      <4>3. Told(s, race', q)
        BY <2>2, <4>2 DEF Told
      <4> QED
        BY <4>3 DEF s
    <3>2. CASE ~NeedsRefresh(q, W[q])
      <4>1. s = [W[q] EXCEPT !.playing = TRUE]
        BY <3>2 DEF Started
      <4>2. /\ s.told = W[q].told /\ s.refreshed = W[q].refreshed /\ s.windows = W[q].windows
        BY <1>1, <2>3, <4>1 DEF WireRecord
      <4> HIDE DEF s
      <4>3. Told(W[q], race, q)
        BY <1>1, <2>3
      <4>4. q # Host /\ race.cars # {} => W[q].refreshed \/ W[q].windows # {}
        BY <3>2 DEF NeedsRefresh
      <4>5. Told(s, race', q)
        BY <2>2, <4>2, <4>3, <4>4 DEF Told
      <4> QED
        BY <4>5 DEF s
    <3> QED
      BY <3>1, <3>2
  <2> QED
    BY <2>1, <2>3 DEF CarsFit
<1> QED
  BY <1>2, <1>3

LEMMA CarsReadySteps ==
    ASSUME ConstantsAssumption, NoneAssumption, Inv, CarsFit,
           Fallback \/ \E p \in Players : Ready(p)
    PROVE  CarsFit'
<1>1. \A q \in Players : wire[q] # None =>
         /\ SameCars(wire[q], wire[q]) /\ SameCars(wire[q], [wire[q] EXCEPT !.seen = TRUE])
         /\ [wire[q] EXCEPT !.seen = TRUE] \in WireRecord
  BY Parts, QuietCars, SeenKeeps
<1>2. ASSUME NEW p \in Players, Ready(p)
      PROVE  CarsFit'
  <2> DEFINE w == [wire[p] EXCEPT !.seen = TRUE]
             W == [wire EXCEPT ![p] = w]
  <2>1. wire[p] # None /\ StartSync(W)
    BY <1>2, Parts DEF Ready
  <2>2. w \in WireRecord /\ SameCars(wire[p], w)
    BY <1>1, <2>1
  <2> HIDE DEF w
  <2>3. /\ W \in [Players -> WireRecord \union {None}]
        /\ \A q \in Players : W[q] # None => wire[q] # None /\ SameCars(wire[q], W[q])
    BY <1>1, <2>1, <2>2, Parts
  <2> HIDE DEF W
  <2> QED
    BY <2>1, <2>3, CarsStarted
<1>3. CASE Fallback
  <2> DEFINE seen(q) == [wire[q] EXCEPT !.seen = TRUE]
             W == [q \in Players |-> IF wire[q] = None THEN None ELSE seen(q)]
  <2>1. StartSync(W)
    BY <1>3 DEF Fallback
  <2>2. \A q \in Players : wire[q] # None => SameCars(wire[q], seen(q)) /\ seen(q) \in WireRecord
    BY <1>1
  <2> HIDE DEF seen
  <2>3. /\ W \in [Players -> WireRecord \union {None}]
        /\ \A q \in Players : W[q] # None => wire[q] # None /\ SameCars(wire[q], W[q])
    BY <2>2
  <2> HIDE DEF W
  <2> QED
    BY <2>1, <2>3, CarsStarted
<1> QED
  BY <1>2, <1>3

LEMMA CarsNext ==
    ASSUME ConstantsAssumption, NoneAssumption, Inv, CarsFit, Next
    PROVE  CarsFit'
<1>1. CASE Commit \/ ExpireCountdown \/ PassTime \/ HostLoads \/ FinishRace \/ NativeBundle
  BY <1>1, CarsRoomSteps
<1>2. CASE Fallback
  BY <1>2, CarsReadySteps
<1>3. ASSUME NEW p \in Players,
             \/ Bind(p) \/ Drop(p) \/ Complete(p) \/ Allocating(p) \/ RetryTimer(p)
             \/ StartLock(p) \/ GuestLoads(p) \/ Ready(p) \/ Reopen(p) \/ GiveUpCars(p)
             \/ \E fresh \in BOOLEAN : StartTimer(p, fresh)
             \/ \E off, disable \in BOOLEAN : ReadyControl(p, off, disable)
             \/ \E source \in 1 .. MaxSeeds : Seed(source, p)
             \/ \E n \in 1 .. Len(flight[p]) : Acknowledge(p, n)
      PROVE  CarsFit'
  <2>1. CASE Bind(p) \/ StartLock(p) \/ GuestLoads(p)
    BY <2>1, CarsRoomSteps
  <2>2. CASE Ready(p)
    BY <2>2, CarsReadySteps
  <2>3. CASE \/ Complete(p) \/ Allocating(p) \/ RetryTimer(p) \/ GiveUpCars(p)
             \/ \E n \in 1 .. Len(flight[p]) : Acknowledge(p, n)
    BY <2>3, CarsWireSteps
  <2>4. CASE \E fresh \in BOOLEAN : StartTimer(p, fresh)
    BY <2>4, CarsTimer
  <2>5. CASE \E off, disable \in BOOLEAN : ReadyControl(p, off, disable)
    BY <2>5, CarsControl
  <2>6. CASE Drop(p) \/ Reopen(p) \/ \E source \in 1 .. MaxSeeds : Seed(source, p)
    BY <2>6, CarsTakenBack
  <2> QED
    BY <1>3, <2>1, <2>2, <2>3, <2>4, <2>5, <2>6
<1>4. CASE \E S \in (SUBSET {13, 15}) \ {{}} : GuestStates(S)
  BY <1>4, CarsRoomSteps
<1>5. CASE \E c \in Cars : RegisterCar(c)
  BY <1>5, CarsRegistered
<1> QED
  BY <1>1, <1>2, <1>3, <1>4, <1>5 DEF Next

\* refresh_ready_guests: a guest that races against computer racers was sent
\* registrations, and one that the start refreshed was sent all of them.
THEOREM CarsAreRegisteredToGuests ==
    ASSUME ConstantsAssumption, NoneAssumption
    PROVE  Spec => []CarsAreRegistered
<1>1. Init => Inv /\ CarsFit
  BY Initially DEF Init, CarsFit
<1>2. Inv /\ CarsFit /\ [Next]_vars => (Inv /\ CarsFit)'
  <2> SUFFICES ASSUME Inv, CarsFit, [Next]_vars
               PROVE  (Inv /\ CarsFit)'
    OBVIOUS
  <2>1. CASE Next
    BY <2>1, NextStep, CarsNext
  <2>2. CASE UNCHANGED vars
    BY <2>2, Stuttering DEF vars, CarsFit
  <2> QED
    BY <2>1, <2>2
<1>3. Inv /\ CarsFit => CarsAreRegistered
  BY Parts DEF CarsFit, Told, CarsAreRegistered, Guests
<1> QED
  BY <1>1, <1>2, <1>3, PTL DEF Spec

\* What the run checks of the start of a race, all of it, for any constants.
THEOREM RaceStartsTogether ==
    ASSUME ConstantsAssumption, NoneAssumption
    PROVE  Spec => []StartsTogether
<1>1. EpochMatchesRace /\ PairFollowsSeeds /\ FlagsAreOfThisRace
      /\ NobodyStartsUnprepared /\ CarsAreRegistered => StartsTogether
  BY DEF StartsTogether
<1> QED
  BY <1>1, EpochsMatchRaces, PairsFollowSeeds, FlagsAreOfTheirRace,
     NobodyIsStartedUnprepared, CarsAreRegisteredToGuests, PTL

-----------------------------------------------------------------------------
(* Reliable publication to an endpoint.                                    *)

CONSTANTS Half, FirstSequence, Policy, BootPolicy, MaxRecent, MaxExtra, MaxLives,
          MaxFaults, MaxFlight

VARIABLES server, toClient, toServer, client, faults, extras

Delivery == INSTANCE ReliablePublication

\* A life publishes fewer records than this.
Most == 5 + MaxExtra

\* Arithmetic of a space of S numbers that wraps.
LEMMA Divides ==
    ASSUME NEW S \in Nat \ {0}, NEW x \in Int
    PROVE  /\ x \div S \in Int /\ x % S \in 0..(S - 1)
           /\ x = S * (x \div S) + (x % S)
  OBVIOUS

LEMMA Small ==
    ASSUME NEW S \in Nat \ {0}, NEW x \in Int
    PROVE  /\ 0 <= x /\ x < S => x % S = x
           /\ x < 0 /\ -S <= x => x % S = x + S
<1> DEFINE q == x \div S
           r == x % S
<1>1. q \in Int /\ r \in 0..(S - 1) /\ x = S * q + r
  BY Divides
<1> HIDE DEF q, r
<1>2. q >= 1 => S * q >= S
  BY <1>1
<1>3. q <= -1 => S * q <= -S
  BY <1>1
<1>4. q <= -2 => S * q <= -(2 * S)
  BY <1>1
<1>5. S * 0 = 0 /\ S * (-1) = -S
  OBVIOUS
<1>6. ASSUME 0 <= x, x < S PROVE r = x
  <2>1. q = 0
    BY <1>1, <1>2, <1>3, <1>6
  <2> QED
    BY <2>1, <1>1, <1>5
<1>7. ASSUME x < 0, -S <= x PROVE r = x + S
  <2>1. q = -1
    BY <1>1, <1>2, <1>4, <1>7, <1>5
  <2> QED
    BY <2>1, <1>1, <1>5
<1> QED
  BY <1>6, <1>7 DEF r

LEMMA Ahead ==
    ASSUME NEW S \in Nat \ {0}, NEW a \in Int, NEW b \in Int, -S <= a - b, a - b < S
    PROVE  ((a % S) - (b % S)) % S = IF b <= a THEN a - b ELSE a - b + S
<1> DEFINE p == a \div S
           q == b \div S
           d == p - q
           r == a % S
           t == b % S
<1>1. /\ p \in Int /\ r \in 0..(S - 1) /\ a = S * p + r
      /\ q \in Int /\ t \in 0..(S - 1) /\ b = S * q + t
  BY Divides
<1> HIDE DEF p, q, r, t
<1>2. d \in Int /\ S * p - S * q = S * d
  BY <1>1
<1> HIDE DEF d
<1>3. r - t = (a - b) - S * d
  BY <1>1, <1>2
<1>4. /\ d >= 2 => S * d >= 2 * S
      /\ d <= -2 => S * d <= -(2 * S)
      /\ d = 1 => S * d = S
      /\ d = 0 => S * d = 0
      /\ d = -1 => S * d = -S
  BY <1>2
<1>5. d \in {-1, 0, 1}
  BY <1>1, <1>2, <1>3, <1>4
<1>6. r - t \in Int /\ -S < r - t /\ r - t < S
  BY <1>1
<1>7. (r - t) % S = IF r - t < 0 THEN r - t + S ELSE r - t
  BY <1>6, Small
<1>8. (IF r - t < 0 THEN r - t + S ELSE r - t) = (IF b <= a THEN a - b ELSE a - b + S)
  BY <1>3, <1>4, <1>5, <1>6
<1> QED
  BY <1>7, <1>8 DEF r, t

\* An acknowledgement of k records covers those before k, on the wire too.
LEMMA AckCovers ==
    ASSUME Delivery!SpaceAssumption, Delivery!LifeAssumption,
           NEW k \in -1..Most, NEW f \in 0..(Most - 1)
    PROVE  Delivery!SequenceAcked(Delivery!Wire(k - 1), Delivery!Wire(f)) <=> f < k
<1> DEFINE a == FirstSequence + (k - 1)
           b == FirstSequence + f
<1>1. /\ Delivery!Space \in Nat \ {0} /\ Delivery!Space = 2 * Half /\ a \in Int /\ b \in Int
      /\ Half \in Nat /\ a - b = k - 1 - f /\ a - b < Half /\ b - a <= Half
  BY DEF Delivery!SpaceAssumption, Delivery!LifeAssumption, Delivery!Space, Most
<1>2. Delivery!SequenceAcked(Delivery!Wire(k - 1), Delivery!Wire(f)) <=> ((a % Delivery!Space) - (b % Delivery!Space)) % Delivery!Space < Half
  BY DEF Delivery!SequenceAcked, Delivery!Distance, Delivery!Wire
<1>3. k \in Int /\ f \in Int
  BY DEF Most, Delivery!LifeAssumption
<1> HIDE DEF a, b
<1>4. -Delivery!Space <= a - b /\ a - b < Delivery!Space
  BY <1>1
<1>5. ((a % Delivery!Space) - (b % Delivery!Space)) % Delivery!Space = IF b <= a THEN a - b ELSE a - b + Delivery!Space
  BY <1>1, <1>4, Ahead
<1> QED
  BY <1>1, <1>2, <1>3, <1>5

\* A record is newer than an acknowledgement that does not cover it, and vice versa.
LEMMA Newer ==
    ASSUME Delivery!SpaceAssumption, Delivery!LifeAssumption,
           NEW f \in -1..(Most - 1), NEW h \in 0..Most
    PROVE  Delivery!SequenceNewer(Delivery!Wire(f), Delivery!Wire(h - 1)) <=> h <= f
<1> DEFINE a == FirstSequence + f
           b == FirstSequence + (h - 1)
<1>1. /\ Delivery!Space \in Nat \ {0} /\ Delivery!Space = 2 * Half /\ a \in Int /\ b \in Int
      /\ Half \in Nat /\ a - b = f - h + 1 /\ a - b < Half /\ b - a < Half
  BY DEF Delivery!SpaceAssumption, Delivery!LifeAssumption, Delivery!Space, Most
<1>2. Delivery!SequenceNewer(Delivery!Wire(f), Delivery!Wire(h - 1))
         <=> ((a % Delivery!Space) - (b % Delivery!Space)) % Delivery!Space \in 1..(Half - 1)
  BY DEF Delivery!SequenceNewer, Delivery!Distance, Delivery!Wire
<1>3. h \in Int /\ f \in Int
  BY DEF Most, Delivery!LifeAssumption
<1> HIDE DEF a, b
<1>4. -Delivery!Space <= a - b /\ a - b < Delivery!Space
  BY <1>1
<1>5. ((a % Delivery!Space) - (b % Delivery!Space)) % Delivery!Space = IF b <= a THEN a - b ELSE a - b + Delivery!Space
  BY <1>1, <1>4, Ahead
<1> QED
  BY <1>1, <1>2, <1>3, <1>5
-----------------------------------------------------------------------------
(* The types of the state. *)

Notices == {"ticket-ack", "hello", "self-join", "boot", "extra"}

Windows == [label : {"hello", "self-join", "extra"}, base : Nat, final : Nat,
            app : BOOLEAN, acked : BOOLEAN, retry : Delivery!Schedules]

Datagrams == [life : Nat, label : Notices, base : Int, final : Int]

Messages == [dial : Nat, life : Nat, request : Delivery!Requests \union {"connect"}, ack : Int]

Wires == [bound : BOOLEAN, helloDue : BOOLEAN, helloSent : BOOLEAN, suppress : BOOLEAN,
          published : BOOLEAN, booted : BOOLEAN, boot : Delivery!BootWindows \union {None},
          selfJoin : Nat \union {-1}, object : BOOLEAN, next : Nat, lastAck : Int,
          highWater : Int \union {None}, pending : SUBSET Windows, recent : Seq(Delivery!Requests),
          heard : SUBSET (Nat \X Nat)]

Servers == [wire : Wires, life : Nat, reconnect : BOOLEAN, left : BOOLEAN,
            out : SUBSET Datagrams]

Clients == [dial : Nat, life : Nat, got : Nat, answered : BOOLEAN, hello : BOOLEAN,
            boot : BOOLEAN]

-----------------------------------------------------------------------------
(* The inductive invariant.  Its parts are about a state of the endpoint s,  *)
(* which the stages of a handler pass on to each other, a client c, and the  *)
(* number of extra publications x.                                           *)

\* The records that the stages of a join have published in this life.
Joined(s) == (IF s.wire.helloSent THEN 2 ELSE 0) + (IF s.wire.published THEN 1 ELSE 0)
             + (IF s.wire.booted THEN 2 ELSE 0)

\* Nobody is bound after having left, and nothing is published without a hello.
Orderly(s, x) ==
    /\ s.wire.next <= Joined(s) + x
    /\ ~s.wire.helloSent => s.wire.next = 0 /\ ~s.wire.booted
    /\ s.wire.selfJoin < s.wire.next
    /\ s.left => ~s.wire.bound /\ s.wire.boot = None
    /\ s.life # 0 /\ s.life <= MaxLives + (IF s.left THEN 1 ELSE 0)
    /\ Len(s.wire.recent) <= MaxRecent

\* What is retained was published; the hello is the first two records.
WindowFits(s, w) ==
    /\ w.base <= w.final /\ w.final < s.wire.next
    /\ w.label = "hello" => w.final = 1

BootFits(s) ==
    s.wire.boot # None =>
        /\ s.wire.booted
        /\ s.wire.boot.base <= s.wire.boot.final /\ s.wire.boot.final < s.wire.next

\* A datagram carries what was published; there is one hello and one bootstrap a life.
Sent(d, s) ==
    /\ d.life # 0 /\ d.life <= s.life
    /\ d.base <= d.final /\ d.final < Most
    /\ d.label # "ticket-ack" => 0 <= d.base
    /\ d.label = "hello" => d.final = 1
    /\ d.life = s.life =>
          /\ d.final < s.wire.next
          /\ d.label = "boot" => /\ s.wire.booted
                                 /\ s.wire.boot # None => d.final = s.wire.boot.final

Sound(s, x) ==
    /\ s \in Servers
    /\ Orderly(s, x) /\ BootFits(s)
    /\ \A w \in s.wire.pending : WindowFits(s, w)
    /\ \A d \in s.out : Sent(d, s)

\* What the client says of itself.
Said(m, c) ==
    /\ m.dial <= c.dial
    /\ m.dial = c.dial =>
          /\ m.life \in {0, c.life}
          /\ \E k \in 0..c.got : m.ack = Delivery!Wire(k - 1)
          /\ m.request = "publish" => c.hello
          /\ m.request = "object" => c.boot

\* What the client has.
Follows(c, s) ==
    /\ c.life <= s.life /\ c.got <= Most
    /\ c.life = 0 => c.got = 0 /\ ~c.hello /\ ~c.boot
    /\ c.hello => 2 <= c.got
    /\ c.life = s.life =>
          /\ c.got <= s.wire.next
          /\ c.boot => /\ s.wire.booted
                       /\ s.wire.boot # None => s.wire.boot.final < c.got

\* Whom the endpoint heard; until then its wire is as at first.
Listened(s, c) ==
    /\ \A p \in s.wire.heard : p[1] <= c.dial /\ (p[1] = c.dial => p[2] \in {0, c.life})
    /\ s.wire.heard = {} => s.wire = Delivery!FreshWire

Aligned(s, c) == c.life \in {0, s.life} /\ s.wire.heard \subseteq {c.dial} \X {0, c.life}

Holds(s, n) ==
    \/ \E w \in s.wire.pending : ~w.acked /\ n \in w.base..w.final
    \/ s.wire.boot # None /\ ~s.wire.boot.acked /\ n \in s.wire.boot.base..s.wire.boot.final

\* All from record g is retained for a client that has g records.
Reaches(s, g) ==
    /\ g <= s.wire.next
    /\ \A n \in g..(s.wire.next - 1) : Holds(s, n)
    /\ s.wire.boot # None /\ s.wire.boot.acked => s.wire.boot.final < g

\* What may be replayed lies beyond the first h records.
OpenBeyond(s, h) ==
    h <= s.wire.next /\ \A w \in s.wire.pending : ~w.acked => h <= w.final

BootBeyond(s, h) == s.wire.boot # None /\ ~s.wire.boot.acked => h <= s.wire.boot.final

InTouch(s, c) ==
    /\ Reaches(s, c.got)
    /\ s.wire.object => c.boot
    /\ \E k \in -1..c.got : s.wire.lastAck = Delivery!Wire(k - 1)
    /\ s.wire.highWater # None =>
          \E h \in 0..c.got : /\ s.wire.highWater = Delivery!Wire(h - 1)
                              /\ OpenBeyond(s, h) /\ BootBeyond(s, h)

Typed ==
    /\ toClient \subseteq Datagrams /\ toServer \subseteq Messages
    /\ client \in Clients /\ faults \in Nat /\ extras \in 0..MaxExtra

PublicationInv ==
    /\ Typed
    /\ Sound(server, extras) /\ server.out = {}
    /\ \A d \in toClient : Sent(d, server)
    /\ \A m \in toServer : Said(m, client)
    /\ Follows(client, server)
    /\ Listened(server, client)
    /\ Aligned(server, client) => InTouch(server, client)

-----------------------------------------------------------------------------
(* The stages of a handler. *)

\* Whatever goes out lies beyond the first h records.
OutBeyond(s, h) == \A d \in s.out : 0 <= d.base => h <= d.final

\* A stage leads from s to t: it publishes, replays or forgets, within a life.
Leads(s, t) ==
    /\ t.life = s.life /\ s.wire.next <= t.wire.next
    /\ s.wire.bound => t.wire.bound
    /\ s.wire.booted =>
          /\ t.wire.booted
          /\ t.wire.boot # None => s.wire.boot # None /\ t.wire.boot.final = s.wire.boot.final
    /\ \A h \in Nat : OpenBeyond(s, h) => OpenBeyond(t, h)
    /\ \A h \in Nat : OpenBeyond(s, h) /\ BootBeyond(s, h) => BootBeyond(t, h)
    /\ \A h \in Nat : OpenBeyond(s, h) /\ BootBeyond(s, h) /\ OutBeyond(s, h) => OutBeyond(t, h)

\* A stage that hears, and learns, nothing new.
HearsNoMore(s, t) ==
    /\ t.wire.heard = s.wire.heard /\ t.wire.object = s.wire.object
    /\ t.wire.lastAck = s.wire.lastAck /\ t.wire.highWater = s.wire.highWater

LEMMA LeadsOn ==
    ASSUME NEW s, NEW t, NEW u, s \in Servers, t \in Servers, u \in Servers,
           Leads(s, t), Leads(t, u)
    PROVE  Leads(s, u)
<1>1. /\ s.wire.next \in Nat /\ t.wire.next \in Nat /\ u.wire.next \in Nat
  BY DEF Servers, Wires
<1> QED
  BY <1>1 DEF Leads

LEMMA LeadsToItself ==
    ASSUME NEW s, s \in Servers
    PROVE  Leads(s, s)
<1>1. s.wire.next \in Nat
  BY DEF Servers, Wires
<1> QED
  BY <1>1 DEF Leads

\* What was sent and what the client has still fit.
LEMMA SentOn ==
    ASSUME NEW s, NEW t, NEW d, s \in Servers, t \in Servers, d \in Datagrams,
           Leads(s, t), Sent(d, s)
    PROVE  Sent(d, t)
<1>1. /\ s.wire.next \in Nat /\ t.wire.next \in Nat /\ d.final \in Int
  BY DEF Servers, Wires, Datagrams
<1> QED
  BY <1>1 DEF Leads, Sent

LEMMA FollowsOn ==
    ASSUME NEW s, NEW t, NEW c, s \in Servers, t \in Servers, c \in Clients,
           Leads(s, t), Follows(c, s)
    PROVE  Follows(c, t)
<1>1. /\ s.wire.next \in Nat /\ t.wire.next \in Nat /\ c.got \in Nat
  BY DEF Servers, Wires, Clients
<1> QED
  BY <1>1 DEF Leads, Follows

\* A schedule is a schedule whatever happens to it.
LEMMA SchedulesStay ==
    ASSUME Delivery!PolicyAssumption, NEW p \in {Policy, BootPolicy}
    PROVE  /\ Delivery!Begin(p) \in Delivery!Schedules
           /\ \A r \in Delivery!Schedules : /\ Delivery!DeferFrom(p, r) \in Delivery!Schedules
                                            /\ Delivery!RecordRetry(p, r) \in Delivery!Schedules
                                            /\ Delivery!Elapse(r) \in Delivery!Schedules
<1>1. p.initial \in Nat /\ p.maximum \in Nat /\ p.timeout \in Nat
  BY DEF Delivery!PolicyAssumption
<1>2. \A a, b \in Nat : Delivery!AtMost(a, b) \in Nat
  BY DEF Delivery!AtMost
<1>3. Delivery!Begin(p) \in Delivery!Schedules
  BY <1>1, <1>2 DEF Delivery!Begin, Delivery!Schedules
<1>4. ASSUME NEW r \in Delivery!Schedules
      PROVE  Delivery!DeferFrom(p, r) \in Delivery!Schedules /\ Delivery!RecordRetry(p, r) \in Delivery!Schedules
             /\ Delivery!Elapse(r) \in Delivery!Schedules
  <2>1. /\ r.retries \in Nat /\ r.delay \in Nat /\ r.wait \in Nat /\ r.left \in Nat
    BY DEF Delivery!Schedules
  <2>2. Delivery!DeferFrom(p, r) \in Delivery!Schedules
    BY <1>1, <1>2, <2>1 DEF Delivery!DeferFrom, Delivery!Schedules
  <2>3. Delivery!RecordRetry(p, r) \in Delivery!Schedules
    <3> DEFINE n == r.retries + 1
               e == Delivery!AtMost(p.maximum, 2 * r.delay)
               w == Delivery!AtMost(r.left, e)
    <3>1. n \in Nat /\ 2 * r.delay \in Nat
      BY <2>1
    <3>2. e \in Nat
      BY <1>1, <1>2, <3>1
    <3>3. w \in Nat
      BY <1>2, <2>1, <3>2
    <3>4. Delivery!RecordRetry(p, r) = [r EXCEPT !.retries = n, !.delay = e, !.wait = w]
      BY DEF Delivery!RecordRetry
    <3> HIDE DEF n, e, w
    <3> QED
      BY <3>1, <3>2, <3>3, <3>4 DEF Delivery!Schedules
  <2>4. Delivery!Elapse(r) \in Delivery!Schedules
    <3> DEFINE w == IF r.wait = 0 THEN 0 ELSE r.wait - 1
               l == IF r.left = 0 THEN 0 ELSE r.left - 1
    <3>1. w \in Nat /\ l \in Nat
      BY <2>1
    <3>2. Delivery!Elapse(r) = [r EXCEPT !.wait = w, !.left = l]
      BY DEF Delivery!Elapse
    <3> HIDE DEF w, l
    <3> QED
      BY <3>1, <3>2 DEF Delivery!Schedules
  <2> QED
    BY <2>2, <2>3, <2>4
<1> QED
  BY <1>3, <1>4

\* Windows, and bootstraps, that differ in their schedule.
Like(v, w) == v.label = w.label /\ v.base = w.base /\ v.final = w.final /\ v.acked = w.acked

BootLike(s, t) ==
    /\ s.wire.boot = None <=> t.wire.boot = None
    /\ s.wire.boot # None => /\ s.wire.boot.base = t.wire.boot.base
                             /\ s.wire.boot.final = t.wire.boot.final
                             /\ s.wire.boot.acked = t.wire.boot.acked

\* A stage that publishes and forgets nothing.
Rests(s, t) ==
    /\ t.life = s.life /\ t.left = s.left
    /\ s.wire.bound => t.wire.bound
    /\ t.wire.heard = s.wire.heard /\ t.wire.object = s.wire.object
    /\ t.wire.lastAck = s.wire.lastAck /\ t.wire.highWater = s.wire.highWater
    /\ t.wire.next = s.wire.next /\ t.wire.booted = s.wire.booted
    /\ t.wire.helloSent = s.wire.helloSent /\ t.wire.published = s.wire.published
    /\ t.wire.selfJoin = s.wire.selfJoin
    /\ \A v \in t.wire.pending : \E w \in s.wire.pending : Like(v, w)
    /\ \A w \in s.wire.pending : \E v \in t.wire.pending : Like(v, w)
    /\ BootLike(s, t)

LEMMA RestLeads ==
    ASSUME NEW s, NEW t, s \in Servers, Rests(s, t),
           \A d \in t.out : \/ d \in s.out
                            \/ 0 <= d.base => \A h \in Nat : OpenBeyond(s, h) => h <= d.final
    PROVE  /\ Leads(s, t) /\ HearsNoMore(s, t)
           /\ \A g : Reaches(s, g) => Reaches(t, g)
<1>1. s.wire.next \in Nat
  BY DEF Servers, Wires
<1>2. \A h : OpenBeyond(s, h) => OpenBeyond(t, h)
  BY DEF Rests, OpenBeyond, Like
<1>3. \A h : BootBeyond(s, h) => BootBeyond(t, h)
  BY DEF Rests, BootBeyond, BootLike
<1>4. \A n : Holds(s, n) => Holds(t, n)
  BY DEF Rests, Holds, Like, BootLike
<1>5. \A h \in Nat : OpenBeyond(s, h) /\ OutBeyond(s, h) => OutBeyond(t, h)
  BY DEF OutBeyond
<1>6. \A g : Reaches(s, g) => Reaches(t, g)
  BY <1>4 DEF Reaches, Rests, BootLike
<1>7. s.wire.booted =>
          /\ t.wire.booted
          /\ t.wire.boot # None => s.wire.boot # None /\ t.wire.boot.final = s.wire.boot.final
  BY DEF Rests, BootLike
<1> QED
  BY <1>1, <1>2, <1>3, <1>5, <1>6, <1>7 DEF Rests, Leads, HearsNoMore

LEMMA RestSound ==
    ASSUME NEW s, NEW t, NEW x, Sound(s, x), t \in Servers, Rests(s, t),
           t.left => ~t.wire.bound, Len(t.wire.recent) <= MaxRecent,
           \A d \in t.out : Sent(d, s)
    PROVE  Sound(t, x)
<1>1. \A v \in t.wire.pending : WindowFits(t, v)
  <2> SUFFICES ASSUME NEW v \in t.wire.pending
               PROVE  WindowFits(t, v)
    OBVIOUS
  <2>1. PICK w \in s.wire.pending : Like(v, w)
    BY DEF Rests
  <2> QED
    BY <2>1 DEF Sound, WindowFits, Like, Rests
<1>2. \A d : Sent(d, s) => Sent(d, t)
  BY DEF Rests, Sent, BootLike
<1>3. Joined(t) = Joined(s)
  BY DEF Rests, Joined
<1>4. Orderly(t, x)
  BY <1>3 DEF Sound, Orderly, Rests, BootLike
<1>5. BootFits(t)
  BY DEF Sound, BootFits, Rests, BootLike
<1> QED
  BY <1>1, <1>2, <1>4, <1>5 DEF Sound

\* A stage that keeps the endpoint's state sound and retains what is to be replayed.
Advances(s, t, x) ==
    /\ Sound(t, x) /\ Leads(s, t) /\ HearsNoMore(s, t)
    /\ \A g \in Nat : Reaches(s, g) => Reaches(t, g)

LEMMA AdvancesOn ==
    ASSUME NEW s, NEW t, NEW u, NEW x, NEW y, s \in Servers, Advances(s, t, x), Advances(t, u, y)
    PROVE  Advances(s, u, y)
<1>1. Leads(s, u)
  BY LeadsOn DEF Advances, Sound
<1> QED
  BY <1>1 DEF Advances, HearsNoMore

LEMMA StandsStill ==
    ASSUME NEW s, NEW x, Sound(s, x)
    PROVE  Advances(s, s, x)
  BY LeadsToItself DEF Advances, Sound, HearsNoMore

\* The fields of an endpoint's state.
LEMMA Fields ==
    ASSUME NEW s, s \in Servers
    PROVE  /\ s = [wire |-> s.wire, life |-> s.life, reconnect |-> s.reconnect, left |-> s.left,
                   out |-> s.out]
           /\ s.wire \in Wires /\ s.life \in Nat /\ s.reconnect \in BOOLEAN /\ s.left \in BOOLEAN
           /\ s.out \subseteq Datagrams
           /\ s.wire.bound \in BOOLEAN /\ s.wire.helloDue \in BOOLEAN
           /\ s.wire.helloSent \in BOOLEAN /\ s.wire.suppress \in BOOLEAN
           /\ s.wire.published \in BOOLEAN /\ s.wire.booted \in BOOLEAN
           /\ s.wire.boot \in Delivery!BootWindows \union {None}
           /\ s.wire.selfJoin \in Nat \union {-1} /\ s.wire.object \in BOOLEAN /\ s.wire.next \in Nat
           /\ s.wire.lastAck \in Int /\ s.wire.highWater \in Int \union {None}
           /\ s.wire.pending \subseteq Windows /\ s.wire.recent \in Seq(Delivery!Requests)
           /\ s.wire.heard \subseteq Nat \X Nat
  BY DEF Servers, Wires

\* A request is remembered.
LEMMA RememberedAdvances ==
    ASSUME NEW s, NEW x, NEW m, Sound(s, x), m.request \in Delivery!Requests, MaxRecent \in Nat
    PROVE  Advances(s, Delivery!Remembered(s, m), x)
<1> DEFINE all == Append(s.wire.recent, m.request)
           recent == IF Len(all) > MaxRecent THEN Tail(all) ELSE all
           t == [s EXCEPT !.wire.recent = recent]
<1>1. s \in Servers /\ s.wire.recent \in Seq(Delivery!Requests) /\ Len(s.wire.recent) <= MaxRecent
  BY DEF Sound, Orderly, Servers, Wires
<1>2. CASE Delivery!Remembered(s, m) = s
  BY <1>2, StandsStill
<1>3. CASE Delivery!Remembered(s, m) = t
  <2>1. all \in Seq(Delivery!Requests) /\ Len(all) = Len(s.wire.recent) + 1 /\ all # <<>>
    BY <1>1
  <2>2. recent \in Seq(Delivery!Requests) /\ Len(recent) <= MaxRecent
    BY <1>1, <2>1
  <2> HIDE DEF all, recent
  <2>3. t \in Servers /\ t.wire.recent = recent
    BY <1>1, <2>2 DEF Servers, Wires
  <2>4. /\ Rests(s, t) /\ t.out = s.out /\ t.left = s.left /\ t.wire.bound = s.wire.bound
    BY <1>1 DEF Servers, Wires, Rests, Like, BootLike
  <2>5. Leads(s, t) /\ HearsNoMore(s, t) /\ \A g : Reaches(s, g) => Reaches(t, g)
    BY <1>1, <2>4, RestLeads
  <2>6. (t.left => ~t.wire.bound) /\ (\A d \in t.out : Sent(d, s))
    BY <2>4 DEF Sound, Orderly
  <2>7. Len(t.wire.recent) <= MaxRecent
    BY <2>2, <2>3
  <2>8. Sound(t, x)
    <3> HIDE DEF t
    <3> QED BY <2>3, <2>4, <2>6, <2>7, RestSound
  <2> QED
    BY <1>3, <2>5, <2>8 DEF Advances
<1> QED
  BY <1>2, <1>3 DEF Delivery!Remembered

\* A ticket is answered.
LEMMA TicketAdvances ==
    ASSUME NEW s, NEW x, Sound(s, x), MaxExtra \in Nat
    PROVE  Advances(s, Delivery!TicketTaken(s), x)
<1> DEFINE b == [s EXCEPT !.wire.bound = TRUE, !.wire.suppress = @ \/ s.reconnect,
                          !.reconnect = FALSE]
           d == Delivery!Datagram(s, "ticket-ack", -1, -1)
           t == [b EXCEPT !.wire.helloDue = TRUE, !.out = @ \union {d}]
<1>1. s \in Servers /\ Len(s.wire.recent) <= MaxRecent
  BY DEF Sound, Orderly
<1>2. CASE Delivery!TicketTaken(s) = s
  BY <1>2, StandsStill
<1>3. /\ b \in Servers /\ b.out = s.out /\ b.left = s.left /\ b.wire.recent = s.wire.recent
      /\ Rests(s, b) /\ b.life = s.life
  BY <1>1 DEF Servers, Wires, Rests, Like, BootLike
<1>4. CASE ~s.left /\ Delivery!TicketTaken(s) = b
  <2>1. Leads(s, b) /\ HearsNoMore(s, b) /\ \A g : Reaches(s, g) => Reaches(b, g)
    BY <1>1, <1>3, RestLeads
  <2>2. Sound(b, x)
    BY <1>1, <1>3, <1>4, RestSound DEF Sound
  <2> QED
    BY <1>4, <2>1, <2>2 DEF Advances
<1>5. CASE ~s.left /\ Delivery!TicketTaken(s) = t
  <2>1. /\ d \in Datagrams /\ d.life = s.life /\ d.base = -1 /\ d.final = -1
        /\ d.label = "ticket-ack"
    BY <1>1 DEF Delivery!Datagram, Datagrams, Notices, Servers
  <2> HIDE DEF d
  <2>2. /\ t \in Servers /\ t.out = s.out \union {d} /\ t.left = s.left
        /\ t.wire.recent = s.wire.recent /\ Rests(s, t)
    <3> HIDE DEF b
    <3> DEFINE w == [b.wire EXCEPT !.helloDue = TRUE]
    <3>1. b.wire \in Wires
      BY <1>3 DEF Servers
    <3>2. /\ w \in Wires /\ w.bound = b.wire.bound /\ w.heard = b.wire.heard
          /\ w.object = b.wire.object /\ w.lastAck = b.wire.lastAck
          /\ w.highWater = b.wire.highWater /\ w.next = b.wire.next
          /\ w.booted = b.wire.booted /\ w.helloSent = b.wire.helloSent
          /\ w.published = b.wire.published /\ w.selfJoin = b.wire.selfJoin
          /\ w.pending = b.wire.pending /\ w.boot = b.wire.boot /\ w.recent = b.wire.recent
      BY <3>1 DEF Wires
    <3>3. t = [b EXCEPT !.wire = w, !.out = @ \union {d}]
      BY <1>3 DEF Servers
    <3> HIDE DEF w
    <3>4. /\ t \in Servers /\ t.wire = w /\ t.out = b.out \union {d}
          /\ t.left = b.left /\ t.life = b.life
      BY <1>3, <2>1, <3>2, <3>3 DEF Servers
    <3> HIDE DEF t
    <3>5. Rests(s, t)
      BY <1>3, <3>2, <3>4 DEF Rests, Like, BootLike
    <3> QED BY <1>3, <3>2, <3>4, <3>5
  <2>3. Sent(d, s)
    <3>1. s.life # 0 /\ s.life \in Nat /\ s.wire.next \in Nat /\ Most \in Nat
      BY <1>1 DEF Sound, Orderly, Servers, Wires, Most
    <3> QED
      BY <2>1, <3>1 DEF Sent
  <2> HIDE DEF t
  <2>4. Leads(s, t) /\ HearsNoMore(s, t) /\ \A g : Reaches(s, g) => Reaches(t, g)
    <3>1. \A e \in t.out : e \in s.out \/ ~(0 <= e.base)
      BY <2>1, <2>2
    <3> QED BY <1>1, <2>2, <3>1, RestLeads
  <2>5. Sound(t, x)
    <3>1. \A e \in t.out : Sent(e, s)
      BY <2>2, <2>3 DEF Sound
    <3>2. ~t.left /\ Len(t.wire.recent) <= MaxRecent
      BY <1>1, <2>2, <1>5
    <3> QED BY <2>2, <3>1, <3>2, RestSound
  <2> QED
    BY <1>5, <2>4, <2>5 DEF Advances
<1>6. \/ Delivery!TicketTaken(s) = s
      \/ ~s.left /\ Delivery!TicketTaken(s) = b
      \/ ~s.left /\ Delivery!TicketTaken(s) = t
  BY DEF Delivery!TicketTaken
<1> QED
  BY <1>2, <1>4, <1>5, <1>6

\* Windows that are open are sent again; schedules change.
LEMMA ReplayAdvances ==
    ASSUME NEW s, NEW x, Sound(s, x), Delivery!LifeAssumption, x \in 0..MaxExtra,
           NEW O \in SUBSET s.wire.pending, \A w \in O : ~w.acked,
           NEW Q \in SUBSET Windows,
           \A v \in Q : \E w \in s.wire.pending : Like(v, w),
           \A w \in s.wire.pending : \E v \in Q : Like(v, w),
           NEW D, \A d \in D : \/ d \in s.out
                               \/ \E w \in O : d = Delivery!Datagram(s, w.label, w.base, w.final)
    PROVE  Advances(s, [s EXCEPT !.out = D, !.wire.pending = Q], x)
<1> DEFINE t == [s EXCEPT !.out = D, !.wire.pending = Q]
<1>1. s \in Servers /\ Len(s.wire.recent) <= MaxRecent /\ (s.left => ~s.wire.bound)
  BY DEF Sound, Orderly
<1>2. \A w \in O : /\ Delivery!Datagram(s, w.label, w.base, w.final) \in Datagrams
                   /\ Sent(Delivery!Datagram(s, w.label, w.base, w.final), s)
  <2> SUFFICES ASSUME NEW w \in O
               PROVE  /\ Delivery!Datagram(s, w.label, w.base, w.final) \in Datagrams
                      /\ Sent(Delivery!Datagram(s, w.label, w.base, w.final), s)
    OBVIOUS
  <2>1. /\ w \in Windows /\ WindowFits(s, w) /\ s.wire.next \in Nat /\ s.life \in Nat
        /\ s.life # 0
    BY <1>1 DEF Sound, Orderly, Servers, Wires
  <2>2. /\ w.label \in {"hello", "self-join", "extra"} /\ w.base \in Nat /\ w.final \in Nat
    BY <2>1 DEF Windows
  <2>3. s.wire.next <= Most
    BY <1>1 DEF Sound, Orderly, Joined, Delivery!LifeAssumption, Most, Servers, Wires
  <2> QED
    BY <2>1, <2>2, <2>3 DEF Delivery!Datagram, Datagrams, Sent, WindowFits, Notices, Most,
       Delivery!LifeAssumption
<1>3. D \subseteq Datagrams /\ \A d \in D : Sent(d, s)
  <2>1. s.out \subseteq Datagrams /\ \A d \in s.out : Sent(d, s)
    BY <1>1 DEF Sound, Servers
  <2> QED
    BY <1>2, <2>1
<1>4. /\ t \in Servers /\ t.out = D /\ t.left = s.left /\ t.wire.recent = s.wire.recent
      /\ t.wire.bound = s.wire.bound /\ Rests(s, t)
  BY <1>1, <1>3 DEF Servers, Wires, Rests, BootLike
<1> HIDE DEF t
<1>5. Sound(t, x)
  BY <1>1, <1>3, <1>4, RestSound
<1>6. \A d \in t.out : d \in s.out \/ \A h \in Nat : OpenBeyond(s, h) => h <= d.final
  BY <1>4 DEF OpenBeyond, Delivery!Datagram
<1>7. Leads(s, t) /\ HearsNoMore(s, t) /\ \A g : Reaches(s, g) => Reaches(t, g)
  BY <1>1, <1>4, <1>6, RestLeads
<1> QED
  BY <1>5, <1>7 DEF Advances, t

LEMMA ReplayedAdvances ==
    ASSUME NEW s, NEW x, Sound(s, x), Delivery!LifeAssumption, Delivery!PolicyAssumption,
           x \in 0..MaxExtra
    PROVE  Advances(s, Delivery!Replayed(s), x)
<1> DEFINE again(w) == IF Delivery!Exhausted(Policy, w.retry) THEN Delivery!Begin(Policy)
                       ELSE Delivery!DeferFrom(Policy, w.retry)
           O == {v \in s.wire.pending : ~v.acked}
           f(w) == IF ~w.acked THEN [w EXCEPT !.retry = again(w)] ELSE w
           Q == {f(w) : w \in s.wire.pending}
           D == s.out \union {Delivery!Datagram(s, w.label, w.base, w.final) : w \in O}
<1>1. s.wire.pending \subseteq Windows
  BY DEF Sound, Servers, Wires
<1>2. \A w \in Windows : again(w) \in Delivery!Schedules
  BY SchedulesStay DEF Windows
<1>3. Delivery!Replayed(s) = [s EXCEPT !.out = D, !.wire.pending = Q]
  BY DEF Delivery!Replayed
<1> HIDE DEF again
<1>4. \A w \in Windows : f(w) \in Windows /\ Like(f(w), w)
  BY <1>2 DEF Windows, Like
<1> HIDE DEF f
<1>5. /\ Q \in SUBSET Windows
      /\ \A v \in Q : \E w \in s.wire.pending : Like(v, w)
      /\ \A w \in s.wire.pending : \E v \in Q : Like(v, w)
  BY <1>1, <1>4
<1>6. O \in SUBSET s.wire.pending /\ \A w \in O : ~w.acked
  OBVIOUS
<1>7. \A d \in D : d \in s.out \/ \E w \in O : d = Delivery!Datagram(s, w.label, w.base, w.final)
  OBVIOUS
<1> HIDE DEF O, Q, D
<1>8. Advances(s, [s EXCEPT !.out = D, !.wire.pending = Q], x)
  BY <1>5, <1>6, <1>7, ReplayAdvances, Zenon
<1> QED
  BY <1>3, <1>8

LEMMA PolledAdvances ==
    ASSUME NEW s, NEW x, Sound(s, x), Delivery!LifeAssumption, Delivery!PolicyAssumption,
           x \in 0..MaxExtra
    PROVE  Advances(s, Delivery!WindowsPolled(s), x)
<1> DEFINE due(w) == ~w.acked /\ Delivery!Due(Policy, w.retry)
           next(w) == Delivery!RecordRetry(Policy, w.retry)
           O == {v \in s.wire.pending : due(v)}
           f(w) == IF due(w) THEN [w EXCEPT !.retry = next(w)] ELSE w
           Q == {f(w) : w \in s.wire.pending}
           D == s.out \union {Delivery!Datagram(s, w.label, w.base, w.final) : w \in O}
<1>1. s.wire.pending \subseteq Windows
  BY DEF Sound, Servers, Wires
<1>2. \A w \in Windows : next(w) \in Delivery!Schedules
  BY SchedulesStay DEF Windows
<1>3. Delivery!WindowsPolled(s) = [s EXCEPT !.out = D, !.wire.pending = Q]
  BY DEF Delivery!WindowsPolled
<1>4. \A w \in O : ~w.acked
  OBVIOUS
<1> HIDE DEF next, due
<1>5. \A w \in Windows : f(w) \in Windows /\ Like(f(w), w)
  BY <1>2 DEF Windows, Like
<1> HIDE DEF f
<1>6. /\ Q \in SUBSET Windows
      /\ \A v \in Q : \E w \in s.wire.pending : Like(v, w)
      /\ \A w \in s.wire.pending : \E v \in Q : Like(v, w)
  BY <1>1, <1>5
<1>7. O \in SUBSET s.wire.pending
  OBVIOUS
<1>8. \A d \in D : d \in s.out \/ \E w \in O : d = Delivery!Datagram(s, w.label, w.base, w.final)
  OBVIOUS
<1> HIDE DEF O, Q, D
<1>9. Advances(s, [s EXCEPT !.out = D, !.wire.pending = Q], x)
  BY <1>4, <1>6, <1>7, <1>8, ReplayAdvances, Zenon
<1> QED
  BY <1>3, <1>9

\* A window of fresh records is opened, and its datagram goes out.
Grown(s, t, w) ==
    /\ w.base = s.wire.next /\ w.base <= w.final /\ ~w.acked
    /\ Delivery!Datagram(s, w.label, w.base, w.final) \in Datagrams
    /\ t.wire.next = w.final + 1 /\ t.wire.pending = s.wire.pending \union {w}
    /\ t.out = s.out \union {Delivery!Datagram(s, w.label, w.base, w.final)}
    /\ t.life = s.life /\ t.left = s.left /\ t.wire.bound = s.wire.bound
    /\ t.wire.heard = s.wire.heard /\ t.wire.object = s.wire.object
    /\ t.wire.lastAck = s.wire.lastAck /\ t.wire.highWater = s.wire.highWater
    /\ t.wire.booted = s.wire.booted /\ t.wire.boot = s.wire.boot
    /\ t.wire.recent = s.wire.recent

LEMMA PublishedIs ==
    ASSUME Delivery!PolicyAssumption, NEW s \in Servers,
           \A v \in s.wire.pending : v.final < s.wire.next,
           NEW label \in {"hello", "self-join", "extra"}, NEW count \in Nat \ {0},
           NEW app \in BOOLEAN
    PROVE  /\ Delivery!Published(s, label, count, app) \in Servers
           /\ Delivery!Published(s, label, count, app).wire.helloSent = s.wire.helloSent
           /\ Delivery!Published(s, label, count, app).wire.published = s.wire.published
           /\ Delivery!Published(s, label, count, app).wire.selfJoin = s.wire.selfJoin
           /\ Delivery!Published(s, label, count, app).wire.suppress = s.wire.suppress
           /\ \E w \in Windows : /\ w.label = label /\ w.final + 1 = s.wire.next + count
                                 /\ Grown(s, Delivery!Published(s, label, count, app), w)
<1> DEFINE w == [label |-> label, base |-> s.wire.next, final |-> s.wire.next + count - 1,
                 app |-> app, acked |-> FALSE, retry |-> Delivery!Begin(Policy)]
           d == Delivery!Datagram(s, label, w.base, w.final)
           u == [s EXCEPT !.wire.next = w.final + 1, !.out = @ \union {d}]
           N == w.final + 1
           P == s.wire.pending \union {w}
           O == s.out \union {d}
           t == [s EXCEPT !.wire.next = N, !.wire.pending = P, !.out = O]
<1>1. /\ s.wire.next \in Nat /\ s.life \in Nat /\ s.wire.pending \subseteq Windows
      /\ s.out \subseteq Datagrams
  BY DEF Servers, Wires
<1>2. s.wire.next + count - 1 \in Nat /\ s.wire.next <= s.wire.next + count - 1
  BY <1>1
<1>3. /\ w \in Windows /\ w.base = s.wire.next /\ w.final = s.wire.next + count - 1
      /\ w.label = label /\ ~w.acked
  BY <1>1, <1>2, SchedulesStay DEF Windows
<1>4. Delivery!Published(s, label, count, app) = Delivery!Register(u, w)
  BY DEF Delivery!Published
<1> HIDE DEF w
<1>5. d \in Datagrams
  BY <1>1, <1>2, <1>3 DEF Delivery!Datagram, Datagrams, Notices
<1>6. \A v \in s.wire.pending : v.final < s.wire.next /\ v.final \in Nat
  BY <1>1 DEF Windows
<1> HIDE DEF d
<1>7. u.wire.pending = s.wire.pending
  BY <1>1 DEF Servers, Wires
<1>8. Delivery!Register(u, w) = [u EXCEPT !.wire.pending = @ \union {w}]
  BY <1>1, <1>3, <1>6, <1>7 DEF Delivery!Register
<1>9. [u EXCEPT !.wire.pending = @ \union {w}] = t
  BY <1>1 DEF Servers, Wires
<1>10. N \in Nat /\ P \subseteq Windows /\ O \subseteq Datagrams
  BY <1>1, <1>2, <1>3, <1>5
<1> HIDE DEF N, P, O
<1>11. /\ t \in Servers /\ t.wire.next = N /\ t.wire.pending = P /\ t.out = O
       /\ t.life = s.life /\ t.left = s.left /\ t.wire.bound = s.wire.bound
       /\ t.wire.heard = s.wire.heard /\ t.wire.object = s.wire.object
       /\ t.wire.lastAck = s.wire.lastAck /\ t.wire.highWater = s.wire.highWater
       /\ t.wire.booted = s.wire.booted /\ t.wire.boot = s.wire.boot
       /\ t.wire.recent = s.wire.recent /\ t.wire.helloSent = s.wire.helloSent
       /\ t.wire.published = s.wire.published /\ t.wire.selfJoin = s.wire.selfJoin
       /\ t.wire.suppress = s.wire.suppress
  BY <1>10 DEF Servers, Wires
<1> HIDE DEF t
<1>12. Grown(s, t, w)
  BY <1>1, <1>2, <1>3, <1>5, <1>11 DEF Grown, N, P, O, d
<1>13. Delivery!Published(s, label, count, app) = t
  BY <1>4, <1>8, <1>9
<1>14. w.final + 1 = s.wire.next + count
  BY <1>1, <1>3
<1> QED
  BY <1>3, <1>11, <1>12, <1>13, <1>14

\* Fresh records, in a window of their own, lie beyond all others.
LEMMA GrowthAdvances ==
    ASSUME NEW s, NEW x, Sound(s, x), Delivery!LifeAssumption, NEW y \in 0..MaxExtra,
           NEW t \in Servers, NEW w \in Windows, Grown(s, t, w),
           w.label = "hello" => w.final = 1, t.wire.helloSent,
           t.wire.selfJoin < t.wire.next, t.wire.next <= Joined(t) + y
    PROVE  Advances(s, t, y)
<1> DEFINE d == Delivery!Datagram(s, w.label, w.base, w.final)
<1>0. /\ w.base = s.wire.next /\ w.base <= w.final /\ ~w.acked /\ d \in Datagrams
      /\ t.wire.next = w.final + 1 /\ t.wire.pending = s.wire.pending \union {w}
      /\ t.out = s.out \union {d} /\ t.life = s.life /\ t.left = s.left
      /\ t.wire.bound = s.wire.bound /\ t.wire.heard = s.wire.heard
      /\ t.wire.object = s.wire.object /\ t.wire.lastAck = s.wire.lastAck
      /\ t.wire.highWater = s.wire.highWater /\ t.wire.booted = s.wire.booted
      /\ t.wire.boot = s.wire.boot /\ t.wire.recent = s.wire.recent
  BY DEF Grown
<1> HIDE DEF d
<1>1. s \in Servers /\ s.wire.next \in Nat /\ t.wire.next \in Nat /\ w.final \in Nat
  BY DEF Sound, Servers, Wires, Windows
<1>2. s.wire.next < t.wire.next
  BY <1>0, <1>1
<1>3. t.wire.next <= Most
  BY <1>0, <1>1 DEF Joined, Delivery!LifeAssumption, Most
<1>4. \A v \in t.wire.pending : WindowFits(t, v)
  BY <1>0, <1>1, <1>2 DEF Sound, WindowFits, Windows, Servers, Wires
<1>5. BootFits(t)
  BY <1>0, <1>1, <1>2 DEF Sound, BootFits, Delivery!BootWindows, Servers, Wires
<1>6. Orderly(t, y)
  BY <1>0, <1>1 DEF Sound, Orderly
<1>7. \A e \in t.out : Sent(e, t)
  <2>1. Sent(d, t)
    <3>1. /\ d.life = s.life /\ d.base = w.base /\ d.final = w.final /\ d.label = w.label
          /\ w.label \in {"hello", "self-join", "extra"} /\ s.life \in Nat
          /\ w.base \in Nat /\ Most \in Int /\ s.life # 0
      BY <1>0 DEF d, Delivery!Datagram, Windows, Sound, Orderly, Servers, Most,
         Delivery!LifeAssumption
    <3> QED
      BY <1>0, <1>1, <1>3, <3>1 DEF Sent
  <2>2. ASSUME NEW e \in s.out
        PROVE  Sent(e, t)
    <3>1. Sent(e, s) /\ e.final \in Int
      BY <1>0, <1>1 DEF Sound, Datagrams, Servers
    <3> QED
      BY <3>1, <1>0, <1>1, <1>2 DEF Sent
  <2> QED
    BY <1>0, <2>1, <2>2
<1>8. Sound(t, y)
  BY <1>4, <1>5, <1>6, <1>7 DEF Sound
<1>9. /\ \A h \in Nat : OpenBeyond(s, h) => OpenBeyond(t, h)
      /\ \A h \in Nat : BootBeyond(s, h) => BootBeyond(t, h)
      /\ \A h \in Nat : OpenBeyond(s, h) /\ OutBeyond(s, h) => OutBeyond(t, h)
  <2>1. \A h \in Nat : OpenBeyond(s, h) => h <= w.final
    BY <1>0, <1>1 DEF OpenBeyond
  <2>2. d.final = w.final
    BY DEF d, Delivery!Datagram
  <2> QED
    BY <1>0, <1>1, <1>2, <2>1, <2>2 DEF OpenBeyond, BootBeyond, OutBeyond
<1>10. Leads(s, t) /\ HearsNoMore(s, t)
  BY <1>0, <1>1, <1>2, <1>9 DEF Leads, HearsNoMore
<1>11. ASSUME NEW g \in Nat, Reaches(s, g)
       PROVE  Reaches(t, g)
  <2>1. g <= t.wire.next
    BY <1>0, <1>1, <1>2, <1>11 DEF Reaches
  <2>2. ASSUME NEW n \in g..(t.wire.next - 1)
        PROVE  Holds(t, n)
    <3>1. CASE n \in g..(s.wire.next - 1)
      BY <3>1, <1>0, <1>11 DEF Reaches, Holds
    <3>2. CASE n \in w.base..w.final
      BY <3>2, <1>0 DEF Holds
    <3> QED
      BY <1>0, <1>1, <3>1, <3>2
  <2> QED
    BY <2>1, <2>2, <1>0, <1>11 DEF Reaches
<1> QED
  BY <1>8, <1>10, <1>11 DEF Advances

\* HostHello and roster.
LEMMA HelloAdvances ==
    ASSUME NEW s, NEW x \in 0..MaxExtra, NEW m, Sound(s, x), Delivery!LifeAssumption,
           Delivery!PolicyAssumption
    PROVE  Advances(s, Delivery!HelloSent(s, m), x)
<1> DEFINE app == TRUE
           p == Delivery!Published(s, "hello", 2, app)
           t == [p EXCEPT !.wire.helloSent = TRUE, !.wire.helloDue = FALSE]
<1>1. CASE Delivery!HelloSent(s, m) = s
  BY <1>1, StandsStill
<1>2. CASE ~s.wire.helloSent /\ Delivery!HelloSent(s, m) = t
  <2>1. /\ s \in Servers /\ s.wire.next = 0 /\ ~s.wire.booted /\ s.wire.selfJoin < 0
        /\ s.wire.published \in BOOLEAN /\ s.wire.selfJoin \in Int
        /\ \A v \in s.wire.pending : v.final < s.wire.next
    BY <1>2 DEF Sound, Orderly, WindowFits, Servers, Wires
  <2>2. /\ p \in Servers /\ p.wire.published = s.wire.published
        /\ p.wire.selfJoin = s.wire.selfJoin
        /\ \E w \in Windows : w.label = "hello" /\ w.final + 1 = s.wire.next + 2 /\ Grown(s, p, w)
    <3> app \in BOOLEAN OBVIOUS
    <3> HIDE DEF app
    <3> QED BY <2>1, PublishedIs
  <2> HIDE DEF p
  <2>3. PICK w \in Windows : w.label = "hello" /\ w.final + 1 = s.wire.next + 2 /\ Grown(s, p, w)
    BY <2>2
  <2>4. /\ t \in Servers /\ Grown(s, t, w) /\ t.wire.helloSent
        /\ t.wire.selfJoin = s.wire.selfJoin /\ t.wire.published = s.wire.published
    BY <2>2, <2>3 DEF Servers, Wires, Grown
  <2> HIDE DEF t
  <2>5. w.final = 1 /\ t.wire.next = 2 /\ t.wire.booted = s.wire.booted
    BY <2>1, <2>3, <2>4 DEF Grown, Windows
  <2>6. t.wire.next <= Joined(t) + x /\ t.wire.selfJoin < t.wire.next
    BY <2>1, <2>4, <2>5 DEF Joined
  <2>7. Advances(s, t, x)
    BY <2>4, <2>5, <2>6, GrowthAdvances
  <2> QED
    BY <1>2, <2>7
<1> QED
  BY <1>1, <1>2 DEF Delivery!HelloSent

\* The self join.
LEMMA SelfJoinAdvances ==
    ASSUME NEW s, NEW x \in 0..MaxExtra, Sound(s, x), Delivery!LifeAssumption,
           Delivery!PolicyAssumption,
           s.wire.helloSent, ~s.wire.published
    PROVE  Advances(s, [Delivery!Published(s, "self-join", 1, FALSE) EXCEPT
                                    !.wire.published = TRUE, !.wire.selfJoin = s.wire.next], x)
<1> DEFINE app == FALSE
           count == 1
           p == Delivery!Published(s, "self-join", count, app)
           j == s.wire.next
           t == [p EXCEPT !.wire.published = TRUE, !.wire.selfJoin = j]
<1>1. /\ s \in Servers /\ s.wire.next \in Nat /\ s.wire.next <= Joined(s) + x
      /\ \A v \in s.wire.pending : v.final < s.wire.next
      /\ j \in Nat \union {-1} /\ s.wire.booted \in BOOLEAN
  BY DEF Sound, Orderly, WindowFits, Servers, Wires
<1>2. /\ p \in Servers /\ p.wire.helloSent = s.wire.helloSent
      /\ \E w \in Windows : w.label = "self-join" /\ w.final + 1 = s.wire.next + count /\ Grown(s, p, w)
  <2> app \in BOOLEAN /\ count \in Nat \ {0} OBVIOUS
  <2> HIDE DEF app, count
  <2> QED BY <1>1, PublishedIs
<1> HIDE DEF p, j
<1>3. PICK w \in Windows : w.label = "self-join" /\ w.final + 1 = s.wire.next + count /\ Grown(s, p, w)
  BY <1>2
<1>4. /\ t \in Servers /\ Grown(s, t, w) /\ t.wire.helloSent = s.wire.helloSent
      /\ t.wire.selfJoin = j /\ t.wire.published
  <2> DEFINE k == [p.wire EXCEPT !.published = TRUE, !.selfJoin = j]
  <2>1. p.wire \in Wires
    BY <1>2 DEF Servers
  <2>2. /\ k \in Wires /\ k.published = TRUE /\ k.selfJoin = j
        /\ k.bound = p.wire.bound /\ k.heard = p.wire.heard /\ k.object = p.wire.object
        /\ k.lastAck = p.wire.lastAck /\ k.highWater = p.wire.highWater
        /\ k.next = p.wire.next /\ k.booted = p.wire.booted
        /\ k.helloSent = p.wire.helloSent /\ k.pending = p.wire.pending
        /\ k.boot = p.wire.boot /\ k.recent = p.wire.recent
    BY <1>1, <2>1 DEF Wires
  <2>3. t = [p EXCEPT !.wire = k]
    BY <1>2 DEF Servers
  <2> HIDE DEF k
  <2>4. /\ t \in Servers /\ t.wire = k /\ t.out = p.out /\ t.life = p.life /\ t.left = p.left
    BY <1>2, <2>2, <2>3 DEF Servers
  <2> HIDE DEF t
  <2>5. Grown(s, t, w)
    BY <1>3, <2>2, <2>4 DEF Grown
  <2> QED
    BY <1>2, <2>2, <2>4, <2>5
<1> HIDE DEF t
<1>5. /\ t.wire.next = s.wire.next + 1 /\ t.wire.booted = s.wire.booted
      /\ w.label # "hello"
  BY <1>1, <1>3, <1>4 DEF Grown
<1>6. t.wire.next <= Joined(t) + x
  BY <1>1, <1>4, <1>5 DEF Joined
<1>7. t.wire.selfJoin < t.wire.next /\ t.wire.helloSent
  BY <1>1, <1>4, <1>5 DEF j
<1>8. Advances(s, t, x)
  BY <1>4, <1>5, <1>6, <1>7, GrowthAdvances
<1> QED
  BY <1>8 DEF t, p, j

\* A publication of another handler.
LEMMA ExtraAdvances ==
    ASSUME NEW s, NEW x \in 0..MaxExtra, Sound(s, x), Delivery!LifeAssumption,
           Delivery!PolicyAssumption,
           s.wire.booted, x < MaxExtra
    PROVE  Advances(s, Delivery!Published(s, "extra", 1, FALSE), x + 1)
<1> DEFINE app == FALSE
           count == 1
           t == Delivery!Published(s, "extra", count, app)
<1>0. s \in Servers /\ \A v \in s.wire.pending : v.final < s.wire.next
  BY DEF Sound, WindowFits
<1>1. /\ s \in Servers /\ s.wire.next \in Nat /\ s.wire.next <= Joined(s) + x
      /\ \A v \in s.wire.pending : v.final < s.wire.next
      /\ s.wire.helloSent /\ s.wire.selfJoin < s.wire.next /\ s.wire.selfJoin \in Int
      /\ s.wire.booted \in BOOLEAN /\ s.wire.published \in BOOLEAN
      /\ x + 1 \in 0..MaxExtra
  BY DEF Sound, Orderly, WindowFits, Servers, Wires, Delivery!LifeAssumption
<1>2. /\ t \in Servers /\ t.wire.helloSent = s.wire.helloSent
      /\ t.wire.published = s.wire.published /\ t.wire.selfJoin = s.wire.selfJoin
      /\ \E w \in Windows : w.label = "extra" /\ w.final + 1 = s.wire.next + count /\ Grown(s, t, w)
  <2> app \in BOOLEAN /\ count \in Nat \ {0} OBVIOUS
  <2> HIDE DEF app, count
  <2> QED BY <1>0, PublishedIs
<1> HIDE DEF t
<1>3. PICK w \in Windows : w.label = "extra" /\ w.final + 1 = s.wire.next + count /\ Grown(s, t, w)
  BY <1>2
<1>4. /\ t.wire.next = s.wire.next + 1 /\ t.wire.booted = s.wire.booted
      /\ w.label # "hello" /\ t.wire.helloSent
  BY <1>1, <1>2, <1>3 DEF Grown
<1>5. t.wire.next <= Joined(t) + (x + 1) /\ t.wire.selfJoin < t.wire.next
  BY <1>1, <1>2, <1>4 DEF Joined
<1>6. Advances(s, t, x + 1)
  BY <1>1, <1>2, <1>3, <1>4, <1>5, GrowthAdvances
<1> QED
  BY <1>6 DEF t

\* The session bootstrap.
LEMMA BootstrapAdvances ==
    ASSUME NEW s, NEW x \in 0..MaxExtra, Sound(s, x), s.wire.bound,
           Delivery!LifeAssumption, Delivery!PolicyAssumption, Delivery!NoneAssumption
    PROVE  Advances(s, Delivery!SessionBootstrap(s), x)
<1> DEFINE final == s.wire.next + 1
           base == IF s.wire.selfJoin = -1 THEN s.wire.next ELSE s.wire.selfJoin
           boot == [base |-> base, final |-> final, acked |-> FALSE, retry |-> Delivery!Begin(BootPolicy)]
           d == Delivery!Datagram(s, "boot", s.wire.next, final)
           N == final + 1
           O == s.out \union {d}
           t == [s EXCEPT !.wire.booted = TRUE, !.wire.next = N, !.wire.boot = boot, !.out = O]
<1>1. CASE Delivery!SessionBootstrap(s) = s
  BY <1>1, StandsStill
<1>2. CASE ~s.wire.booted /\ s.wire.helloSent /\ Delivery!SessionBootstrap(s) = t
  <2>1. /\ s \in Servers /\ s.wire.next \in Nat /\ s.wire.selfJoin \in Nat \union {-1}
        /\ s.life \in Nat /\ s.out \subseteq Datagrams /\ s.wire.published \in BOOLEAN
    BY DEF Sound, Servers, Wires
  <2>2. /\ s.wire.selfJoin < s.wire.next /\ s.wire.next <= Joined(s) + x /\ ~s.left
        /\ s.life # 0 /\ s.life <= MaxLives + (IF s.left THEN 1 ELSE 0)
        /\ Len(s.wire.recent) <= MaxRecent /\ s.wire.boot = None
    BY <1>2 DEF Sound, Orderly, BootFits
  <2>3. /\ final \in Nat /\ base \in Nat /\ base <= s.wire.next /\ N \in Nat
        /\ s.wire.next < final /\ final < N
    BY <2>1, <2>2
  <2>4. /\ boot \in Delivery!BootWindows /\ boot.base = base /\ boot.final = final /\ ~boot.acked
    BY <2>3, SchedulesStay DEF Delivery!BootWindows
  <2>5. boot # None
    BY <2>4 DEF Delivery!NoneAssumption
  <2>6. /\ d \in Datagrams /\ d.life = s.life /\ d.base = s.wire.next /\ d.final = final
        /\ d.label = "boot"
    BY <2>1, <2>3 DEF d, Delivery!Datagram, Datagrams, Notices
  <2>7. O \subseteq Datagrams
    BY <2>1, <2>6
  <2> HIDE DEF boot, base, final, d, O, N
  <2>8. /\ t \in Servers /\ t.wire.booted /\ t.wire.next = N /\ t.wire.boot = boot /\ t.out = O
        /\ t.life = s.life /\ t.left = s.left /\ t.wire.bound = s.wire.bound
        /\ t.wire.heard = s.wire.heard /\ t.wire.object = s.wire.object
        /\ t.wire.lastAck = s.wire.lastAck /\ t.wire.highWater = s.wire.highWater
        /\ t.wire.pending = s.wire.pending /\ t.wire.recent = s.wire.recent
        /\ t.wire.helloSent = s.wire.helloSent /\ t.wire.published = s.wire.published
        /\ t.wire.selfJoin = s.wire.selfJoin
    BY <2>1, <2>3, <2>4, <2>7 DEF Servers, Wires
  <2> HIDE DEF t
  <2>9. N = s.wire.next + 2 /\ s.wire.next < N
    BY <2>1 DEF N, final
  <2>10. t.wire.next <= Joined(t) + x
    BY <1>2, <2>1, <2>2, <2>8, <2>9 DEF Joined
  <2>11. N <= Most
    <3>1. Joined(t) \in 0..5
      BY DEF Joined
    <3>2. MaxExtra \in Nat
      BY DEF Delivery!LifeAssumption
    <3> QED
      BY <2>3, <2>8, <2>10, <3>1, <3>2 DEF Most
  <2>12. Orderly(t, x)
    <3>1. t.wire.selfJoin < t.wire.next
      BY <2>1, <2>2, <2>8, <2>9
    <3> QED
      BY <1>2, <2>2, <2>8, <2>10, <3>1 DEF Orderly
  <2>13. BootFits(t)
    BY <2>1, <2>3, <2>4, <2>8 DEF BootFits
  <2>14. \A w \in t.wire.pending : WindowFits(t, w)
    BY <2>1, <2>8, <2>9 DEF Sound, WindowFits, Windows, Servers, Wires
  <2>15. \A e \in t.out : Sent(e, t)
    <3>1. Sent(d, t)
      BY <2>1, <2>2, <2>3, <2>4, <2>6, <2>8, <2>11 DEF Sent, Most, Delivery!LifeAssumption
    <3>2. ASSUME NEW e \in s.out
          PROVE  Sent(e, t)
      <4>1. Sent(e, s) /\ e.final \in Int
        BY <2>1 DEF Sound, Datagrams
      <4> QED
        BY <4>1, <1>2, <2>1, <2>8, <2>9 DEF Sent
    <3> QED
      BY <2>8, <3>1, <3>2 DEF O
  <2>16. Sound(t, x)
    BY <2>8, <2>12, <2>13, <2>14, <2>15 DEF Sound
  <2>17. /\ \A h \in Nat : OpenBeyond(s, h) => OpenBeyond(t, h)
         /\ \A h \in Nat : OpenBeyond(s, h) => BootBeyond(t, h)
         /\ \A h \in Nat : OpenBeyond(s, h) /\ OutBeyond(s, h) => OutBeyond(t, h)
    <3>1. \A h \in Nat : OpenBeyond(s, h) => h <= s.wire.next /\ h <= N /\ h <= final
      BY <2>1, <2>3, <2>9 DEF OpenBeyond
    <3>2. \A h \in Nat : OpenBeyond(s, h) => OpenBeyond(t, h)
      BY <3>1, <2>8 DEF OpenBeyond
    <3>3. \A h \in Nat : OpenBeyond(s, h) => BootBeyond(t, h)
      BY <3>1, <2>4, <2>8 DEF BootBeyond
    <3>4. \A h \in Nat : OpenBeyond(s, h) /\ OutBeyond(s, h) => OutBeyond(t, h)
      BY <3>1, <2>6, <2>8 DEF OutBeyond, O
    <3> QED
      BY <3>2, <3>3, <3>4
  <2>18. Leads(s, t) /\ HearsNoMore(s, t)
    BY <1>2, <2>1, <2>8, <2>9, <2>17 DEF Leads, HearsNoMore
  <2>19. ASSUME NEW g \in Nat, Reaches(s, g)
         PROVE  Reaches(t, g)
    <3>1. g <= t.wire.next
      BY <2>1, <2>8, <2>9, <2>19 DEF Reaches
    <3>2. ASSUME NEW n \in g..(t.wire.next - 1)
          PROVE  Holds(t, n)
      <4>1. CASE n \in g..(s.wire.next - 1)
        BY <4>1, <2>2, <2>8, <2>19 DEF Reaches, Holds
      <4>2. CASE n \in base..final
        BY <4>2, <2>4, <2>5, <2>8 DEF Holds
      <4>3. n \in g..(s.wire.next - 1) \/ n \in base..final
        BY <2>1, <2>3, <2>8, <2>9 DEF N
      <4> QED
        BY <4>1, <4>2, <4>3
    <3> QED
      BY <3>1, <3>2, <2>4, <2>8 DEF Reaches
  <2> QED
    BY <1>2, <2>16, <2>18, <2>19 DEF Advances
<1>3. \/ Delivery!SessionBootstrap(s) = s
      \/ ~s.wire.booted /\ s.wire.helloSent /\ Delivery!SessionBootstrap(s) = t
  BY DEF Delivery!SessionBootstrap
<1> QED
  BY <1>1, <1>2, <1>3

\* The publication of a join.
LEMMA JoinAdvances ==
    ASSUME NEW s, NEW x \in 0..MaxExtra, Sound(s, x), s.wire.bound,
           Delivery!LifeAssumption, Delivery!PolicyAssumption, Delivery!NoneAssumption
    PROVE  Advances(s, Delivery!JoinPublication(s), x)
<1> DEFINE b == [s EXCEPT !.wire.suppress = FALSE]
           j == [Delivery!Published(s, "self-join", 1, FALSE) EXCEPT
                             !.wire.published = TRUE, !.wire.selfJoin = s.wire.next]
<1>1. s \in Servers /\ Len(s.wire.recent) <= MaxRecent
  BY DEF Sound, Orderly
<1>2. CASE Delivery!JoinPublication(s) = s
  BY <1>2, StandsStill
<1>3. CASE Delivery!JoinPublication(s) = Delivery!SessionBootstrap(b)
  <2>1. /\ b \in Servers /\ b.out = s.out /\ b.left = s.left /\ b.wire.recent = s.wire.recent
        /\ b.wire.bound = s.wire.bound /\ Rests(s, b)
    <3> DEFINE w == [s.wire EXCEPT !.suppress = FALSE]
    <3>1. s.wire \in Wires
      BY <1>1 DEF Servers
    <3>2. /\ w \in Wires /\ w.bound = s.wire.bound /\ w.heard = s.wire.heard
          /\ w.object = s.wire.object /\ w.lastAck = s.wire.lastAck
          /\ w.highWater = s.wire.highWater /\ w.next = s.wire.next
          /\ w.booted = s.wire.booted /\ w.helloSent = s.wire.helloSent
          /\ w.published = s.wire.published /\ w.selfJoin = s.wire.selfJoin
          /\ w.pending = s.wire.pending /\ w.boot = s.wire.boot /\ w.recent = s.wire.recent
      BY <3>1 DEF Wires
    <3>3. b = [s EXCEPT !.wire = w]
      BY <1>1 DEF Servers
    <3> HIDE DEF w
    <3>4. /\ b \in Servers /\ b.wire = w /\ b.out = s.out /\ b.left = s.left /\ b.life = s.life
      BY <1>1, <3>2, <3>3 DEF Servers
    <3> HIDE DEF b
    <3>5. Rests(s, b)
      BY <3>2, <3>4 DEF Rests, Like, BootLike
    <3> QED BY <3>2, <3>4, <3>5
  <2> HIDE DEF b
  <2>2. Leads(s, b) /\ HearsNoMore(s, b) /\ \A g : Reaches(s, g) => Reaches(b, g)
    BY <1>1, <2>1, RestLeads
  <2>3. /\ (b.left => ~b.wire.bound) /\ Len(b.wire.recent) <= MaxRecent
        /\ \A d \in b.out : Sent(d, s)
    BY <1>1, <2>1 DEF Sound, Orderly
  <2>4. Sound(b, x)
    BY <2>1, <2>3, RestSound
  <2>5. Advances(s, b, x)
    BY <2>2, <2>4 DEF Advances
  <2>6. Advances(b, Delivery!SessionBootstrap(b), x)
    BY <2>1, <2>4, BootstrapAdvances
  <2> QED
    BY <1>1, <1>3, <2>5, <2>6, AdvancesOn
<1>4. CASE ~s.wire.published /\ s.wire.helloSent /\ Delivery!JoinPublication(s) = Delivery!SessionBootstrap(j)
  <2>1. Advances(s, j, x)
    BY <1>4, SelfJoinAdvances
  <2> HIDE DEF j
  <2>2. Sound(j, x) /\ j.wire.bound
    BY <2>1 DEF Advances, Leads
  <2>3. Advances(j, Delivery!SessionBootstrap(j), x)
    BY <2>2, BootstrapAdvances
  <2> QED
    BY <1>1, <1>4, <2>1, <2>3, AdvancesOn
<1> HIDE DEF b, j
<1>5. \/ Delivery!JoinPublication(s) = s
      \/ Delivery!JoinPublication(s) = Delivery!SessionBootstrap(b)
      \/ ~s.wire.published /\ s.wire.helloSent /\ Delivery!JoinPublication(s) = Delivery!SessionBootstrap(j)
  BY DEF Delivery!JoinPublication, b, j
<1> QED
  BY <1>2, <1>3, <1>4, <1>5

\* The request that answers the hello forgets it.
LEMMA ConfirmKeeps ==
    ASSUME NEW s, NEW x, Sound(s, x)
    PROVE  LET t == Delivery!ConfirmApplication(s, "hello")
           IN  /\ Sound(t, x) /\ Leads(s, t) /\ HearsNoMore(s, t) /\ t.wire.bound = s.wire.bound
               /\ \A g \in Nat : 2 <= g /\ Reaches(s, g) => Reaches(t, g)
<1> DEFINE P == {w \in s.wire.pending : ~(w.app /\ w.label = "hello")}
           t == [s EXCEPT !.wire.pending = P]
<1>1. Delivery!ConfirmApplication(s, "hello") = t
  BY DEF Delivery!ConfirmApplication
<1>2. /\ P \subseteq s.wire.pending
      /\ \A w \in s.wire.pending \ P : w.label = "hello"
  OBVIOUS
<1>3. s \in Servers /\ s.wire.next \in Nat /\ s.wire.pending \subseteq Windows
  BY DEF Sound, Servers, Wires
<1> HIDE DEF P
<1>4. /\ t \in Servers /\ t.wire.pending = P /\ t.out = s.out
      /\ t.life = s.life /\ t.left = s.left /\ t.wire.bound = s.wire.bound
      /\ t.wire.heard = s.wire.heard /\ t.wire.object = s.wire.object
      /\ t.wire.lastAck = s.wire.lastAck /\ t.wire.highWater = s.wire.highWater
      /\ t.wire.recent = s.wire.recent /\ t.wire.next = s.wire.next
      /\ t.wire.booted = s.wire.booted /\ t.wire.boot = s.wire.boot
      /\ t.wire.helloSent = s.wire.helloSent /\ t.wire.published = s.wire.published
      /\ t.wire.selfJoin = s.wire.selfJoin
  BY <1>2, <1>3 DEF Servers, Wires
<1> HIDE DEF t
<1>5. Orderly(t, x) /\ BootFits(t)
  BY <1>4 DEF Sound, Orderly, Joined, BootFits
<1>6. /\ \A w \in t.wire.pending : WindowFits(t, w)
      /\ \A d \in t.out : Sent(d, t)
  BY <1>2, <1>4 DEF Sound, WindowFits, Sent
<1>7. Sound(t, x)
  BY <1>4, <1>5, <1>6 DEF Sound
<1>8. Leads(s, t) /\ HearsNoMore(s, t)
  BY <1>2, <1>3, <1>4 DEF Leads, HearsNoMore, OpenBeyond, BootBeyond, OutBeyond
<1>9. ASSUME NEW g \in Nat, 2 <= g, Reaches(s, g)
      PROVE  Reaches(t, g)
  <2>1. ASSUME NEW n \in g..(s.wire.next - 1)
        PROVE  Holds(t, n)
    <3>1. CASE \E w \in s.wire.pending : ~w.acked /\ n \in w.base..w.final
      <4>1. PICK w \in s.wire.pending : ~w.acked /\ n \in w.base..w.final
        BY <3>1
      <4>2. w.label = "hello" => w.final = 1
        BY DEF Sound, WindowFits
      <4>3. w \in P
        BY <1>2, <1>3, <1>9, <4>1, <4>2 DEF Windows
      <4> QED
        BY <1>4, <4>1, <4>3 DEF Holds
    <3>2. Holds(s, n)
      BY <1>9 DEF Reaches
    <3> QED
      BY <1>4, <3>1, <3>2 DEF Holds
  <2> QED
    BY <1>4, <1>9, <2>1 DEF Reaches
<1> QED
  BY <1>1, <1>4, <1>7, <1>8, <1>9

-----------------------------------------------------------------------------
(* A datagram of the client is handled.                                      *)

\* In touch, but for the bootstrap that is not polled yet.
MidTouch(s, c) ==
    /\ Reaches(s, c.got)
    /\ s.wire.object => c.boot
    /\ \E k \in -1..c.got : s.wire.lastAck = Delivery!Wire(k - 1)
    /\ s.wire.highWater # None =>
          \E h \in 0..c.got : /\ s.wire.highWater = Delivery!Wire(h - 1)
                              /\ OpenBeyond(s, h)
                              /\ BootBeyond(s, h) \/ s.wire.lastAck = s.wire.highWater

Hearing(s, c) ==
    /\ \A p \in s.wire.heard : p[1] <= c.dial /\ (p[1] = c.dial => p[2] \in {0, c.life})
    /\ s.wire.heard # {}

\* The handler that began in s has come to t.
Proceeds(s, t, c, x) ==
    /\ Sound(t, x) /\ Leads(s, t) /\ Hearing(t, c)
    /\ Aligned(t, c) => MidTouch(t, c)

LEMMA ProceedsOn ==
    ASSUME NEW s \in Servers, NEW t, NEW u, NEW c \in Clients, NEW x, NEW y,
           Proceeds(s, t, c, x), Advances(t, u, y)
    PROVE  Proceeds(s, u, c, y) /\ u.wire.heard = t.wire.heard
<1>1. /\ Sound(t, x) /\ Leads(s, t) /\ Sound(u, y) /\ Leads(t, u) /\ HearsNoMore(t, u)
      /\ t \in Servers /\ u \in Servers /\ c.got \in Nat
  BY DEF Proceeds, Advances, Sound, Clients
<1>2. Leads(s, u)
  BY <1>1, LeadsOn
<1>3. ASSUME Aligned(u, c)
      PROVE  MidTouch(u, c)
  <2>1. MidTouch(t, c)
    BY <1>1, <1>3 DEF Proceeds, Aligned, HearsNoMore, Leads
  <2>2. Reaches(u, c.got)
    BY <1>1, <2>1 DEF MidTouch, Advances
  <2>3. \A h \in 0..c.got : /\ OpenBeyond(t, h) => OpenBeyond(u, h)
                            /\ OpenBeyond(t, h) /\ BootBeyond(t, h) => BootBeyond(u, h)
    BY <1>1 DEF Leads
  <2> QED
    BY <1>1, <2>1, <2>2, <2>3 DEF MidTouch, HearsNoMore
<1>4. Hearing(u, c)
  BY <1>1 DEF Proceeds, Hearing, HearsNoMore
<1> QED
  BY <1>1, <1>2, <1>3, <1>4 DEF Proceeds, HearsNoMore

\* The acknowledgement of a datagram.
LEMMA AcknowledgedProceeds ==
    ASSUME NEW s, NEW x \in 0..MaxExtra, NEW c \in Clients, NEW m \in Messages,
           Sound(s, x), Follows(c, s), Listened(s, c), Said(m, c),
           Aligned(s, c) => InTouch(s, c), Delivery!SpaceAssumption, Delivery!LifeAssumption
    PROVE  LET t == Delivery!Acknowledged([s EXCEPT !.wire.heard = @ \union {<<m.dial, m.life>>}], m.ack)
           IN  Proceeds(s, t, c, x) /\ <<m.dial, m.life>> \in t.wire.heard
<1> DEFINE p == <<m.dial, m.life>>
           H == s.wire.heard \union {p}
           newer == s.wire.highWater = None \/ Delivery!SequenceNewer(m.ack, s.wire.highWater)
           high == IF newer THEN m.ack ELSE s.wire.highWater
           covered(w) == Delivery!SequenceAcked(m.ack, Delivery!Wire(w.final))
           Q == {v \in s.wire.pending : ~covered(v) \/ v.app}
           f(w) == [w EXCEPT !.acked = @ \/ covered(w)]
           P == {f(w) : w \in Q}
           b == [s EXCEPT !.wire.heard = H]
           t == [s EXCEPT !.wire.heard = H, !.wire.lastAck = m.ack, !.wire.highWater = high,
                          !.wire.pending = P]
<1>1. /\ s \in Servers /\ s.wire.next \in Nat /\ s.wire.pending \subseteq Windows
      /\ s.wire.heard \subseteq Nat \X Nat /\ s.wire.highWater \in Int \union {None}
      /\ m.ack \in Int /\ p \in Nat \X Nat /\ c.got \in Nat
  BY DEF Sound, Servers, Wires, Messages, Clients
<1>2. H \subseteq Nat \X Nat /\ high \in Int \union {None}
  BY <1>1
<1>3. \A w \in Windows : /\ f(w) \in Windows /\ f(w).label = w.label /\ f(w).base = w.base
                         /\ f(w).final = w.final /\ (~f(w).acked <=> ~w.acked /\ ~covered(w))
  BY DEF Windows
<1>4. Delivery!Acknowledged(b, m.ack) = t
  <2>1. /\ b.wire.highWater = s.wire.highWater /\ b.wire.pending = s.wire.pending
        /\ [b EXCEPT !.wire.lastAck = m.ack, !.wire.highWater = high, !.wire.pending = P] = t
    BY <1>1 DEF Servers, Wires
  <2>2. Delivery!Acknowledged(b, m.ack) =
                    [b EXCEPT !.wire.lastAck = m.ack, !.wire.highWater = high, !.wire.pending = P]
    <3> HIDE DEF b
    <3> QED BY <2>1 DEF Delivery!Acknowledged
  <2> QED
    BY <2>1, <2>2
<1> HIDE DEF f
<1>5. /\ \A w \in s.wire.pending : ~covered(w) \/ w.app => f(w) \in P
      /\ \A v \in P : \E w \in s.wire.pending : v = f(w)
      /\ P \subseteq Windows
  BY <1>1, <1>3
<1>5a. \A v \in P : \E w \in s.wire.pending :
          /\ v.label = w.label /\ v.base = w.base /\ v.final = w.final
          /\ ~v.acked => ~w.acked /\ ~covered(w)
  BY <1>1, <1>3, <1>5
<1>5b. p[1] = m.dial /\ p[2] = m.life
  OBVIOUS
<1> HIDE DEF P, Q, H, high, newer, p
<1>6. /\ t \in Servers /\ t.wire.pending = P /\ t.wire.heard = H
      /\ t.wire.lastAck = m.ack /\ t.wire.highWater = high /\ t.out = s.out
      /\ t.life = s.life /\ t.left = s.left /\ t.wire.bound = s.wire.bound
      /\ t.wire.object = s.wire.object /\ t.wire.recent = s.wire.recent
      /\ t.wire.next = s.wire.next /\ t.wire.booted = s.wire.booted
      /\ t.wire.boot = s.wire.boot /\ t.wire.helloSent = s.wire.helloSent
      /\ t.wire.published = s.wire.published /\ t.wire.selfJoin = s.wire.selfJoin
  BY <1>1, <1>2, <1>5 DEF Servers, Wires
<1> HIDE DEF t, b, covered
<1>7. Orderly(t, x) /\ BootFits(t) /\ \A d \in t.out : Sent(d, t)
  BY <1>6 DEF Sound, Orderly, Joined, BootFits, Sent
<1>8. \A v \in t.wire.pending : WindowFits(t, v)
  BY <1>1, <1>3, <1>5, <1>6 DEF Sound, WindowFits
<1>9. Sound(t, x)
  BY <1>6, <1>7, <1>8 DEF Sound
<1>10. Leads(s, t)
  <2>1. \A h \in Nat : OpenBeyond(s, h) => OpenBeyond(t, h)
    <3> SUFFICES ASSUME NEW h \in Nat, OpenBeyond(s, h)
                 PROVE  OpenBeyond(t, h)
      OBVIOUS
    <3> QED
      BY <1>5a, <1>6 DEF OpenBeyond
  <2>2. \A h \in Nat : BootBeyond(s, h) => BootBeyond(t, h)
    BY <1>6 DEF BootBeyond
  <2> QED
    BY <1>1, <1>6, <2>1, <2>2 DEF Leads, OutBeyond
<1>11. Hearing(t, c)
  BY <1>5b, <1>6 DEF Hearing, Listened, Said, H
<1>12. ASSUME Aligned(t, c)
       PROVE  MidTouch(t, c)
  <2>1. p[1] = c.dial /\ p \in H /\ s.wire.heard \subseteq H
    <3>1. p \in H /\ s.wire.heard \subseteq H
      BY DEF H
    <3>2. p \in {c.dial} \X {0, c.life}
      BY <1>6, <1>12, <3>1 DEF Aligned
    <3> QED
      BY <3>1, <3>2
  <2>2. InTouch(s, c) /\ m.dial = c.dial
    BY <1>5b, <1>6, <1>12, <2>1 DEF Aligned
  <2>3. PICK k \in 0..c.got : m.ack = Delivery!Wire(k - 1)
    BY <2>2 DEF Said
  <2>4. k \in -1..Most /\ k \in Nat /\ k <= c.got /\ c.got <= Most /\ Most \in Nat
    BY <1>1 DEF Follows, Most, Delivery!LifeAssumption
  <2>5. \A w \in s.wire.pending : w.final \in 0..(Most - 1) /\ w.base \in Nat
    <3>1. s.wire.next <= Most
      <4>1. Joined(s) \in 0..5 /\ s.wire.next <= Joined(s) + x
        BY DEF Joined, Sound, Orderly
      <4> QED
        BY <1>1, <4>1, <2>4 DEF Most, Delivery!LifeAssumption
    <3> QED
      BY <1>1, <2>4, <3>1 DEF Sound, WindowFits, Windows
  <2>6. \A w \in s.wire.pending : covered(w) <=> w.final < k
    BY <2>3, <2>4, <2>5, AckCovers DEF covered
  <2>7. OpenBeyond(t, k)
    <3>1. k <= t.wire.next
      BY <1>1, <1>6, <2>2, <2>4 DEF InTouch, Reaches
    <3>2. ASSUME NEW v \in P, ~v.acked
          PROVE  k <= v.final
      <4>1. PICK w \in s.wire.pending : v.final = w.final /\ ~covered(w)
        BY <1>5a, <3>2
      <4> QED
        BY <4>1, <2>4, <2>5, <2>6
    <3> QED
      BY <1>6, <3>1, <3>2 DEF OpenBeyond
  <2>8. Reaches(t, c.got)
    <3>1. ASSUME NEW n \in c.got..(s.wire.next - 1)
          PROVE  Holds(t, n)
      <4>1. Holds(s, n)
        BY <2>2 DEF InTouch, Reaches
      <4>2. CASE \E w \in s.wire.pending : ~w.acked /\ n \in w.base..w.final
        <5>1. PICK w \in s.wire.pending : ~w.acked /\ n \in w.base..w.final
          BY <4>2
        <5>2. ~covered(w)
          BY <1>1, <2>4, <2>5, <2>6, <5>1
        <5>3. f(w) \in P /\ ~f(w).acked /\ f(w).base = w.base /\ f(w).final = w.final
          BY <1>1, <1>3, <1>5, <5>1, <5>2
        <5> QED
          BY <1>6, <5>1, <5>3 DEF Holds
      <4> QED
        BY <1>6, <4>1, <4>2 DEF Holds
    <3> QED
      BY <1>6, <2>2, <3>1 DEF InTouch, Reaches
  <2>9. /\ t.wire.object => c.boot
        /\ \E i \in -1..c.got : t.wire.lastAck = Delivery!Wire(i - 1)
    BY <1>6, <2>2, <2>3, <2>4 DEF InTouch
  <2>10. ASSUME high # None
         PROVE  \E h \in 0..c.got : /\ high = Delivery!Wire(h - 1) /\ OpenBeyond(t, h)
                                    /\ BootBeyond(t, h) \/ m.ack = high
    <3>1. CASE newer
      BY <2>3, <2>7, <3>1 DEF high
    <3>2. CASE ~newer
      <4>1. high = s.wire.highWater /\ s.wire.highWater # None
        BY <3>2 DEF high, newer
      <4>2. PICK h \in 0..c.got : /\ s.wire.highWater = Delivery!Wire(h - 1)
                                  /\ OpenBeyond(s, h) /\ BootBeyond(s, h)
        BY <2>2, <4>1 DEF InTouch
      <4>3. OpenBeyond(t, h) /\ BootBeyond(t, h)
        BY <1>1, <1>10, <4>2 DEF Leads
      <4> QED
        BY <4>1, <4>2, <4>3
    <3> QED
      BY <3>1, <3>2
  <2> QED
    BY <1>6, <2>8, <2>9, <2>10 DEF MidTouch
<1>13. Proceeds(s, t, c, x) /\ p \in t.wire.heard
  BY <1>6, <1>9, <1>10, <1>11, <1>12 DEF Proceeds, H
<1> QED
  BY <1>4, <1>13 DEF b, H, p

\* The client says that its object is there.
LEMMA ObjectProceeds ==
    ASSUME NEW s \in Servers, NEW t, NEW x, NEW c \in Clients, NEW m, Proceeds(s, t, c, x),
           Said(m, c), <<m.dial, m.life>> \in t.wire.heard
    PROVE  LET u == [t EXCEPT !.wire.object = @ \/ m.request = "object"]
           IN  Proceeds(s, u, c, x) /\ u.wire.heard = t.wire.heard
<1> DEFINE O == t.wire.object \/ m.request = "object"
           u == [t EXCEPT !.wire.object = O]
<1>1. Sound(t, x) /\ Leads(s, t) /\ t \in Servers /\ Hearing(t, c) /\ t.wire.object \in BOOLEAN
  BY DEF Proceeds, Sound, Servers, Wires
<1>2. O \in BOOLEAN /\ (O => t.wire.object \/ m.request = "object")
  OBVIOUS
<1> HIDE DEF O
<1> DEFINE w == [t.wire EXCEPT !.object = O]
<1>0. /\ w \in Wires /\ w.object = O
      /\ w.bound = t.wire.bound /\ w.heard = t.wire.heard /\ w.pending = t.wire.pending
      /\ w.lastAck = t.wire.lastAck /\ w.highWater = t.wire.highWater
      /\ w.recent = t.wire.recent /\ w.next = t.wire.next
      /\ w.booted = t.wire.booted /\ w.boot = t.wire.boot
      /\ w.helloSent = t.wire.helloSent /\ w.published = t.wire.published
      /\ w.selfJoin = t.wire.selfJoin
  <2>1. t.wire \in Wires
    BY <1>1 DEF Servers
  <2> QED
    BY <1>2, <2>1 DEF Wires
<1>9. u = [t EXCEPT !.wire = w]
  BY <1>1 DEF Servers
<1> HIDE DEF w
<1>3. /\ u \in Servers /\ u.wire.object = O /\ u.out = t.out
      /\ u.life = t.life /\ u.left = t.left /\ u.wire.bound = t.wire.bound
      /\ u.wire.heard = t.wire.heard /\ u.wire.pending = t.wire.pending
      /\ u.wire.lastAck = t.wire.lastAck /\ u.wire.highWater = t.wire.highWater
      /\ u.wire.recent = t.wire.recent /\ u.wire.next = t.wire.next
      /\ u.wire.booted = t.wire.booted /\ u.wire.boot = t.wire.boot
      /\ u.wire.helloSent = t.wire.helloSent /\ u.wire.published = t.wire.published
      /\ u.wire.selfJoin = t.wire.selfJoin
  BY <1>0, <1>1, <1>9 DEF Servers
<1> HIDE DEF u
<1>4. Sound(u, x)
  BY <1>1, <1>3 DEF Sound, Orderly, Joined, BootFits, WindowFits, Sent
<1>5. Leads(s, u)
  BY <1>1, <1>3 DEF Leads, OpenBeyond, BootBeyond, OutBeyond
<1>6. Hearing(u, c)
  BY <1>1, <1>3 DEF Hearing
<1>7. ASSUME Aligned(u, c)
      PROVE  MidTouch(u, c)
  <2>1. MidTouch(t, c) /\ t.wire.heard \subseteq {c.dial} \X {0, c.life}
    BY <1>3, <1>7 DEF Proceeds, Aligned
  <2>2. m.dial = c.dial
    <3>1. <<m.dial, m.life>> \in {c.dial} \X {0, c.life}
      BY <2>1
    <3> QED
      BY <3>1
  <2>3. O => c.boot
    BY <1>2, <2>1, <2>2 DEF Said, MidTouch
  <2>4. Reaches(u, c.got)
    BY <1>3, <2>1 DEF MidTouch, Reaches, Holds
  <2>5. \A h : /\ OpenBeyond(t, h) => OpenBeyond(u, h)
               /\ BootBeyond(t, h) => BootBeyond(u, h)
    BY <1>3 DEF OpenBeyond, BootBeyond
  <2> QED
    BY <1>3, <2>1, <2>3, <2>4, <2>5 DEF MidTouch
<1>8. Proceeds(s, u, c, x) /\ u.wire.heard = t.wire.heard
  BY <1>3, <1>4, <1>5, <1>6, <1>7 DEF Proceeds
<1> QED
  BY <1>8 DEF u, O

\* A datagram is taken in.
LEMMA IngestedProceeds ==
    ASSUME NEW s, NEW x \in 0..MaxExtra, NEW c \in Clients, NEW m \in Messages,
           Sound(s, x), Follows(c, s), Listened(s, c), Said(m, c), m.request # "connect",
           Aligned(s, c) => InTouch(s, c),
           Delivery!SpaceAssumption, Delivery!LifeAssumption, Delivery!PolicyAssumption, MaxRecent \in Nat
    PROVE  Proceeds(s, Delivery!Ingested(s, m), c, x) /\ <<m.dial, m.life>> \in Delivery!Ingested(s, m).wire.heard
<1> DEFINE p == <<m.dial, m.life>>
           a == Delivery!Acknowledged([s EXCEPT !.wire.heard = @ \union {p}], m.ack)
           n == Delivery!Remembered(a, m)
           o == [n EXCEPT !.wire.object = @ \/ m.request = "object"]
           b == IF m.request = "ticket" THEN Delivery!TicketTaken(o) ELSE o
           u == IF Delivery!IsDuplicate(a, m) THEN Delivery!Replayed(b) ELSE b
<1>1. s \in Servers /\ MaxExtra \in Nat /\ m.request \in Delivery!Requests
  BY DEF Sound, Delivery!LifeAssumption, Messages
<1>2. Proceeds(s, a, c, x) /\ p \in a.wire.heard
  BY AcknowledgedProceeds
<1>3. Delivery!Ingested(s, m) = u
  BY DEF Delivery!Ingested
<1> HIDE DEF p, a
<1>4. Proceeds(s, n, c, x) /\ n.wire.heard = a.wire.heard
  <2>1. Advances(a, n, x)
    BY <1>1, <1>2, RememberedAdvances DEF Proceeds
  <2> QED
    BY <1>1, <1>2, <2>1, ProceedsOn
<1> HIDE DEF n
<1>5. Proceeds(s, o, c, x) /\ o.wire.heard = n.wire.heard
  <2>1. p = <<m.dial, m.life>> /\ p \in n.wire.heard
    BY <1>2, <1>4 DEF p
  <2> QED
    BY <1>1, <1>4, <2>1, ObjectProceeds
<1> HIDE DEF o
<1>6. Proceeds(s, b, c, x) /\ b.wire.heard = o.wire.heard
  <2>1. Advances(o, Delivery!TicketTaken(o), x)
    BY <1>1, <1>5, TicketAdvances DEF Proceeds
  <2>2. Proceeds(s, Delivery!TicketTaken(o), c, x) /\ Delivery!TicketTaken(o).wire.heard = o.wire.heard
    BY <1>1, <1>5, <2>1, ProceedsOn
  <2> QED
    BY <1>5, <2>2
<1> HIDE DEF b
<1>7. Proceeds(s, u, c, x) /\ u.wire.heard = b.wire.heard
  <2>1. Advances(b, Delivery!Replayed(b), x)
    BY <1>6, ReplayedAdvances DEF Proceeds
  <2>2. Proceeds(s, Delivery!Replayed(b), c, x) /\ Delivery!Replayed(b).wire.heard = b.wire.heard
    BY <1>1, <1>6, <2>1, ProceedsOn
  <2> QED
    BY <1>6, <2>2
<1>8. p \in u.wire.heard
  BY <1>2, <1>4, <1>5, <1>6, <1>7
<1> QED
  BY <1>3, <1>7, <1>8 DEF p

\* A request is answered.
LEMMA DispatchedProceeds ==
    ASSUME NEW s \in Servers, NEW t, NEW x \in 0..MaxExtra, NEW c \in Clients, NEW m,
           Proceeds(s, t, c, x), Said(m, c), Follows(c, s), <<m.dial, m.life>> \in t.wire.heard,
           Delivery!LifeAssumption, Delivery!PolicyAssumption, Delivery!NoneAssumption
    PROVE  Proceeds(s, Delivery!Dispatched(t, m), c, x)
<1> DEFINE h == Delivery!HelloSent(t, m)
           f == Delivery!ConfirmApplication(h, "hello")
           j == Delivery!JoinPublication(f)
<1>1. CASE ~t.wire.bound
  BY <1>1 DEF Delivery!Dispatched
<1>2. CASE t.wire.bound
  <2>1. Advances(t, h, x)
    BY HelloAdvances DEF Proceeds
  <2> HIDE DEF h
  <2>2. Proceeds(s, h, c, x) /\ h.wire.heard = t.wire.heard
    BY <2>1, ProceedsOn
  <2>3. h.wire.bound
    BY <1>2, <2>1 DEF Advances, Leads
  <2>4. CASE m.request = "publish"
    <3>1. /\ Sound(f, x) /\ Leads(h, f) /\ HearsNoMore(h, f) /\ f.wire.bound
          /\ \A g \in Nat : 2 <= g /\ Reaches(h, g) => Reaches(f, g)
      BY <2>2, <2>3, ConfirmKeeps DEF Proceeds
    <3> HIDE DEF f
    <3>2. Leads(s, f)
      BY <2>2, <3>1, LeadsOn DEF Proceeds, Sound
    <3>3. Hearing(f, c)
      BY <2>2, <3>1 DEF Proceeds, Hearing, HearsNoMore
    <3>4. ASSUME Aligned(f, c)
          PROVE  MidTouch(f, c)
      <4>1. /\ MidTouch(h, c) /\ <<m.dial, m.life>> \in h.wire.heard
            /\ h.wire.heard \subseteq {c.dial} \X {0, c.life}
        BY <2>2, <3>1, <3>4 DEF Proceeds, Aligned, HearsNoMore, Leads
      <4>2. m.dial = c.dial
        <5>1. <<m.dial, m.life>> \in {c.dial} \X {0, c.life}
          BY <4>1
        <5> QED
          BY <5>1
      <4>3. 2 <= c.got /\ c.got \in Nat
        BY <2>4, <4>2 DEF Said, Follows, Clients
      <4>4. Reaches(f, c.got)
        BY <3>1, <4>1, <4>3 DEF MidTouch
      <4>5. \A g \in 0..c.got : /\ OpenBeyond(h, g) => OpenBeyond(f, g)
                                /\ OpenBeyond(h, g) /\ BootBeyond(h, g) => BootBeyond(f, g)
        BY <3>1 DEF Leads
      <4> QED
        BY <3>1, <4>1, <4>4, <4>5 DEF MidTouch, HearsNoMore
    <3>5. Proceeds(s, f, c, x)
      BY <3>1, <3>2, <3>3, <3>4 DEF Proceeds
    <3>6. Advances(f, j, x)
      BY <3>1, JoinAdvances
    <3> HIDE DEF j
    <3>7. Proceeds(s, j, c, x)
      BY <3>5, <3>6, ProceedsOn
    <3> QED
      BY <1>2, <2>4, <3>7 DEF Delivery!Dispatched, Delivery!PublishTaken, h, f, j
  <2>5. CASE m.request # "publish"
    BY <1>2, <2>2, <2>5 DEF Delivery!Dispatched, h
  <2> QED
    BY <2>4, <2>5
<1> QED
  BY <1>1, <1>2

\* A first wire is typed.
LEMMA FreshFits ==
    ASSUME Delivery!SpaceAssumption
    PROVE  Delivery!FreshWire \in Wires
<1>1. (FirstSequence - 2) % Delivery!Space \in Int
  <2>1. Delivery!Space \in Nat \ {0} /\ FirstSequence - 2 \in Int
    BY DEF Delivery!SpaceAssumption, Delivery!Space
  <2> QED
    BY <2>1, Divides
<1> DEFINE a == (FirstSequence - 2) % Delivery!Space
<1> HIDE DEF a
<1>2. Delivery!FreshWire = [bound |-> FALSE, helloDue |-> FALSE, helloSent |-> FALSE, suppress |-> FALSE,
                            published |-> FALSE, booted |-> FALSE, boot |-> None, selfJoin |-> -1,
                            object |-> FALSE, next |-> 0, lastAck |-> a,
                            highWater |-> None, pending |-> {}, recent |-> <<>>, heard |-> {}]
  BY DEF Delivery!FreshWire, a
<1>3. a \in Int
  BY <1>1 DEF a
<1>4. <<>> \in Seq(Delivery!Requests) /\ {} \in SUBSET Windows /\ {} \in SUBSET (Nat \X Nat)
  OBVIOUS
<1> QED
  BY <1>2, <1>3, <1>4 DEF Wires

LEMMA FreshIs ==
    ASSUME Delivery!SpaceAssumption
    PROVE  /\ Delivery!FreshWire.boot = None /\ ~Delivery!FreshWire.object /\ Delivery!FreshWire.next = 0
           /\ Delivery!FreshWire.highWater = None /\ Delivery!FreshWire.pending = {} /\ Delivery!FreshWire.recent = <<>>
           /\ Delivery!FreshWire.heard = {} /\ ~Delivery!FreshWire.bound /\ ~Delivery!FreshWire.helloSent
           /\ ~Delivery!FreshWire.published /\ ~Delivery!FreshWire.booted /\ Delivery!FreshWire.selfJoin = -1
           /\ Delivery!FreshWire.lastAck = Delivery!Wire(-1 - 1)
<1>1. FirstSequence - 2 = FirstSequence + (-1 - 1)
  BY DEF Delivery!SpaceAssumption
<1> QED
  BY <1>1 DEF Delivery!FreshWire, Delivery!Wire

\* A client in touch with a first wire has nothing yet.
LEMMA FreshInTouch ==
    ASSUME NEW s, NEW c \in Clients, s.wire = Delivery!FreshWire, c.got = 0,
           Delivery!SpaceAssumption
    PROVE  InTouch(s, c)
<1>1. Reaches(s, c.got)
  BY FreshIs DEF Reaches
<1>2. -1 \in -1..c.got
  OBVIOUS
<1>3. \E k \in -1..c.got : s.wire.lastAck = Delivery!Wire(k - 1)
  BY <1>2, FreshIs
<1> QED
  BY <1>1, <1>3, FreshIs DEF InTouch

\* What is left of a dropped endpoint.
LEMMA DroppedIs ==
    ASSUME Delivery!SpaceAssumption, NEW s \in Servers, NEW t,
           \/ t = [Delivery!Dropped(s) EXCEPT !.left = TRUE]
           \/ t = [Delivery!Dropped(s) EXCEPT !.reconnect = TRUE]
    PROVE  /\ t \in Servers /\ t.wire = Delivery!FreshWire /\ t.life = s.life + 1 /\ t.out = s.out
           /\ t = [Delivery!Dropped(s) EXCEPT !.left = TRUE] => t.left
           /\ t = [Delivery!Dropped(s) EXCEPT !.reconnect = TRUE] => t.left = s.left
<1> DEFINE f == Delivery!FreshWire
           n == s.life + 1
           d == [s EXCEPT !.wire = f, !.life = n]
<1>1. n \in Nat /\ f \in Wires
  BY FreshFits DEF Servers
<1>2. Delivery!Dropped(s) = d
  BY <1>1 DEF Delivery!Dropped
<1> HIDE DEF f, n
<1>3. d \in Servers /\ d.wire = f /\ d.life = n /\ d.left = s.left /\ d.out = s.out
  BY <1>1 DEF Servers
<1> HIDE DEF d
<1> DEFINE u == [d EXCEPT !.left = TRUE]
           v == [d EXCEPT !.reconnect = TRUE]
<1>4. /\ u \in Servers /\ u.wire = d.wire /\ u.life = d.life /\ u.left /\ u.out = d.out
      /\ v \in Servers /\ v.wire = d.wire /\ v.life = d.life /\ v.left = d.left /\ v.out = d.out
  BY <1>3 DEF Servers
<1>5. t = u \/ t = v
  BY <1>2
<1>6. /\ t = [Delivery!Dropped(s) EXCEPT !.left = TRUE] => t = u
      /\ t = [Delivery!Dropped(s) EXCEPT !.reconnect = TRUE] => t = v
  BY <1>2
<1> HIDE DEF u, v
<1> QED
  BY <1>3, <1>4, <1>5, <1>6 DEF f, n

\* The handler that began in s, with nothing to send, ends in t.
Settles(s, t, c, x) ==
    /\ Sound(t, x)
    /\ \A d \in Datagrams : Sent(d, s) => Sent(d, t)
    /\ Follows(c, t) /\ Listened(t, c)
    /\ Aligned(t, c) => InTouch(t, c)
    /\ \A h \in Nat : OpenBeyond(s, h) /\ BootBeyond(s, h) => OutBeyond(t, h)

\* The endpoint is dropped.
LEMMA DropSettles ==
    ASSUME NEW s, NEW r, NEW t, NEW x \in 0..MaxExtra, NEW c \in Clients,
           s \in Servers, Sound(r, x), Leads(s, r), Follows(c, r), t.wire = Delivery!FreshWire,
           t \in Servers, t.life = r.life + 1, t.life <= MaxLives + (IF t.left THEN 1 ELSE 0),
           t.out = r.out, \A h \in Nat : OpenBeyond(s, h) /\ BootBeyond(s, h) => OutBeyond(r, h),
           Delivery!SpaceAssumption, MaxRecent \in Nat, MaxLives \in Nat
    PROVE  Settles(s, t, c, x)
<1>1. /\ r \in Servers /\ r.life \in Nat /\ r.life # 0 /\ r.out \subseteq Datagrams
      /\ c.life \in Nat /\ s.life = r.life
  BY DEF Sound, Orderly, Servers, Clients, Leads
<1>3. Orderly(t, x)
  BY <1>1, FreshIs DEF Orderly, Joined
<1>4. BootFits(t) /\ \A w \in t.wire.pending : WindowFits(t, w)
  BY FreshIs DEF BootFits
<1>5. \A d \in Datagrams : Sent(d, r) \/ Sent(d, s) => Sent(d, t)
  BY <1>1 DEF Sent, Datagrams
<1>6. Sound(t, x)
  BY <1>1, <1>3, <1>4, <1>5 DEF Sound
<1>7. Follows(c, t)
  BY <1>1 DEF Follows
<1>8. Listened(t, c)
  BY FreshIs DEF Listened
<1>9. ASSUME Aligned(t, c)
      PROVE  InTouch(t, c)
  <2>1. c.life = 0
    BY <1>1, <1>9 DEF Aligned, Follows
  <2>2. c.got = 0
    BY <2>1 DEF Follows
  <2> QED
    BY <2>2, FreshInTouch
<1>10. \A h \in Nat : OpenBeyond(s, h) /\ BootBeyond(s, h) => OutBeyond(t, h)
  BY DEF OutBeyond
<1> QED
  BY <1>5, <1>6, <1>7, <1>8, <1>9, <1>10 DEF Settles

\* The bootstrap is polled.
LEMMA BootPolledSettles ==
    ASSUME NEW s, NEW t, NEW x \in 0..MaxExtra, NEW c \in Clients,
           s \in Servers, s.out = {}, Proceeds(s, t, c, x), Follows(c, s),
           Delivery!SpaceAssumption, Delivery!LifeAssumption, Delivery!PolicyAssumption, Delivery!NoneAssumption, MaxRecent \in Nat, MaxLives \in Nat
    PROVE  Settles(s, Delivery!BootPolled(t), c, x)
<1> DEFINE b == t.wire.boot
           acked == b.acked \/ Delivery!SequenceAcked(t.wire.lastAck, Delivery!Wire(b.final))
           boot == [b EXCEPT !.acked = acked]
           d == Delivery!Datagram(t, "boot", b.base, b.final)
           again == [boot EXCEPT !.retry = Delivery!RecordRetry(BootPolicy, @)]
           O == t.out \union {d}
           dropped == [Delivery!Dropped(t) EXCEPT !.left = TRUE]
           over == [t EXCEPT !.wire.boot = None]
           sent == [t EXCEPT !.wire.boot = again, !.out = O]
           rests == [t EXCEPT !.wire.boot = boot]
<1>1. /\ Sound(t, x) /\ Leads(s, t) /\ Hearing(t, c) /\ t \in Servers
      /\ t.wire.next \in Nat /\ s.wire.next \in Nat /\ t.life \in Nat /\ t.life # 0
      /\ b \in Delivery!BootWindows \union {None} /\ t.out \subseteq Datagrams /\ c.got \in Nat
      /\ c.life \in Nat
  BY DEF Proceeds, Sound, Orderly, Servers, Wires, Clients
<1>2. Follows(c, t)
  BY <1>1, FollowsOn
<1>3. \A e \in Datagrams : Sent(e, s) => Sent(e, t)
  BY <1>1, SentOn
<1>4. Listened(t, c)
  BY <1>1 DEF Hearing, Listened
<1>5. \A h \in Nat : OpenBeyond(s, h) /\ BootBeyond(s, h) =>
          OpenBeyond(t, h) /\ BootBeyond(t, h) /\ OutBeyond(t, h)
  BY <1>1 DEF Leads, OutBeyond
<1>6. CASE b = None
  <2>1. Delivery!BootPolled(t) = t
    BY <1>6 DEF Delivery!BootPolled
  <2>2. ASSUME Aligned(t, c)
        PROVE  InTouch(t, c)
    <3>1. MidTouch(t, c)
      BY <2>2 DEF Proceeds
    <3>2. \A h : BootBeyond(t, h)
      BY <1>6 DEF BootBeyond
    <3> QED
      BY <3>1, <3>2 DEF MidTouch, InTouch
  <2> QED
    BY <2>1, <2>2, <1>1, <1>2, <1>3, <1>4, <1>5 DEF Settles
<1>7. CASE b # None
  <2>1. /\ b \in Delivery!BootWindows /\ b.base \in Nat /\ b.final \in Nat /\ b.acked \in BOOLEAN
        /\ b.retry \in Delivery!Schedules
    BY <1>1, <1>7 DEF Delivery!BootWindows
  <2>2. /\ t.wire.booted /\ b.base <= b.final /\ b.final < t.wire.next /\ ~t.left
        /\ t.life <= MaxLives
    BY <1>1, <1>7 DEF Sound, BootFits, Orderly
  <2>3. b.final \in 0..(Most - 1) /\ Most \in Nat
    <3>1. t.wire.next <= Most
      <4>1. Joined(t) \in 0..5 /\ t.wire.next <= Joined(t) + x /\ MaxExtra \in Nat
        BY <1>1 DEF Joined, Sound, Orderly, Delivery!LifeAssumption
      <4> QED
        BY <1>1, <4>1 DEF Most
    <3> QED
      BY <1>1, <2>1, <2>2, <3>1 DEF Most, Delivery!LifeAssumption
  <2>4. CASE Delivery!BootPolled(t) = dropped
    <3>1. /\ dropped \in Servers /\ dropped.wire = Delivery!FreshWire /\ dropped.life = t.life + 1
          /\ dropped.left /\ dropped.out = t.out
      BY <1>1, DroppedIs
    <3> HIDE DEF dropped
    <3>2. dropped.life <= MaxLives + (IF dropped.left THEN 1 ELSE 0)
      BY <1>1, <2>2, <3>1
    <3>3. Settles(s, dropped, c, x)
      BY <1>1, <1>2, <1>5, <3>1, <3>2, DropSettles
    <3> QED
      BY <2>4, <3>3
  <2>5. CASE t.wire.object /\ Delivery!BootPolled(t) = over
    <3>1. /\ over \in Servers /\ over.wire.boot = None /\ over.out = t.out
          /\ over.life = t.life /\ over.left = t.left /\ over.wire.bound = t.wire.bound
          /\ over.wire.heard = t.wire.heard /\ over.wire.pending = t.wire.pending
          /\ over.wire.lastAck = t.wire.lastAck /\ over.wire.highWater = t.wire.highWater
          /\ over.wire.recent = t.wire.recent /\ over.wire.next = t.wire.next
          /\ over.wire.booted = t.wire.booted /\ over.wire.object = t.wire.object
          /\ over.wire.helloSent = t.wire.helloSent /\ over.wire.published = t.wire.published
          /\ over.wire.selfJoin = t.wire.selfJoin
      BY <1>1 DEF Servers, Wires
    <3> HIDE DEF over
    <3>2. Sound(over, x)
      BY <1>1, <3>1 DEF Sound, Orderly, Joined, BootFits, WindowFits, Sent
    <3>3. \A e \in Datagrams : Sent(e, t) => Sent(e, over)
      BY <3>1 DEF Sent
    <3>4. Follows(c, over) /\ Listened(over, c)
      BY <1>1, <1>2, <3>1 DEF Follows, Hearing, Listened
    <3>5. ASSUME Aligned(over, c)
          PROVE  InTouch(over, c)
      <4>1. MidTouch(t, c) /\ c.life \in {0, t.life}
        BY <3>1, <3>5 DEF Proceeds, Aligned
      <4>2. c.boot
        BY <2>5, <4>1 DEF MidTouch
      <4>3. c.life = t.life
        BY <1>2, <4>1, <4>2 DEF Follows
      <4>4. b.final < c.got
        BY <1>2, <1>7, <4>2, <4>3 DEF Follows
      <4>5. Reaches(over, c.got)
        <5>1. ASSUME NEW n \in c.got..(t.wire.next - 1)
              PROVE  Holds(over, n)
          <6>1. Holds(t, n)
            BY <4>1 DEF MidTouch, Reaches
          <6>2. n \notin b.base..b.final
            BY <1>1, <2>1, <4>4
          <6> QED
            BY <3>1, <6>1, <6>2 DEF Holds
        <5> QED
          BY <3>1, <4>1, <5>1 DEF MidTouch, Reaches
      <4>6. \A h : BootBeyond(over, h) /\ (OpenBeyond(t, h) => OpenBeyond(over, h))
        BY <3>1 DEF BootBeyond, OpenBeyond
      <4> QED
        BY <3>1, <4>1, <4>5, <4>6 DEF MidTouch, InTouch
    <3>6. \A h \in Nat : OpenBeyond(s, h) /\ BootBeyond(s, h) => OutBeyond(over, h)
      BY <1>5, <3>1 DEF OutBeyond
    <3> QED
      BY <1>3, <2>5, <3>2, <3>3, <3>4, <3>5, <3>6 DEF Settles
  \* What holds of the bootstrap once its acknowledgement is noted.
  <2>6. ASSUME NEW u, u \in Servers, u.wire.boot \in Delivery!BootWindows, u.wire.boot.base = b.base,
               u.wire.boot.final = b.final, u.wire.boot.acked <=> acked,
               u.life = t.life, u.left = t.left, u.wire.bound = t.wire.bound,
               u.wire.heard = t.wire.heard, u.wire.pending = t.wire.pending,
               u.wire.lastAck = t.wire.lastAck, u.wire.highWater = t.wire.highWater,
               u.wire.recent = t.wire.recent, u.wire.next = t.wire.next,
               u.wire.booted = t.wire.booted, u.wire.object = t.wire.object,
               u.wire.helloSent = t.wire.helloSent, u.wire.published = t.wire.published,
               u.wire.selfJoin = t.wire.selfJoin,
               \A e \in u.out : e \in t.out \/ (e = d /\ ~acked)
        PROVE  Settles(s, u, c, x)
    <3>1. d \in Datagrams /\ d.base = b.base /\ d.final = b.final /\ d.label = "boot"
          /\ d.life = t.life
      BY <1>1, <2>1 DEF Delivery!Datagram, Datagrams, Notices
    <3> HIDE DEF d, acked
    <3>2. u.wire.boot # None
      BY <2>6 DEF Delivery!NoneAssumption
    <3>3. \A e \in Datagrams : Sent(e, t) => Sent(e, u)
      BY <1>7, <2>6, <3>2 DEF Sent
    <3>4. Sent(d, t)
      BY <1>1, <2>1, <2>2, <2>3, <3>1 DEF Sent
    <3>5. Sound(u, x)
      <4>1. \A e \in u.out : Sent(e, u)
        BY <1>1, <2>6, <3>1, <3>3, <3>4 DEF Sound
      <4>2. Orderly(u, x)
        BY <1>1, <2>2, <2>6 DEF Sound, Orderly, Joined
      <4>3. BootFits(u) /\ \A w \in u.wire.pending : WindowFits(u, w)
        BY <1>1, <2>2, <2>6 DEF Sound, BootFits, WindowFits
      <4> QED
        BY <2>6, <4>1, <4>2, <4>3 DEF Sound
    <3>6. Follows(c, u) /\ Listened(u, c)
      BY <1>1, <1>2, <1>7, <2>6, <3>2 DEF Follows, Hearing, Listened
    <3>7. ASSUME Aligned(u, c)
          PROVE  InTouch(u, c)
      <4>1. MidTouch(t, c)
        BY <2>6, <3>7 DEF Proceeds, Aligned
      <4>2. PICK k \in -1..c.got : t.wire.lastAck = Delivery!Wire(k - 1)
        BY <4>1 DEF MidTouch
      <4>3. c.got <= Most /\ k \in -1..Most
        BY <1>1, <1>2, <2>3, <4>2 DEF Follows
      <4>4. acked => b.final < c.got
        <5>1. Delivery!SequenceAcked(t.wire.lastAck, Delivery!Wire(b.final)) => b.final < k
          BY <2>3, <4>2, <4>3, AckCovers
        <5>2. b.acked => b.final < c.got
          BY <1>7, <4>1 DEF MidTouch, Reaches
        <5> QED
          BY <1>1, <2>1, <4>2, <5>1, <5>2 DEF acked
      <4>5. Reaches(u, c.got)
        <5>1. ASSUME NEW n \in c.got..(t.wire.next - 1)
              PROVE  Holds(u, n)
          <6>1. Holds(t, n)
            BY <4>1 DEF MidTouch, Reaches
          <6>2. ~b.acked /\ n \in b.base..b.final => ~acked
            BY <1>1, <2>1, <4>4
          <6> QED
            BY <2>6, <3>2, <6>1, <6>2 DEF Holds
        <5> QED
          BY <2>6, <4>1, <4>4, <5>1 DEF MidTouch, Reaches
      <4>6. ASSUME NEW h \in 0..c.got, t.wire.highWater = Delivery!Wire(h - 1), OpenBeyond(t, h),
                   BootBeyond(t, h) \/ t.wire.lastAck = t.wire.highWater
            PROVE  OpenBeyond(u, h) /\ BootBeyond(u, h)
        <5>1. OpenBeyond(u, h)
          BY <2>6, <4>6 DEF OpenBeyond
        <5>2. CASE BootBeyond(t, h)
          <6>1. ~acked => ~b.acked
            BY DEF acked
          <6>2. ~b.acked => h <= b.final
            BY <1>7, <5>2 DEF BootBeyond
          <6> QED
            BY <2>6, <5>1, <6>1, <6>2 DEF BootBeyond
        <5>3. CASE t.wire.lastAck = t.wire.highWater
          <6>1. h \in -1..Most /\ h \in Nat
            BY <1>1, <2>3, <4>3
          <6>2. ~acked => ~Delivery!SequenceAcked(Delivery!Wire(h - 1), Delivery!Wire(b.final))
            BY <4>6, <5>3 DEF acked
          <6>3. ~acked => ~(b.final < h)
            BY <2>3, <6>1, <6>2, AckCovers
          <6> QED
            BY <2>1, <2>6, <5>1, <6>1, <6>3 DEF BootBeyond
        <5> QED
          BY <4>6, <5>1, <5>2, <5>3
      <4> QED
        BY <2>6, <4>1, <4>5, <4>6 DEF MidTouch, InTouch
    <3>8. \A h \in Nat : OpenBeyond(s, h) /\ BootBeyond(s, h) => OutBeyond(u, h)
      <4>1. \A h \in Nat : BootBeyond(t, h) /\ ~acked => h <= d.final
        BY <1>7, <3>1 DEF BootBeyond, acked
      <4> QED
        BY <1>5, <2>6, <4>1 DEF OutBeyond
    <3> QED
      BY <1>3, <3>3, <3>5, <3>6, <3>7, <3>8 DEF Settles
  <2>7. /\ boot \in Delivery!BootWindows /\ boot.base = b.base /\ boot.final = b.final
        /\ boot.acked = acked /\ boot.retry = b.retry
    BY <2>1 DEF Delivery!BootWindows
  <2>8. Delivery!RecordRetry(BootPolicy, boot.retry) \in Delivery!Schedules
    BY <2>1, <2>7, SchedulesStay
  <2>9. CASE ~acked /\ Delivery!BootPolled(t) = sent
    <3>1. /\ again \in Delivery!BootWindows /\ again.base = b.base /\ again.final = b.final
          /\ again.acked = acked
      <4> HIDE DEF boot, acked
      <4> QED BY <2>7, <2>8 DEF Delivery!BootWindows
    <3>2. O \subseteq Datagrams /\ \A e \in O : e \in t.out \/ (e = d /\ ~acked)
      BY <1>1, <2>1, <2>9 DEF Delivery!Datagram, Datagrams, Notices
    <3> HIDE DEF again, O, d, acked, boot
    <3>3. /\ sent \in Servers /\ sent.wire.boot = again /\ sent.out = O
          /\ sent.life = t.life /\ sent.left = t.left /\ sent.wire.bound = t.wire.bound
          /\ sent.wire.heard = t.wire.heard /\ sent.wire.pending = t.wire.pending
          /\ sent.wire.lastAck = t.wire.lastAck /\ sent.wire.highWater = t.wire.highWater
          /\ sent.wire.recent = t.wire.recent /\ sent.wire.next = t.wire.next
          /\ sent.wire.booted = t.wire.booted /\ sent.wire.object = t.wire.object
          /\ sent.wire.helloSent = t.wire.helloSent /\ sent.wire.published = t.wire.published
          /\ sent.wire.selfJoin = t.wire.selfJoin
      <4> DEFINE w == [t.wire EXCEPT !.boot = again]
      <4>1. t.wire \in Wires
        BY <1>1 DEF Servers
      <4>2. /\ w \in Wires /\ w.boot = again /\ w.bound = t.wire.bound
            /\ w.heard = t.wire.heard /\ w.pending = t.wire.pending
            /\ w.lastAck = t.wire.lastAck /\ w.highWater = t.wire.highWater
            /\ w.recent = t.wire.recent /\ w.next = t.wire.next
            /\ w.booted = t.wire.booted /\ w.object = t.wire.object
            /\ w.helloSent = t.wire.helloSent /\ w.published = t.wire.published
            /\ w.selfJoin = t.wire.selfJoin
        BY <3>1, <4>1 DEF Wires
      <4>3. sent = [t EXCEPT !.wire = w, !.out = O]
        BY <1>1 DEF Servers
      <4> HIDE DEF w, sent
      <4>4. /\ sent \in Servers /\ sent.wire = w /\ sent.out = O
            /\ sent.life = t.life /\ sent.left = t.left
        BY <1>1, <3>2, <4>2, <4>3 DEF Servers
      <4> QED
        BY <4>2, <4>4
    <3> HIDE DEF sent
    <3>4. Settles(s, sent, c, x)
      BY <2>6, <3>1, <3>2, <3>3
    <3> QED
      BY <2>9, <3>4
  <2>10. CASE Delivery!BootPolled(t) = rests
    <3> HIDE DEF boot, acked, d
    <3>1. /\ rests \in Servers /\ rests.wire.boot = boot /\ rests.out = t.out
          /\ rests.life = t.life /\ rests.left = t.left /\ rests.wire.bound = t.wire.bound
          /\ rests.wire.heard = t.wire.heard /\ rests.wire.pending = t.wire.pending
          /\ rests.wire.lastAck = t.wire.lastAck /\ rests.wire.highWater = t.wire.highWater
          /\ rests.wire.recent = t.wire.recent /\ rests.wire.next = t.wire.next
          /\ rests.wire.booted = t.wire.booted /\ rests.wire.object = t.wire.object
          /\ rests.wire.helloSent = t.wire.helloSent /\ rests.wire.published = t.wire.published
          /\ rests.wire.selfJoin = t.wire.selfJoin
      BY <1>1, <2>7 DEF Servers, Wires
    <3> HIDE DEF rests
    <3>2. Settles(s, rests, c, x)
      BY <2>6, <2>7, <3>1
    <3> QED
      BY <2>10, <3>2
  <2>11. \/ Delivery!BootPolled(t) = dropped
         \/ t.wire.object /\ Delivery!BootPolled(t) = over
         \/ ~acked /\ Delivery!BootPolled(t) = sent
         \/ Delivery!BootPolled(t) = rests
    <3>1. d = Delivery!Datagram(t, "boot", boot.base, boot.final)
      BY <2>7 DEF d
    <3> HIDE DEF dropped
    <3> QED
      BY <1>7, <2>7, <3>1 DEF Delivery!BootPolled, dropped
  <2> QED
    BY <2>4, <2>5, <2>9, <2>10, <2>11
<1> QED
  BY <1>6, <1>7

-----------------------------------------------------------------------------
(* The steps.                                                                *)

Assumed == Delivery!PolicyAssumption /\ Delivery!SpaceAssumption /\ Delivery!LifeAssumption /\ Delivery!NoneAssumption
           /\ Delivery!BoundsAssumption

\* At first nothing is published.
LEMMA InitPublication ==
    ASSUME Assumed, Delivery!Init
    PROVE  PublicationInv
<1>1. /\ Delivery!SpaceAssumption /\ MaxExtra \in Nat /\ MaxRecent \in Nat /\ MaxLives \in Nat
      /\ 1 <= MaxLives
  BY DEF Assumed, Delivery!LifeAssumption, Delivery!BoundsAssumption
<1> DEFINE f == Delivery!FreshWire
<1>2. f \in Wires
  BY <1>1, FreshFits
<1>3. server = [wire |-> f, life |-> 1, reconnect |-> FALSE, left |-> FALSE, out |-> {}]
  BY DEF Delivery!Init
<1> HIDE DEF f
<1>4. /\ server \in Servers /\ server.wire = f /\ server.life = 1 /\ ~server.left
      /\ server.out = {}
  BY <1>2, <1>3 DEF Servers
<1>5. server.wire = Delivery!FreshWire
  BY <1>4 DEF f
<1>6. Orderly(server, 0)
  BY <1>1, <1>4, <1>5, FreshIs DEF Orderly, Joined
<1>7. Sound(server, 0)
  BY <1>1, <1>4, <1>5, <1>6, FreshIs DEF Sound, BootFits
<1>8. /\ client \in Clients /\ client.got = 0 /\ client.life = 0 /\ ~client.hello /\ ~client.boot
  BY DEF Delivery!Init, Delivery!NewClient, Clients
<1>9. Follows(client, server) /\ Listened(server, client)
  BY <1>1, <1>4, <1>5, <1>8, FreshIs DEF Follows, Listened, Most
<1>10. InTouch(server, client)
  BY <1>1, <1>5, <1>8, FreshInTouch
<1>11. Typed /\ toClient = {} /\ toServer = {} /\ extras = 0
  BY <1>1, <1>8 DEF Typed, Delivery!Init
<1> QED
  BY <1>4, <1>7, <1>9, <1>10, <1>11 DEF PublicationInv

\* An endpoint that heard nobody has nothing to poll.
LEMMA FreshPolled ==
    ASSUME Delivery!SpaceAssumption, NEW s \in Servers, s.wire = Delivery!FreshWire
    PROVE  Delivery!Polled(s) = s
<1> DEFINE due(w) == ~w.acked /\ Delivery!Due(Policy, w.retry)
           O == {Delivery!Datagram(s, w.label, w.base, w.final) : w \in {v \in s.wire.pending : due(v)}}
           D == s.out \union O
           Q == {IF due(w) THEN [w EXCEPT !.retry = Delivery!RecordRetry(Policy, @)] ELSE w :
                     w \in s.wire.pending}
<1>1. s.wire.pending = {} /\ s.wire.boot = None
  BY FreshIs
<1>2. Q = {} /\ D = s.out
  BY <1>1
<1>3. Delivery!WindowsPolled(s) = [s EXCEPT !.out = D, !.wire.pending = Q]
  BY DEF Delivery!WindowsPolled
<1> HIDE DEF Q, D
<1>4. [s EXCEPT !.out = D, !.wire.pending = Q] = s
  BY <1>1, <1>2 DEF Servers, Wires
<1>5. Delivery!BootPolled(s) = s
  BY <1>1 DEF Delivery!BootPolled
<1> QED
  BY <1>3, <1>4, <1>5 DEF Delivery!Polled

\* The endpoint is polled, whatever happened before.
LEMMA PolledSettles ==
    ASSUME Assumed, NEW s \in Servers, s.out = {}, NEW t, NEW x \in 0..MaxExtra,
           NEW c \in Clients, Proceeds(s, t, c, x), Follows(c, s)
    PROVE  Settles(s, Delivery!Polled(t), c, x)
<1>1. /\ Delivery!PolicyAssumption /\ Delivery!SpaceAssumption /\ Delivery!LifeAssumption /\ Delivery!NoneAssumption
      /\ MaxRecent \in Nat /\ MaxLives \in Nat
  BY DEF Assumed, Delivery!BoundsAssumption
<1> DEFINE u == Delivery!WindowsPolled(t)
<1>2. Advances(t, u, x)
  BY <1>1, PolledAdvances DEF Proceeds
<1> HIDE DEF u
<1>3. Proceeds(s, u, c, x)
  BY <1>2, ProceedsOn
<1>4. Settles(s, Delivery!BootPolled(u), c, x)
  BY <1>1, <1>3, BootPolledSettles
<1> QED
  BY <1>4 DEF Delivery!Polled, u

LEMMA PollSettles ==
    ASSUME Assumed, NEW s, NEW x \in 0..MaxExtra, NEW c \in Clients, Sound(s, x), s.out = {},
           Follows(c, s), Listened(s, c), Aligned(s, c) => InTouch(s, c)
    PROVE  Settles(s, Delivery!Polled(s), c, x)
<1>1. s \in Servers /\ Delivery!SpaceAssumption
  BY DEF Sound, Assumed
<1>2. CASE s.wire.heard = {}
  <2>1. Delivery!Polled(s) = s
    BY <1>1, <1>2, FreshPolled DEF Listened
  <2>2. \A h : OutBeyond(s, h)
    BY DEF OutBeyond
  <2> QED
    BY <2>1, <2>2 DEF Settles
<1>3. CASE s.wire.heard # {}
  <2>1. Hearing(s, c)
    BY <1>3 DEF Hearing, Listened
  <2>2. Aligned(s, c) => MidTouch(s, c)
    BY DEF InTouch, MidTouch
  <2>3. Proceeds(s, s, c, x)
    BY <1>1, <2>1, <2>2, LeadsToItself DEF Proceeds
  <2> QED
    BY <1>1, <2>3, PolledSettles
<1> QED
  BY <1>2, <1>3

\* What settles is committed.
LEMMA SettledHolds ==
    ASSUME Assumed, PublicationInv, NEW t, NEW x \in 0..MaxExtra,
           Settles(server, t, client, x), Delivery!Commit(t), extras' = x, client' = client,
           toServer' \subseteq toServer, faults' \in Nat
    PROVE  PublicationInv' /\ Delivery!Silent
<1>1. /\ t \in Servers /\ t.out \subseteq Datagrams /\ Sound(t, x)
      /\ toClient \subseteq Datagrams /\ client \in Clients /\ client.got \in Nat
  BY DEF Settles, Sound, Servers, PublicationInv, Typed, Clients
<1> DEFINE r == [t EXCEPT !.out = {}]
<1>2. server' = r /\ toClient' = toClient \union t.out
  BY DEF Delivery!Commit
<1>3. /\ r \in Servers /\ r.out = {} /\ r.wire = t.wire /\ r.life = t.life /\ r.left = t.left
  BY <1>1 DEF Servers
<1> HIDE DEF r
<1>4. \A d : Sent(d, t) => Sent(d, r)
  BY <1>3 DEF Sent
<1>5. Sound(r, x)
  BY <1>1, <1>3 DEF Sound, Orderly, Joined, BootFits, WindowFits
<1>6. \A d \in toClient' : Sent(d, r)
  BY <1>1, <1>2, <1>4 DEF PublicationInv, Settles, Sound
<1>7. Follows(client, r) /\ Listened(r, client)
  BY <1>3 DEF Settles, Follows, Listened
<1>8. Aligned(r, client) => InTouch(r, client)
  BY <1>3 DEF Settles, Aligned, InTouch, Reaches, Holds, OpenBeyond, BootBeyond
<1>9. Typed'
  BY <1>1, <1>2 DEF PublicationInv, Typed
<1>10. \A m \in toServer' : Said(m, client)
  BY DEF PublicationInv
<1>11. PublicationInv'
  BY <1>2, <1>3, <1>5, <1>6, <1>7, <1>8, <1>9, <1>10 DEF PublicationInv
<1>12. ASSUME NEW d \in toClient' \ toClient, Delivery!InStep, server.wire.highWater # None
       PROVE  0 <= d.base => Delivery!SequenceNewer(Delivery!Wire(d.final), server.wire.highWater)
  <2>1. Aligned(server, client)
    BY <1>12 DEF Delivery!InStep, Aligned
  <2>2. PICK h \in 0..client.got : /\ server.wire.highWater = Delivery!Wire(h - 1)
                                   /\ OpenBeyond(server, h) /\ BootBeyond(server, h)
    BY <1>12, <2>1 DEF PublicationInv, InTouch
  <2>3. d \in t.out /\ OutBeyond(t, h) /\ Sent(d, t) /\ d \in Datagrams
    BY <1>1, <1>2, <1>12, <2>2 DEF Settles, Sound
  <2>4. 0 <= d.base => h <= d.final
    BY <2>3 DEF OutBeyond
  <2>5. Most \in Nat /\ client.got <= Most /\ Delivery!SpaceAssumption /\ Delivery!LifeAssumption
    BY DEF PublicationInv, Follows, Most, Delivery!LifeAssumption, Assumed
  <2>6. h \in 0..Most /\ (0 <= d.base => d.final \in -1..(Most - 1))
    BY <1>1, <2>3, <2>4, <2>5 DEF Sent, Datagrams
  <2>7. 0 <= d.base => Delivery!SequenceNewer(Delivery!Wire(d.final), Delivery!Wire(h - 1))
    BY <2>4, <2>5, <2>6, Newer
  <2> QED
    BY <2>2, <2>7
<1>13. Delivery!Silent
  BY <1>1, <1>2, <1>12 DEF Delivery!Silent, Datagrams
<1> QED
  BY <1>11, <1>13

\* What the inductive invariant says of the endpoint and the client.
LEMMA Standing ==
    ASSUME PublicationInv
    PROVE  /\ Sound(server, extras) /\ server \in Servers /\ server.out = {}
           /\ client \in Clients /\ extras \in 0..MaxExtra /\ faults \in Nat
           /\ toClient \subseteq Datagrams /\ toServer \subseteq Messages
           /\ \A d \in toClient : Sent(d, server)
           /\ \A m \in toServer : Said(m, client)
           /\ Follows(client, server) /\ Listened(server, client)
           /\ Aligned(server, client) => InTouch(server, client)
  BY DEF PublicationInv, Typed, Sound

LEMMA ReceiveHolds ==
    ASSUME Assumed, PublicationInv, NEW m \in toServer, NEW copy \in BOOLEAN,
           Delivery!Receive(m, copy)
    PROVE  PublicationInv' /\ Delivery!Silent
<1>1. /\ Delivery!PolicyAssumption /\ Delivery!SpaceAssumption /\ Delivery!LifeAssumption /\ Delivery!NoneAssumption
      /\ MaxRecent \in Nat
  BY DEF Assumed, Delivery!BoundsAssumption
<1>2. /\ m \in Messages /\ Said(m, client) /\ m.request # "connect"
  BY Standing DEF Delivery!Receive
<1> DEFINE i == Delivery!Ingested(server, m)
           t == Delivery!Dispatched(i, m)
<1>3. Proceeds(server, i, client, extras) /\ <<m.dial, m.life>> \in i.wire.heard
  BY <1>1, <1>2, Standing, IngestedProceeds
<1> HIDE DEF i
<1>4. Proceeds(server, t, client, extras)
  BY <1>1, <1>2, <1>3, Standing, DispatchedProceeds
<1> HIDE DEF t
<1>5. Settles(server, Delivery!Polled(t), client, extras)
  BY <1>4, Standing, PolledSettles
<1>6. /\ Delivery!Commit(Delivery!Polled(t)) /\ extras' = extras /\ client' = client /\ toServer' \subseteq toServer
      /\ faults' \in Nat
  BY Standing DEF Delivery!Receive, Delivery!Arrived, Delivery!MayCopy, t, i
<1> DEFINE u == Delivery!Polled(t)
<1> HIDE DEF u
<1>7. Settles(server, u, client, extras) /\ Delivery!Commit(u)
  BY <1>5, <1>6 DEF u
<1> QED
  BY <1>6, <1>7, Standing, SettledHolds

LEMMA ReceiveConnectHolds ==
    ASSUME Assumed, PublicationInv, NEW m \in toServer, NEW copy \in BOOLEAN,
           Delivery!ReceiveConnect(m, copy)
    PROVE  PublicationInv' /\ Delivery!Silent
<1>1. /\ Delivery!SpaceAssumption /\ MaxRecent \in Nat /\ MaxLives \in Nat
  BY DEF Assumed, Delivery!BoundsAssumption
<1> DEFINE d == [Delivery!Dropped(server) EXCEPT !.reconnect = TRUE]
           s == IF server.wire.bound THEN d ELSE server
           t == Delivery!Polled(s)
<1>2. Settles(server, t, client, extras)
  <2>1. CASE ~server.wire.bound
    BY <2>1, Standing, PollSettles
  <2>2. CASE server.wire.bound
    <3>1. /\ d \in Servers /\ d.wire = Delivery!FreshWire /\ d.life = server.life + 1
          /\ d.left = server.left /\ d.out = server.out
      BY <1>1, Standing, DroppedIs
    <3> HIDE DEF d
    <3>2. Delivery!Polled(d) = d
      BY <1>1, <3>1, FreshPolled
    <3>3. server.life \in Nat /\ server.life < MaxLives /\ server.left \in BOOLEAN
      BY Standing DEF Delivery!ReceiveConnect, Servers
    <3>4. d.life <= MaxLives + (IF d.left THEN 1 ELSE 0)
      BY <1>1, <3>1, <3>3
    <3>5. \A h \in Nat : OpenBeyond(server, h) /\ BootBeyond(server, h) => OutBeyond(server, h)
      BY Standing DEF OutBeyond
    <3>6. Leads(server, server)
      BY Standing, LeadsToItself
    <3>7. d.left \in BOOLEAN
      BY <3>1, <3>3
    <3>8. Settles(server, d, client, extras)
      BY <1>1, <3>1, <3>4, <3>5, <3>6, Standing, DropSettles
    <3> QED
      BY <2>2, <3>2, <3>8
  <2> QED
    BY <2>1, <2>2
<1>3. /\ Delivery!Commit(t) /\ extras' = extras /\ client' = client /\ toServer' \subseteq toServer
      /\ faults' \in Nat
  BY Standing DEF Delivery!ReceiveConnect, Delivery!Arrived, Delivery!MayCopy
<1> HIDE DEF t
<1> QED
  BY <1>2, <1>3, Standing, SettledHolds

LEMMA PollHolds ==
    ASSUME Assumed, PublicationInv, Delivery!Poll
    PROVE  PublicationInv' /\ Delivery!Silent
<1> DEFINE t == Delivery!Polled(server)
<1>1. Settles(server, t, client, extras)
  BY Standing, PollSettles
<1>2. /\ Delivery!Commit(t) /\ extras' = extras /\ client' = client /\ toServer' \subseteq toServer
      /\ faults' \in Nat
  BY Standing DEF Delivery!Poll
<1> HIDE DEF t
<1> QED
  BY <1>1, <1>2, Standing, SettledHolds

\* A stage that advances a heard endpoint settles it, if its bootstrap rests.
LEMMA AdvancesSettles ==
    ASSUME Assumed, PublicationInv, NEW t, NEW x \in 0..MaxExtra, Advances(server, t, x),
           server.wire.heard # {}
    PROVE  Settles(server, t, client, x)
<1>1. /\ t \in Servers /\ Leads(server, t) /\ HearsNoMore(server, t) /\ Sound(t, x)
      /\ client.got \in Nat /\ server.out = {}
  BY Standing DEF Advances, Sound, Clients
<1>2. \A d \in Datagrams : Sent(d, server) => Sent(d, t)
  BY <1>1, Standing, SentOn
<1>3. Follows(client, t)
  BY <1>1, Standing, FollowsOn
<1>4. Listened(t, client)
  BY <1>1, Standing DEF Listened, HearsNoMore
<1>5. ASSUME Aligned(t, client)
      PROVE  InTouch(t, client)
  <2>1. InTouch(server, client)
    BY <1>1, <1>5, Standing DEF Aligned, HearsNoMore, Leads
  <2>2. Reaches(t, client.got)
    BY <1>1, <2>1 DEF InTouch, Advances
  <2>3. \A h \in 0..client.got : /\ OpenBeyond(server, h) => OpenBeyond(t, h)
                                 /\ OpenBeyond(server, h) /\ BootBeyond(server, h) => BootBeyond(t, h)
    BY <1>1 DEF Leads
  <2> QED
    BY <1>1, <2>1, <2>2, <2>3 DEF InTouch, HearsNoMore
<1>6. \A h \in Nat : OpenBeyond(server, h) /\ BootBeyond(server, h) => OutBeyond(t, h)
  BY <1>1 DEF Leads, OutBeyond
<1> QED
  BY <1>1, <1>2, <1>3, <1>4, <1>5, <1>6 DEF Settles

LEMMA PublishExtraHolds ==
    ASSUME Assumed, PublicationInv, Delivery!PublishExtra
    PROVE  PublicationInv' /\ Delivery!Silent
<1> DEFINE t == Delivery!Published(server, "extra", 1, FALSE)
<1>1. /\ server.wire.bound /\ server.wire.booted /\ extras < MaxExtra /\ extras' = extras + 1
      /\ Delivery!Commit(t) /\ toServer' = toServer /\ client' = client /\ faults' = faults
  BY DEF Delivery!PublishExtra
<1>2. Delivery!LifeAssumption /\ Delivery!PolicyAssumption /\ Delivery!SpaceAssumption
  BY DEF Assumed
<1>3. Advances(server, t, extras + 1)
  BY <1>1, <1>2, Standing, ExtraAdvances
<1> HIDE DEF t
<1>4. server.wire.heard # {}
  BY <1>1, <1>2, Standing, FreshIs DEF Listened
<1>5. extras + 1 \in 0..MaxExtra
  BY <1>1, <1>2, Standing DEF Delivery!LifeAssumption
<1>6. Settles(server, t, client, extras + 1)
  BY <1>3, <1>4, <1>5, AdvancesSettles
<1>7. toServer' \subseteq toServer /\ faults' \in Nat
  BY <1>1, Standing
<1> QED
  BY <1>1, <1>5, <1>6, <1>7, SettledHolds

LEMMA TickHolds ==
    ASSUME Assumed, PublicationInv, Delivery!Tick
    PROVE  PublicationInv' /\ Delivery!Silent
<1> DEFINE f(w) == [w EXCEPT !.retry = Delivery!Elapse(@)]
           Q == {f(w) : w \in server.wire.pending}
           boot == IF server.wire.boot = None THEN None ELSE f(server.wire.boot)
           t == [server EXCEPT !.wire.pending = Q, !.wire.boot = boot]
<1>1. /\ server' = t /\ toClient' = toClient /\ toServer' = toServer /\ client' = client
      /\ faults' = faults /\ extras' = extras
      /\ <<Q, boot>> # <<server.wire.pending, server.wire.boot>>
  BY DEF Delivery!Tick
<1>2. /\ server.wire.pending \subseteq Windows /\ server.wire.boot \in Delivery!BootWindows \union {None}
      /\ Delivery!SpaceAssumption /\ Delivery!NoneAssumption /\ Delivery!PolicyAssumption /\ server.out = {}
  BY Standing DEF Servers, Wires, Assumed
<1>3. /\ \A w \in Windows : f(w) \in Windows /\ Like(f(w), w)
      /\ \A b \in Delivery!BootWindows : /\ f(b) \in Delivery!BootWindows /\ f(b).base = b.base
                                         /\ f(b).final = b.final /\ f(b).acked = b.acked
  BY <1>2, SchedulesStay DEF Windows, Delivery!BootWindows, Like
<1> HIDE DEF f
<1>4. /\ Q \subseteq Windows /\ boot \in Delivery!BootWindows \union {None}
      /\ \A v \in Q : \E w \in server.wire.pending : Like(v, w)
      /\ \A w \in server.wire.pending : \E v \in Q : Like(v, w)
      /\ boot = None <=> server.wire.boot = None
  BY <1>2, <1>3 DEF Delivery!NoneAssumption
<1>5. boot # None => /\ boot.base = server.wire.boot.base /\ boot.final = server.wire.boot.final
                     /\ boot.acked = server.wire.boot.acked
  BY <1>2, <1>3
<1>6. server.wire.heard # {}
  <2>1. ~(server.wire.pending = {} /\ server.wire.boot = None)
    BY <1>1
  <2> QED
    BY <1>2, <2>1, Standing, FreshIs DEF Listened
<1> HIDE DEF Q, boot
<1>7. /\ t \in Servers /\ t.wire.pending = Q /\ t.wire.boot = boot /\ t.out = server.out
      /\ t.life = server.life /\ t.left = server.left /\ t.wire.bound = server.wire.bound
      /\ t.wire.heard = server.wire.heard /\ t.wire.object = server.wire.object
      /\ t.wire.lastAck = server.wire.lastAck /\ t.wire.highWater = server.wire.highWater
      /\ t.wire.recent = server.wire.recent /\ t.wire.next = server.wire.next
      /\ t.wire.booted = server.wire.booted /\ t.wire.helloSent = server.wire.helloSent
      /\ t.wire.published = server.wire.published /\ t.wire.selfJoin = server.wire.selfJoin
  BY <1>4, Standing DEF Servers, Wires
<1> HIDE DEF t
<1>8. Rests(server, t)
  BY <1>4, <1>5, <1>7 DEF Rests, BootLike
<1>9. Advances(server, t, extras)
  <2>1. /\ Leads(server, t) /\ HearsNoMore(server, t)
        /\ \A g : Reaches(server, g) => Reaches(t, g)
    BY <1>2, <1>7, <1>8, Standing, RestLeads
  <2>2. /\ (t.left => ~t.wire.bound) /\ Len(t.wire.recent) <= MaxRecent
        /\ \A d \in t.out : Sent(d, server)
    BY <1>2, <1>7, Standing DEF Sound, Orderly
  <2>3. Sound(t, extras)
    BY <1>7, <1>8, <2>2, Standing, RestSound
  <2> QED
    BY <2>1, <2>3 DEF Advances
<1>10. Settles(server, t, client, extras)
  BY <1>6, <1>9, Standing, AdvancesSettles
<1>11. /\ Sound(t, extras) /\ \A d \in toClient : Sent(d, t)
       /\ Follows(client, t) /\ Listened(t, client)
       /\ Aligned(t, client) => InTouch(t, client)
  BY <1>10, Standing DEF Settles
<1>12. PublicationInv'
  BY <1>1, <1>2, <1>7, <1>11 DEF PublicationInv, Typed
<1> QED
  BY <1>1, <1>12 DEF Delivery!Silent

LEMMA DeliverHolds ==
    ASSUME Assumed, PublicationInv, NEW d \in toClient, NEW copy \in BOOLEAN,
           Delivery!Deliver(d, copy)
    PROVE  PublicationInv' /\ Delivery!Silent
<1>1. /\ client' = Delivery!Taken(d) /\ toClient' \subseteq toClient /\ server' = server
      /\ toServer' = toServer /\ extras' = extras /\ faults' \in Nat
  BY Standing DEF Delivery!Deliver, Delivery!MayCopy
<1>0. Delivery!Silent
  BY <1>1 DEF Delivery!Silent
<1>2. /\ d \in Datagrams /\ Sent(d, server) /\ d.life \in Nat /\ d.base \in Int /\ d.final \in Int
      /\ d.label \in Notices
  BY Standing DEF Datagrams
<1>3. /\ client \in Clients /\ client.got \in Nat /\ client.life \in Nat /\ client.dial \in Nat
      /\ client.hello \in BOOLEAN /\ client.boot \in BOOLEAN
  BY Standing DEF Clients
<1> DEFINE G == d.final + 1
           hello == client.hello \/ d.label = "hello"
           boot == client.boot \/ d.label = "boot"
           life == d.life
           a == [client EXCEPT !.life = life, !.answered = TRUE]
           g == [client EXCEPT !.life = life, !.got = G, !.hello = hello, !.boot = boot]
\* What the client learns is in step with what it was told.
<1>4. ASSUME NEW c \in Clients, c.dial = client.dial, client.life \in {0, d.life},
             c.life = d.life, client.got <= c.got, client.hello => c.hello,
             client.boot => c.boot, Follows(c, server), client' = c
      PROVE  PublicationInv'
  <2>1. \A m \in toServer : Said(m, c)
    <3> SUFFICES ASSUME NEW m \in toServer, m.dial = client.dial
                 PROVE  Said(m, c)
      BY <1>4, Standing DEF Said
    <3>1. Said(m, client)
      BY Standing
    <3>2. 0..client.got \subseteq 0..c.got
      BY <1>3, <1>4 DEF Clients
    <3> QED
      BY <1>4, <3>1, <3>2 DEF Said
  <2>2. Listened(server, c)
    BY <1>4, Standing DEF Listened
  <2>3. ASSUME Aligned(server, c)
        PROVE  InTouch(server, c)
    <3>1. Aligned(server, client)
      <4>1. client.life \in {0, server.life}
        BY <1>2, <1>4, <2>3 DEF Aligned
      <4>2. ASSUME NEW p \in server.wire.heard
            PROVE  p \in {client.dial} \X {0, client.life}
        <5>1. p \in {c.dial} \X {0, c.life}
          BY <2>3 DEF Aligned
        <5>2. p[1] = client.dial /\ p[2] \in {0, client.life} /\ p = <<p[1], p[2]>>
          BY <1>4, <5>1, Standing DEF Listened
        <5> QED
          BY <5>2
      <4> QED
        BY <4>1, <4>2 DEF Aligned
    <3>2. InTouch(server, client)
      BY <3>1, Standing
    <3>3. /\ server.wire.next \in Nat /\ c.got \in Nat /\ server.wire.boot \in Delivery!BootWindows \union {None}
          /\ c.life = server.life
      BY <1>2, <1>4, <2>3, Standing DEF Servers, Wires, Clients, Aligned, Sent
    <3>4. Reaches(server, c.got)
      <4>1. c.got <= server.wire.next
        BY <1>4, <3>3 DEF Follows
      <4>2. \A n \in c.got..(server.wire.next - 1) : Holds(server, n)
        BY <1>3, <1>4, <3>2, <3>3 DEF InTouch, Reaches
      <4>3. server.wire.boot # None /\ server.wire.boot.acked => server.wire.boot.final < c.got
        BY <1>3, <1>4, <3>2, <3>3 DEF InTouch, Reaches, Delivery!BootWindows
      <4> QED
        BY <4>1, <4>2, <4>3 DEF Reaches
    <3>5. 0..client.got \subseteq 0..c.got /\ -1..client.got \subseteq -1..c.got
      BY <1>3, <1>4, <3>3
    <3> QED
      BY <1>4, <3>2, <3>4, <3>5 DEF InTouch
  <2> QED
    BY <1>1, <1>4, <2>1, <2>2, <2>3, Standing DEF PublicationInv, Typed
<1>5. CASE Delivery!Taken(d) = client
  BY <1>0, <1>1, <1>5, Standing DEF PublicationInv, Typed
<1>6. CASE client.life \in {0, d.life} /\ Delivery!Taken(d) = a
  <2>1. /\ a \in Clients /\ a.dial = client.dial /\ a.life = d.life /\ a.got = client.got
        /\ a.hello = client.hello /\ a.boot = client.boot
    BY <1>2, <1>3 DEF Clients
  <2> HIDE DEF a
  <2>2. Follows(a, server)
    <3>1. server.wire.next \in Nat
      BY Standing DEF Servers, Wires
    <3> QED
      BY <1>2, <1>3, <1>6, <2>1, <3>1, Standing DEF Follows, Sent
  <2>3. client.got <= a.got
    BY <1>3, <2>1
  <2> QED
    BY <1>0, <1>1, <1>4, <1>6, <2>1, <2>2, <2>3
<1>7. CASE /\ client.life \in {0, d.life} /\ d.label # "ticket-ack"
           /\ d.base <= client.got /\ client.got <= d.final /\ Delivery!Taken(d) = g
  <2>1. G \in Nat /\ hello \in BOOLEAN /\ boot \in BOOLEAN /\ life \in Nat
    BY <1>2, <1>3, <1>7
  <2>2. /\ hello <=> (client.hello \/ d.label = "hello")
        /\ boot <=> (client.boot \/ d.label = "boot")
        /\ G = d.final + 1
    OBVIOUS
  <2> HIDE DEF G, hello, boot
  <2>3. /\ g \in Clients /\ g.dial = client.dial /\ g.life = life /\ g.got = G
        /\ g.hello = hello /\ g.boot = boot
    BY <2>1, <1>3 DEF Clients
  <2> HIDE DEF g
  <2>4. Follows(g, server)
    <3>1. /\ server.wire.next \in Nat /\ Most \in Int /\ server.life \in Nat
          /\ server.wire.boot \in Delivery!BootWindows \union {None}
      BY Standing DEF Servers, Wires, Most, Assumed, Delivery!LifeAssumption
    <3>2. g.life <= server.life /\ g.got <= Most /\ g.life # 0
      BY <1>2, <2>2, <2>3, <3>1 DEF Sent
    <3>3. g.hello => 2 <= g.got
      BY <1>2, <1>3, <1>7, <2>2, <2>3, Standing DEF Sent, Follows
    <3>4. ASSUME g.life = server.life
          PROVE  /\ g.got <= server.wire.next
                 /\ g.boot => /\ server.wire.booted
                              /\ server.wire.boot # None => server.wire.boot.final < g.got
      <4>1. d.final < server.wire.next
        BY <1>2, <2>3, <3>4 DEF Sent
      <4>2. CASE d.label = "boot"
        BY <1>2, <2>2, <2>3, <3>1, <3>4, <4>1, <4>2 DEF Sent
      <4>3. CASE client.boot
        <5>1. client.life = server.life
          BY <1>7, <2>3, <3>4, <4>3, Standing DEF Follows
        <5>2. /\ server.wire.booted
              /\ server.wire.boot # None => server.wire.boot.final < client.got
          BY <4>3, <5>1, Standing DEF Follows
        <5>3. server.wire.boot # None => server.wire.boot.final \in Nat
          BY <3>1 DEF Delivery!BootWindows
        <5> QED
          BY <1>2, <1>3, <1>7, <2>2, <2>3, <3>1, <4>1, <5>2, <5>3
      <4> QED
        BY <1>2, <2>2, <2>3, <3>1, <4>1, <4>2, <4>3
    <3> QED
      BY <3>2, <3>3, <3>4 DEF Follows
  <2>5. client.got <= g.got
    BY <1>2, <1>3, <1>7, <2>2, <2>3
  <2> QED
    BY <1>0, <1>1, <1>4, <1>7, <2>2, <2>3, <2>4, <2>5
<1>8. \/ Delivery!Taken(d) = client
      \/ client.life \in {0, d.life} /\ Delivery!Taken(d) = a
      \/ /\ client.life \in {0, d.life} /\ d.label # "ticket-ack"
         /\ d.base <= client.got /\ client.got <= d.final /\ Delivery!Taken(d) = g
  BY DEF Delivery!Taken
<1> QED
  BY <1>5, <1>6, <1>7, <1>8

\* The sequence number of a record is a number.
LEMMA WireIs ==
    ASSUME Delivery!SpaceAssumption, NEW n \in Int
    PROVE  Delivery!Wire(n) \in Int
<1>1. Delivery!Space \in Nat \ {0} /\ FirstSequence + n \in Int
  BY DEF Delivery!SpaceAssumption, Delivery!Space
<1> QED
  BY <1>1, Divides DEF Delivery!Wire

LEMMA SendHolds ==
    ASSUME Assumed, PublicationInv, NEW request \in Delivery!Requests, Delivery!Send(request)
    PROVE  PublicationInv' /\ Delivery!Silent
<1> DEFINE m == [dial |-> client.dial, life |-> client.life, request |-> request,
                 ack |-> Delivery!Wire(client.got - 1)]
<1>1. /\ server' = server /\ toClient' = toClient /\ toServer' = toServer \union {m}
      /\ client' = client /\ faults' = faults /\ extras' = extras /\ Delivery!MaySend(request)
  BY DEF Delivery!Send
<1>2. client.got \in Nat /\ client.dial \in Nat /\ client.life \in Nat
  BY Standing DEF Clients
<1>3. Delivery!Wire(client.got - 1) \in Int
  BY <1>2, WireIs DEF Assumed
<1>4. /\ m \in Messages /\ m.dial = client.dial /\ m.life = client.life
      /\ m.request = request /\ m.ack = Delivery!Wire(client.got - 1)
  BY <1>2, <1>3 DEF Messages
<1> HIDE DEF m
<1>5. Said(m, client)
  <2>1. \E k \in 0..client.got : m.ack = Delivery!Wire(k - 1)
    BY <1>2, <1>4
  <2>2. /\ request = "publish" => client.hello
        /\ request = "object" => client.boot
    BY <1>1 DEF Delivery!MaySend
  <2> QED
    BY <1>2, <1>4, <2>1, <2>2 DEF Said
<1>6. PublicationInv'
  BY <1>1, <1>4, <1>5, Standing DEF PublicationInv, Typed
<1> QED
  BY <1>1, <1>6 DEF Delivery!Silent

LEMMA RedialHolds ==
    ASSUME Assumed, PublicationInv, Delivery!Redial
    PROVE  PublicationInv' /\ Delivery!Silent
<1> DEFINE n == client.dial + 1
           c == Delivery!NewClient(n)
           m == [dial |-> n, life |-> 0, request |-> "connect", ack |-> Delivery!Wire(-1)]
<1>1. /\ server' = server /\ toClient' = toClient /\ toServer' = toServer \union {m}
      /\ client' = c /\ faults' = faults /\ extras' = extras
  BY DEF Delivery!Redial
<1>2. /\ client.dial \in Nat /\ n \in Nat /\ client.dial < n /\ Delivery!SpaceAssumption
      /\ Most \in Nat
  BY Standing DEF Clients, Assumed, Most, Delivery!LifeAssumption
<1>3. Delivery!Wire(-1) \in Int
  BY <1>2, WireIs
<1>4. /\ m \in Messages /\ m.dial = n /\ m.life = 0 /\ m.request = "connect" /\ m.ack = Delivery!Wire(-1)
      /\ c \in Clients /\ c.dial = n /\ c.life = 0 /\ c.got = 0 /\ ~c.hello /\ ~c.boot
  BY <1>2, <1>3 DEF Messages, Delivery!NewClient, Clients
<1> HIDE DEF m, c, n
<1>5. Said(m, c)
  <2>1. 0 \in 0..c.got /\ 0 - 1 = -1
    BY <1>4
  <2> QED
    BY <1>2, <1>4, <2>1 DEF Said
<1>6. \A i \in toServer : Said(i, c)
  <2>1. \A i \in toServer : i.dial <= client.dial /\ i.dial \in Nat
    BY Standing DEF Said, Messages
  <2> QED
    BY <1>2, <1>4, <2>1 DEF Said
<1>7. server.life \in Nat /\ server.life # 0 /\ server.wire.heard \subseteq Nat \X Nat
  BY Standing DEF Sound, Orderly, Servers, Wires
<1>8. Follows(c, server)
  BY <1>2, <1>4, <1>7 DEF Follows
<1>9. \A p \in server.wire.heard : p[1] <= client.dial /\ p[1] \in Nat
  BY <1>7, Standing DEF Listened
<1>10. Listened(server, c)
  BY <1>2, <1>4, <1>9, Standing DEF Listened
<1>11. ASSUME Aligned(server, c)
       PROVE  InTouch(server, c)
  <2>1. server.wire.heard = {}
    <3>1. \A p \in server.wire.heard : p[1] = n
      BY <1>4, <1>11 DEF Aligned
    <3> QED
      BY <1>2, <1>9, <3>1
  <2> QED
    BY <1>2, <1>4, <2>1, FreshInTouch, Standing DEF Listened
<1>12. PublicationInv'
  BY <1>1, <1>4, <1>5, <1>6, <1>8, <1>10, <1>11, Standing DEF PublicationInv, Typed
<1> QED
  BY <1>1, <1>12 DEF Delivery!Silent

LEMMA LoseHolds ==
    ASSUME PublicationInv, Delivery!Lose
    PROVE  PublicationInv' /\ Delivery!Silent
<1>1. /\ server' = server /\ client' = client /\ extras' = extras /\ faults' \in Nat
      /\ toClient' \subseteq toClient /\ toServer' \subseteq toServer
  BY Standing DEF Delivery!Lose
<1>2. PublicationInv'
  BY <1>1, Standing DEF PublicationInv, Typed
<1> QED
  BY <1>1, <1>2 DEF Delivery!Silent

\* Every step keeps the invariant, and is silent.
LEMMA NextPublication ==
    ASSUME Assumed, PublicationInv, [Delivery!Next]_Delivery!vars
    PROVE  PublicationInv' /\ Delivery!Silent
<1>1. CASE UNCHANGED Delivery!vars
  BY <1>1 DEF Delivery!vars, PublicationInv, Typed, Delivery!Silent
<1>2. CASE Delivery!Next
  BY <1>2, ReceiveHolds, ReceiveConnectHolds, PollHolds, PublishExtraHolds, TickHolds,
     DeliverHolds, SendHolds, RedialHolds, LoseHolds DEF Delivery!Next, Delivery!ServerStep
<1> QED
  BY <1>1, <1>2

\* The inductive invariant: what each client in step with the endpoint may still lack is
\* retained, and what may still be replayed lies beyond the highest acknowledgement.
THEOREM PublicationStands ==
    ASSUME Delivery!PolicyAssumption, Delivery!SpaceAssumption, Delivery!LifeAssumption,
           Delivery!NoneAssumption, Delivery!BoundsAssumption
    PROVE  Delivery!Spec => []PublicationInv
<1>1. Assumed
  BY DEF Assumed
<1>2. Delivery!Init => PublicationInv
  BY <1>1, InitPublication
<1>3. PublicationInv /\ [Delivery!Next]_Delivery!vars => PublicationInv'
  BY <1>1, NextPublication
<1> QED
  BY <1>2, <1>3, PTL DEF Delivery!Spec

\* Whatever was published and has not reached the client is still retained, and a life
\* of the endpoint joins once (ConfirmationManager.acknowledge, confirm_application;
\* poll_retries; append_join_publication).
THEOREM PublicationIsKept ==
    ASSUME Delivery!PolicyAssumption, Delivery!SpaceAssumption, Delivery!LifeAssumption,
           Delivery!NoneAssumption, Delivery!BoundsAssumption
    PROVE  Delivery!Spec => [](Delivery!UnreceivedIsRetained /\ Delivery!JoinedOnce)
<1>1. PublicationInv => Delivery!UnreceivedIsRetained /\ Delivery!JoinedOnce
  <2> SUFFICES ASSUME PublicationInv
               PROVE  Delivery!UnreceivedIsRetained /\ Delivery!JoinedOnce
    OBVIOUS
  <2>1. Delivery!UnreceivedIsRetained
    <3> SUFFICES ASSUME Delivery!InStep
                 PROVE  \A n \in client.got..(server.wire.next - 1) : Delivery!Retained(n)
      BY DEF Delivery!UnreceivedIsRetained
    <3>1. InTouch(server, client)
      BY Standing DEF Delivery!InStep, Aligned
    <3> QED
      BY <3>1 DEF InTouch, Reaches, Holds, Delivery!Retained
  <2>2. Delivery!JoinedOnce
    <3>1. Joined(server) \in 0..5 /\ server.wire.next <= Joined(server) + extras
      BY Standing DEF Joined, Sound, Orderly
    <3>2. server.wire.next \in Nat /\ extras \in Int
      BY Standing DEF Servers, Wires
    <3> QED
      BY <3>1, <3>2 DEF Delivery!JoinedOnce
  <2> QED
    BY <2>1, <2>2
<1> QED
  BY <1>1, PublicationStands, PTL

\* A datagram goes out again only while no acknowledgement that covers it has been
\* processed (poll, replay_pending; the session bootstrap in poll_retries).
THEOREM AcknowledgedStaysSilent ==
    ASSUME Delivery!PolicyAssumption, Delivery!SpaceAssumption, Delivery!LifeAssumption,
           Delivery!NoneAssumption, Delivery!BoundsAssumption
    PROVE  Delivery!Spec => Delivery!AckedStaysSilent
<1>1. PublicationInv /\ [Delivery!Next]_Delivery!vars => [Delivery!Silent]_Delivery!vars
  BY NextPublication DEF Assumed
<1> QED
  BY <1>1, PublicationStands, PTL DEF Delivery!Spec, Delivery!AckedStaysSilent
=============================================================================
