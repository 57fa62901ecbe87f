------------------------ MODULE ReliablePublication ------------------------
(***************************************************************************)
(* Reliable publication to one Carbon endpoint: the confirmation windows   *)
(* of src/server/carbon/rebroadcaster/confirmations.py with the schedules  *)
(* of retry.py, and the join conversation they carry (session_bootstrap.py *)
(* and the ingress path of service.py) over a network that loses,          *)
(* duplicates and reorders datagrams.                                      *)
(*                                                                         *)
(* Records are numbered from 0 in each life; the wire carries the number   *)
(* modulo 2 * Half, counted from FirstSequence.  The client is external:   *)
(* it takes records in order, acknowledges all of them at once and repeats *)
(* a request whenever it likes.  A life of the endpoint ends when it is    *)
(* dropped; the client is in life 0 until it hears of one.                 *)
(***************************************************************************)
EXTENDS Integers, Sequences, FiniteSets, SequencesExt

CONSTANTS
    None,           \* no value
    Half,           \* half of the sequence space (0x08000000)
    FirstSequence,  \* the first server sequence of a life (0x101)
    Policy,         \* the retry policy of confirmation windows
    BootPolicy,     \* the retry policy of the session bootstrap
    MaxRecent,      \* fingerprints kept of inbound requests (256)
    MaxExtra,       \* bound: publications besides those of the join
    MaxLives,       \* bound: lives of the endpoint
    MaxFaults,      \* bound: datagrams the network loses or duplicates
    MaxFlight       \* bound: datagrams of the client in flight

\* Assumed where the module is instantiated.
PolicyAssumption ==
    \A p \in {Policy, BootPolicy} :
        p \in [initial : Nat \ {0}, maximum : Nat \ {0},
               retries : Nat \ {0}, timeout : Nat \ {0}]
        /\ p.initial <= p.maximum

\* Assumed where the module is instantiated.
SpaceAssumption == Half \in Nat \ {0} /\ FirstSequence \in 0..(2 * Half - 1)

\* A life of the endpoint publishes less than half of the sequence space: an
\* acknowledgement of its first records, however late, is not taken for one of the
\* next turn.  Assumed where the module is instantiated.
LifeAssumption == MaxExtra \in Nat /\ 5 + MaxExtra < Half

\* Assumed where the module is instantiated.
BoundsAssumption == MaxRecent \in Nat /\ MaxLives \in Nat \ {0}

VARIABLES
    server,     \* what the rebroadcaster keeps of the endpoint
    toClient,   \* datagrams to the client in flight
    toServer,   \* datagrams of the client in flight
    client,     \* the client: its dial and life, how many records it has, what it learned
    faults,     \* datagrams lost or duplicated so far
    extras      \* publications made so far besides those of the join

vars == <<server, toClient, toServer, client, faults, extras>>

Space == 2 * Half
Wire(n) == (FirstSequence + n) % Space

\* The masked distance from b up to a.
Distance(a, b) == (a - b) % Space

\* A plausible bug: sequence numbers are compared as if they did not wrap.
SequenceAcked_NoMask(ack, target) == ack >= target

SequenceAcked(ack, target) == Distance(ack, target) < Half
SequenceNewer(candidate, current) == Distance(candidate, current) \in 1..(Half - 1)

---------------------------------------------------------------------------
(* Retry schedules: ticks left until the next retry and until the deadline. *)

AtMost(a, b) == IF a <= b THEN a ELSE b

Schedules == [retries : Nat, delay : Nat, wait : Nat, left : Nat]

Begin(p) ==
    [retries |-> 0, delay |-> p.initial, wait |-> AtMost(p.initial, p.timeout),
     left |-> p.timeout]
Exhausted(p, r) == r.retries >= p.retries \/ r.left = 0
Due(p, r) == ~Exhausted(p, r) /\ r.wait = 0
DeferFrom(p, r) == [r EXCEPT !.wait = AtMost(r.left, p.initial)]
\* The delay doubles with each retry.
RecordRetry(p, r) ==
    LET delay == AtMost(p.maximum, 2 * r.delay)
    IN  [r EXCEPT !.retries = @ + 1, !.delay = delay, !.wait = AtMost(r.left, delay)]
Elapse(r) == [r EXCEPT !.wait = IF @ = 0 THEN 0 ELSE @ - 1,
                       !.left = IF @ = 0 THEN 0 ELSE @ - 1]

---------------------------------------------------------------------------
(* The endpoint's state, and the windows it retains. *)

Requests == {"ticket", "empty", "publish", "object", "state"}

\* The window of the session bootstrap.
BootWindows == [base : Nat, final : Nat, acked : BOOLEAN, retry : Schedules]

\* Assumed where the module is instantiated.
NoneAssumption == None \notin BootWindows

FreshWire ==
    [bound |-> FALSE, helloDue |-> FALSE, helloSent |-> FALSE, suppress |-> FALSE,
     published |-> FALSE, booted |-> FALSE, boot |-> None, selfJoin |-> -1,
     object |-> FALSE, next |-> 0, lastAck |-> (FirstSequence - 2) % Space,
     highWater |-> None, pending |-> {}, recent |-> <<>>, heard |-> {}]

NewClient(dial) ==
    [dial |-> dial, life |-> 0, got |-> 0, answered |-> FALSE, hello |-> FALSE, boot |-> FALSE]

Init ==
    /\ server = [wire |-> FreshWire, life |-> 1, reconnect |-> FALSE, left |-> FALSE, out |-> {}]
    /\ toClient = {}
    /\ toServer = {}
    /\ client = NewClient(1)
    /\ faults = 0
    /\ extras = 0

Datagram(s, label, base, final) ==
    [life |-> s.life, label |-> label, base |-> base, final |-> final]

\* A window is opened once for the same records.
Register(s, window) ==
    IF \E w \in s.wire.pending : w.final = window.final /\ w.base = window.base
    THEN s
    ELSE [s EXCEPT !.wire.pending = @ \union {window}]

\* Publish count fresh records in one datagram and retain it.
Published(s, label, count, app) ==
    LET base == s.wire.next
        final == base + count - 1
        window == [label |-> label, base |-> base, final |-> final,
                   app |-> app, acked |-> FALSE, retry |-> Begin(Policy)]
    IN  Register([s EXCEPT !.wire.next = final + 1,
                           !.out = @ \union {Datagram(s, label, base, final)}], window)

\* Drop the endpoint: nothing of its wire, windows and fingerprints is left.
Dropped(s) == [s EXCEPT !.wire = FreshWire, !.life = @ + 1]

---------------------------------------------------------------------------
(* observe_inbound, replay_pending, confirm_application. *)

\* Windows covered by the acknowledgement go, those that wait for the application
\* only stop being replayed.
Acknowledged(s, ack) ==
    LET covered(w) == SequenceAcked(ack, Wire(w.final))
        newer == s.wire.highWater = None \/ SequenceNewer(ack, s.wire.highWater)
    IN  [s EXCEPT
            !.wire.lastAck = ack,
            !.wire.highWater = IF newer THEN ack ELSE @,
            !.wire.pending = {[w EXCEPT !.acked = @ \/ covered(w)] :
                                 w \in {v \in @ : ~covered(v) \/ v.app}}]

\* CarState traffic has a sequence space of its own and leaves no fingerprint.
Tracked(m) == m.request # "state"
IsDuplicate(s, m) == Tracked(m) /\ m.request \in ToSet(s.wire.recent)

Remembered(s, m) ==
    IF ~Tracked(m) \/ IsDuplicate(s, m) THEN s
    ELSE LET all == Append(s.wire.recent, m.request)
         IN  [s EXCEPT !.wire.recent = IF Len(all) > MaxRecent THEN Tail(all) ELSE all]

\* A repeated request replays every window that is not acknowledged at once: a
\* schedule that had run out begins anew, another only waits again.
Replayed(s) ==
    LET open(w) == ~w.acked
        again(r) == IF Exhausted(Policy, r) THEN Begin(Policy) ELSE DeferFrom(Policy, r)
    IN  [s EXCEPT
            !.out = @ \union {Datagram(s, w.label, w.base, w.final) :
                                 w \in {v \in s.wire.pending : open(v)}},
            !.wire.pending = {IF open(w) THEN [w EXCEPT !.retry = again(@)] ELSE w : w \in @}]

ConfirmApplication(s, label) ==
    [s EXCEPT !.wire.pending = {w \in @ : ~(w.app /\ w.label = label)}]

---------------------------------------------------------------------------
(* The join conversation. *)

\* The ticket binds the endpoint; until the hello is sent it is answered by a bare
\* acknowledgement that nothing retains.  A ticket of a player who left is refused.
TicketTaken(s) ==
    LET bound == [s EXCEPT !.wire.bound = TRUE,
                           !.wire.suppress = @ \/ s.reconnect,
                           !.reconnect = FALSE]
    IN  IF s.left THEN s
        ELSE IF bound.wire.helloSent THEN bound
        ELSE [bound EXCEPT !.wire.helloDue = TRUE,
                           !.out = @ \union {Datagram(s, "ticket-ack", -1, -1)}]

\* HostHello and roster, after the datagram that follows the ticket.
HelloSent(s, m) ==
    IF s.wire.helloDue /\ ~s.wire.helloSent /\ m.request # "ticket"
    THEN [Published(s, "hello", 2, TRUE) EXCEPT !.wire.helloSent = TRUE, !.wire.helloDue = FALSE]
    ELSE s

\* The session bootstrap: two records kept, with the self join before them, in a
\* window of its own.
SessionBootstrap(s) ==
    IF s.wire.booted \/ ~s.wire.helloSent THEN s
    ELSE LET final == s.wire.next + 1
             base == IF s.wire.selfJoin = -1 THEN s.wire.next ELSE s.wire.selfJoin
         IN  [s EXCEPT !.wire.booted = TRUE,
                       !.wire.next = final + 1,
                       !.wire.boot = [base |-> base, final |-> final, acked |-> FALSE,
                                      retry |-> Begin(BootPolicy)],
                       !.out = @ \union {Datagram(s, "boot", s.wire.next, final)}]

\* The join of a player who was dropped for a reconnect is not announced; the mark is
\* spent by the first request.
JoinPublication(s) ==
    IF s.wire.suppress
    THEN SessionBootstrap([s EXCEPT !.wire.suppress = FALSE])
    ELSE IF s.wire.published \/ ~s.wire.helloSent THEN s
    ELSE SessionBootstrap([Published(s, "self-join", 1, FALSE) EXCEPT
                              !.wire.published = TRUE, !.wire.selfJoin = s.wire.next])

PublishTaken(s) == JoinPublication(ConfirmApplication(s, "hello"))

Ingested(s, m) ==
    LET anchored == Acknowledged([s EXCEPT !.wire.heard = @ \union {<<m.dial, m.life>>}], m.ack)
        noted == Remembered(anchored, m)
        object == [noted EXCEPT !.wire.object = @ \/ m.request = "object"]
        bound == IF m.request = "ticket" THEN TicketTaken(object) ELSE object
    IN  IF IsDuplicate(anchored, m) THEN Replayed(bound) ELSE bound

Dispatched(s, m) ==
    LET hello == HelloSent(s, m)
    IN  IF ~s.wire.bound THEN s
        ELSE IF m.request = "publish" THEN PublishTaken(hello)
        ELSE hello

---------------------------------------------------------------------------
(* poll_retries, run after every datagram and when none arrives. *)

WindowsPolled(s) ==
    LET due(w) == ~w.acked /\ Due(Policy, w.retry)
    IN  [s EXCEPT
            !.out = @ \union {Datagram(s, w.label, w.base, w.final) :
                                 w \in {v \in s.wire.pending : due(v)}},
            !.wire.pending = {IF due(w) THEN [w EXCEPT !.retry = RecordRetry(Policy, @)] ELSE w :
                                 w \in @}]

\* The bootstrap is over once the client's object came; an acknowledgement ends its
\* replays only; out of retries or time, the participant is expelled from the room.
BootPolled(s) ==
    LET acked == s.wire.boot.acked \/ SequenceAcked(s.wire.lastAck, Wire(s.wire.boot.final))
        boot == [s.wire.boot EXCEPT !.acked = acked]
    IN  IF s.wire.boot = None THEN s
        ELSE IF s.wire.object THEN [s EXCEPT !.wire.boot = None]
        ELSE IF IF acked THEN boot.retry.left = 0 ELSE Exhausted(BootPolicy, boot.retry)
        THEN [Dropped(s) EXCEPT !.left = TRUE]
        ELSE IF ~acked /\ Due(BootPolicy, boot.retry)
        THEN [s EXCEPT !.wire.boot = [boot EXCEPT !.retry = RecordRetry(BootPolicy, @)],
                       !.out = @ \union {Datagram(s, "boot", boot.base, boot.final)}]
        ELSE [s EXCEPT !.wire.boot = boot]

Polled(s) == BootPolled(WindowsPolled(s))

\* The replies of a handler go out together.
Commit(s) ==
    /\ server' = [s EXCEPT !.out = {}]
    /\ toClient' = toClient \union s.out

---------------------------------------------------------------------------
(* Steps. *)

\* The network may deliver a datagram and keep a copy of it.
MayCopy(copy) == IF copy THEN faults < MaxFaults /\ faults' = faults + 1 ELSE UNCHANGED faults

Arrived(m, copy) ==
    /\ MayCopy(copy)
    /\ toServer' = IF copy THEN toServer ELSE toServer \ {m}

\* A request of the conversation, or CarState traffic, is handled and the windows
\* are polled.
Receive(m, copy) ==
    /\ m.request # "connect"
    /\ Commit(Polled(Dispatched(Ingested(server, m), m)))
    /\ Arrived(m, copy)
    /\ UNCHANGED <<client, extras>>

\* A CONNECT of a bound address is taken for a reconnect: the endpoint is dropped.
ReceiveConnect(m, copy) ==
    /\ m.request = "connect"
    /\ server.life < MaxLives
    /\ Commit(Polled(IF server.wire.bound
                     THEN [Dropped(server) EXCEPT !.reconnect = TRUE]
                     ELSE server))
    /\ Arrived(m, copy)
    /\ UNCHANGED <<client, extras>>

Poll ==
    /\ Commit(Polled(server))
    /\ UNCHANGED <<toServer, client, faults, extras>>

\* Race traffic published to a bound endpoint by another handler.
PublishExtra ==
    /\ server.wire.bound /\ server.wire.booted
    /\ extras < MaxExtra
    /\ extras' = extras + 1
    /\ Commit(Published(server, "extra", 1, FALSE))
    /\ UNCHANGED <<toServer, client, faults>>

\* A tick of the clock every schedule is measured with.
Tick ==
    LET windows == {[w EXCEPT !.retry = Elapse(@)] : w \in server.wire.pending}
        boot == IF server.wire.boot = None THEN None
                ELSE [server.wire.boot EXCEPT !.retry = Elapse(@)]
    IN  /\ <<windows, boot>> # <<server.wire.pending, server.wire.boot>>
        /\ server' = [server EXCEPT !.wire.pending = windows, !.wire.boot = boot]
        /\ UNCHANGED <<toClient, toServer, client, faults, extras>>

\* The client takes the records that continue what it has; it learns from them that
\* the hello, and then the bootstrap, is there.
Taken(d) ==
    IF client.life \notin {0, d.life} THEN client
    ELSE IF d.label = "ticket-ack" THEN [client EXCEPT !.life = d.life, !.answered = TRUE]
    ELSE IF d.base <= client.got /\ client.got <= d.final
    THEN [client EXCEPT !.life = d.life, !.got = d.final + 1,
                        !.hello = @ \/ d.label = "hello",
                        !.boot = @ \/ d.label = "boot"]
    ELSE client

Deliver(d, copy) ==
    /\ MayCopy(copy)
    /\ toClient' = IF copy THEN toClient ELSE toClient \ {d}
    /\ client' = Taken(d)
    /\ UNCHANGED <<server, toServer, extras>>

\* What the client may say at its point of the conversation.
MaySend(request) ==
    CASE request = "empty" -> client.answered
      [] request = "publish" -> client.hello
      [] request = "object" -> client.boot
      [] request = "state" -> client.boot
      [] OTHER -> TRUE

Send(request) ==
    LET m == [dial |-> client.dial, life |-> client.life, request |-> request,
               ack |-> Wire(client.got - 1)]
    IN  /\ MaySend(request)
        /\ m \notin toServer
        /\ Cardinality(toServer) < MaxFlight
        /\ toServer' = toServer \union {m}
        /\ UNCHANGED <<server, toClient, client, faults, extras>>

\* The client starts again on the same address.
Redial ==
    /\ client.dial < MaxLives
    /\ client' = NewClient(client.dial + 1)
    /\ toServer' = toServer \union {[dial |-> client.dial + 1, life |-> 0,
                                     request |-> "connect", ack |-> Wire(-1)]}
    /\ UNCHANGED <<server, toClient, faults, extras>>

Lose ==
    /\ faults < MaxFaults
    /\ faults' = faults + 1
    /\ \/ \E d \in toClient : toClient' = toClient \ {d} /\ UNCHANGED toServer
       \/ \E m \in toServer : /\ m.request # "connect"
                              /\ toServer' = toServer \ {m}
                              /\ UNCHANGED toClient
    /\ UNCHANGED <<server, client, extras>>

ServerStep ==
    \/ \E m \in toServer, copy \in BOOLEAN : Receive(m, copy) \/ ReceiveConnect(m, copy)
    \/ Poll
    \/ PublishExtra

Next ==
    \/ ServerStep
    \/ Tick
    \/ \E d \in toClient, copy \in BOOLEAN : Deliver(d, copy)
    \/ \E request \in Requests : Send(request)
    \/ Redial
    \/ Lose

Spec == Init /\ [][Next]_vars

---------------------------------------------------------------------------
(* Properties. *)

TypeOK ==
    /\ server.wire.next \in Nat
    /\ server.life \in 1..(MaxLives + 1)
    /\ \A w \in server.wire.pending :
          /\ 0 <= w.base /\ w.base <= w.final /\ w.final < server.wire.next
          /\ w.retry.retries \in 0..Policy.retries
          /\ w.retry.wait <= w.retry.left
    /\ Len(server.wire.recent) <= MaxRecent
    /\ client.got \in 0..(5 + MaxExtra)

\* The client and the endpoint are in the same life, and the endpoint took no datagram
\* that the client sent before it dialled anew, or in another life.
InStep ==
    /\ client.life \in {0, server.life}
    /\ server.wire.heard \subseteq {client.dial} \X {0, client.life}

Retained(n) ==
    \/ \E w \in server.wire.pending : ~w.acked /\ n \in w.base..w.final
    \/ /\ server.wire.boot # None
       /\ ~server.wire.boot.acked
       /\ n \in server.wire.boot.base..server.wire.boot.final

\* Whatever was published and has not reached the client is still retained for a
\* replay, whichever of the records, acknowledgements and requests were lost,
\* repeated or overtaken, and although sequences wrap
\* (ConfirmationManager.acknowledge, confirm_application; poll_retries).
UnreceivedIsRetained ==
    InStep => \A n \in client.got..(server.wire.next - 1) : Retained(n)

\* A datagram goes out again only while no acknowledgement that covers it has been
\* processed: the exact bytes would be discarded below the client's receive window
\* (poll, replay_pending; the session bootstrap in poll_retries).
Silent ==
    \A d \in toClient' \ toClient :
       InStep /\ d.base >= 0 /\ d.life = server.life /\ server.wire.highWater # None
       => SequenceNewer(Wire(d.final), server.wire.highWater)

\* Every step is silent about what is acknowledged.
AckedStaysSilent == [][Silent]_vars

\* The join is carried out once in each life of the endpoint: repeated and overtaken
\* requests never publish a second hello or bootstrap, or two self joins
\* (append_join_publication, append_session_bootstrap).
JoinedOnce == server.wire.next <= 5 + extras
=============================================================================
