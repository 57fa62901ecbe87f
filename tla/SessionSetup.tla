----------------------------- MODULE SessionSetup -----------------------------
(***************************************************************************)
(* How the server of a Challenge room makes its invited helpers known to   *)
(* everybody and commits them to the room                                  *)
(* (server/carbon/rebroadcaster/invite_session.py, session_objects.py,     *)
(* room_commit.py, session_bootstrap.py, active_router.py, service.py).    *)
(*                                                                         *)
(* Every participant uploads a session object in three fragments; the      *)
(* server publishes it to the others, confirms the session, holds a        *)
(* helper's second generation of the object until its third arrives,       *)
(* releases both behind acknowledgements, and then commits one helper at a *)
(* time.  Every action is one datagram, handled to its end under the       *)
(* rebroadcaster's lock.                                                   *)
(*                                                                         *)
(* Abstracted: a fragment is its number 0, 1, 2 (offsets 0, 0x1e4, 0x3c8); *)
(* a reliable sequence number is the place of a publication in "flight"; a *)
(* helper's address is the helper; room timer and latencies are one flag.  *)
(* The host stays (CarbonRooms has its exit), and a participant completes  *)
(* one generation before it starts the next.                               *)
(***************************************************************************)
EXTENDS Naturals, FiniteSets, Sequences, SequencesExt, FiniteSetsExt

CONSTANTS
    None,
    Host,
    Helpers,        \* players invited to the room
    Events,         \* Challenge events the host may choose
    MaxGeneration,  \* generations of one session object
    MaxDrops,       \* helpers lost
    MaxEdits        \* room attributes the host publishes

\* Assumed where the module is instantiated.
ConstantsAssumption ==
    /\ IsFiniteSet(Helpers) /\ Host \notin Helpers
    /\ None \notin Helpers \union {Host} \union Events
    /\ MaxGeneration \in Nat /\ MaxDrops \in Nat /\ MaxEdits \in Nat

Players == {Host} \union Helpers
Offsets == {0, 1, 2}

VARIABLES
    race,       \* GameRaceState
    wire,       \* player -> EndpointWireState of its endpoint, or None
    flight,     \* player -> publications it has yet to acknowledge, in order
    windows,    \* helpers of _joiner_state13_window_sent
    past        \* counts, and what the endpoints were sent

vars == <<race, wire, flight, windows, past>>

NewRace == [barrier |-> FALSE,      \* coop_barrier_host and its token
            state7 |-> FALSE,       \* coop_host_state7_seen
            context |-> FALSE,      \* latest_room_timer and the latencies
            event |-> None,         \* challenge_event_identity
            attributes |-> None,    \* the event of the attributes
            committed |-> {},       \* coop_committed_helpers
            sent |-> FALSE,         \* room_commit_sent
            reopened |-> FALSE,
            locked |-> FALSE]

NewWire == [bootstrap |-> FALSE,    \* session_bootstrap_sent
            generation |-> 0,
            blocks |-> {},
            session |-> "new",      \* then "pending" and "confirmed"
            continued |-> FALSE,    \* invite_host_continuation_final_sequence is set
            deferred |-> FALSE,     \* invite_host_barrier_pending
            probed |-> FALSE,       \* session_probe_sent
            releases |-> {},        \* pending_session_releases
            held |-> FALSE,         \* pending_allocation_blocks: generation 2
            zero |-> FALSE,         \* pending_allocation_offset_zero_sent
            locked |-> FALSE,       \* allocation_lock_triggered
            release |-> {},         \* allocation_release_final_sequences
            reflection |-> {},      \* allocation_reflection_final_sequences
            context |-> FALSE,      \* room_commit_prerequisite_sequence is set
            published |-> [p \in Players |-> {}]]   \* published_session_offsets

Nothing == [p \in Players |-> [q \in Players |-> [generation |-> 0, offsets |-> {}]]]

Init ==
    /\ race = NewRace
    /\ wire = [p \in Players |-> IF p = Host THEN NewWire ELSE None]
    /\ flight = [p \in Players |-> <<>>]
    /\ windows = {}
    /\ past = [drops |-> 0, edits |-> 0, sent |-> Nothing, served |-> {}, early |-> {}]

(***************************************************************************)
(* One datagram changes a state s step by step.                            *)
(***************************************************************************)
Now == [race |-> race, wire |-> wire, flight |-> flight, sent |-> past.sent,
        blocked |-> FALSE]

Live(s) == {p \in DOMAIN s.wire : s.wire[p] # None}
Present(s) == Live(s) \ {Host}

\* "early" has the helpers that started generation 2 before their session
\* was confirmed.
Becomes(s) ==
    /\ race' = s.race /\ wire' = s.wire /\ flight' = s.flight
    /\ past' = [past EXCEPT !.sent = s.sent,
                            !.served = @ \union (s.race.committed \ race.committed),
                            !.early = @ \union {h \in Present(s) :
                                /\ s.wire[h].generation > 1
                                /\ wire[h].session # "confirmed"}]

Others(s, p) == Live(s) \ {p}
Whole(w) == w.blocks = Offsets
Outstanding(s, p, label) == \E i \in DOMAIN s.flight[p] : label \in s.flight[p][i]

\* A publication, with what waits for its acknowledgement.
Publish(s, p, labels) ==
    IF labels = {} /\ s.flight[p] # <<>> /\ Last(s.flight[p]) = {} THEN s
    ELSE [s EXCEPT !.flight[p] = Append(@, labels)]

Recorded(r, generation, offsets) ==
    IF r.generation = generation THEN [r EXCEPT !.offsets = @ \union offsets]
    ELSE [generation |-> generation, offsets |-> offsets]

\* What of the object of p, complete or held, q is yet to be sent.
Missing(s, p, q, offsets) == offsets \ s.wire[q].published[p]

\* The fragments of p's object, of this generation, are sent to q.
Send(s, p, q, generation, offsets, labels) ==
    IF offsets = {} THEN s
    ELSE Publish([s EXCEPT !.wire[q].published[p] = @ \union offsets,
                           !.sent[q][p] = Recorded(@, generation, offsets)], q, labels)

\* append_local_parts
Local(s, p, offsets) ==
    LET w == s.wire[p]
    IN IF 0 \notin w.blocks THEN s
       ELSE Send(s, p, p, w.generation, Missing(s, p, p, offsets) \intersect w.blocks, {})

\* append_remote_parts
Remote(s, p, q, offsets) ==
    LET missing == Missing(s, p, q, offsets)
        continuation == p = Host /\ s.wire[q].session # "confirmed" /\ 2 \in missing
    IN IF ~Whole(s.wire[p]) \/ ~s.wire[q].bootstrap THEN s
       ELSE Send(IF continuation THEN [s EXCEPT !.wire[q].continued = TRUE] ELSE s,
                 p, q, s.wire[p].generation, missing,
                 IF continuation THEN {<<"continuation", q>>} ELSE {})

ToOthers(s, p, Of(_)) == FoldSet(LAMBDA q, t : Remote(t, p, q, Of(q)), s, Others(s, p))

(***************************************************************************)
(* The allocation of a helper (room_commit.py).                            *)
(***************************************************************************)
\* hold_helper_allocation_generation
Holds(w) == w.generation = 2 /\ ~w.locked /\ (w.held \/ Whole(w))
Hold(s, h) == IF h # Host /\ Holds(s.wire[h]) THEN [s EXCEPT !.wire[h].held = TRUE] ELSE s

\* Generation 2 goes to everybody who is bootstrapped, and to h itself.
Receivers(s, h) == {h} \union {q \in Others(s, h) : s.wire[q].bootstrap}

SendHeld(s, h, offsets) ==
    FoldSet(LAMBDA q, t : Send(t, h, q, 2, Missing(t, h, q, offsets), {}), s, Receivers(s, h))

\* _append_allocation_continuation_bundle: nothing without both continuations.
Bundled(s, h) == {q \in Receivers(s, h) : Missing(s, h, q, {1, 2}) = {1, 2}}

SendBundles(s, h) ==
    LET t == FoldSet(LAMBDA q, u : Send(u, h, q, 2, {1, 2}, {<<"release", h>>}), s, Bundled(s, h))
    IN [t EXCEPT !.wire = [q \in Players |->
                    IF q \in Receivers(s, h)
                    THEN [t.wire[q] EXCEPT !.published[h] = @ \union {1, 2}] ELSE t.wire[q]]]

\* A new generation: what was published of the old one no longer counts.
Forgotten(s, p) ==
    [s EXCEPT !.wire = [q \in Players |->
        IF s.wire[q] = None THEN None ELSE [s.wire[q] EXCEPT !.published[p] = {}]]]

\* The allocation is over.
LockedHelper(s, h, targets) ==
    [s EXCEPT !.race.locked = TRUE,
              !.wire[h].held = FALSE, !.wire[h].zero = FALSE, !.wire[h].locked = TRUE,
              !.wire[h].release = targets, !.wire[h].reflection = {}]

\* release_pending_helper_allocation
Release(s, h) ==
    LET w == s.wire[h]
    IN IF w.locked \/ ~w.held \/ w.session # "confirmed" \/ w.generation < 3
          \/ ~({0, 1} \subseteq w.blocks) THEN s
       ELSE IF ~w.zero THEN [SendHeld(s, h, {0}) EXCEPT !.wire[h].zero = TRUE]
       ELSE IF 2 \notin w.blocks THEN s
       ELSE LockedHelper(Forgotten(SendBundles(s, h), h), h, Bundled(s, h))

\* release_stalled_helper_allocation_on_state7
ReleaseStalled(s, h) ==
    LET w == s.wire[h]
    IN IF w.locked \/ ~s.race.state7 \/ w.session # "confirmed" \/ w.generation # 2
          \/ ~w.held \/ w.zero THEN s
       ELSE LockedHelper(SendBundles(SendHeld(s, h, {0}), h), h, {})

(***************************************************************************)
(* The commit of the room.                                                 *)
(***************************************************************************)
Uncommitted(s) == Present(s) \ s.race.committed

\* _helper_commit_predecessor_acknowledged
Acknowledged(s, h) ==
    IF s.wire[h].context THEN ~Outstanding(s, h, <<"context", h>>) ELSE s.flight[h] = <<>>

Awaited(s, h) ==
    IF s.wire[h].context THEN s
    ELSE [s EXCEPT !.wire[h].context = TRUE,
                   !.flight[h][Len(s.flight[h])] = @ \union {<<"context", h>>}]

\* _publish_coop_room_commit, of the first helper without one.
Commit(s) ==
    LET h == CHOOSE p \in Uncommitted(s) : TRUE
    IN IF Uncommitted(s) = {} \/ ~s.race.context \/ s.race.attributes \notin Events THEN s
       ELSE IF ~Acknowledged(s, h) THEN Awaited(s, h)
       ELSE Publish(Publish([s EXCEPT !.race.locked = TRUE, !.race.sent = TRUE,
                                      !.race.committed = @ \union {h},
                                      !.wire[h].context = FALSE], Host, {}), h, {})

\* Everybody is there, and no helper waits for an acknowledgement.
Established(s) ==
    /\ ~s.race.reopened /\ Present(s) # {}
    /\ \A p \in Live(s) :
        /\ s.wire[p].session = "confirmed" /\ Whole(s.wire[p])
        /\ s.wire[p].releases = {}
        /\ s.wire[p].release = {} /\ s.wire[p].reflection = {}

\* Everybody gets the objects of all, and a helper is committed, once no helper's
\* allocation is left.
CommitUnlocked(s) ==
    IF ~s.race.barrier \/ \E h \in Present(s) : ~s.wire[h].locked THEN s
    ELSE Commit(FoldSet(LAMBDA p, t : ToOthers(t, p, LAMBDA q : Offsets), s, Live(s)))

\* maybe_finalize_room_session
Finalize(s) ==
    IF ~Established(s) \/ ~s.race.state7 THEN s
    ELSE CommitUnlocked(FoldSet(LAMBDA h, t : ReleaseStalled(t, h), s, Present(s)))

\* _window_acknowledged: a lost endpoint never acknowledges.
Arrived(s, targets, label) ==
    \A q \in targets : q \in Players /\ ~Outstanding(s, q, label)

\* Generation 3, once generation 2 has arrived.
Reflect(s, h) ==
    LET t == [s EXCEPT !.wire[h].release = {}]
        to == {q \in Receivers(t, h) : Missing(t, h, q, Offsets) # {}}
        u == FoldSet(LAMBDA q, v : Send(v, h, q, t.wire[h].generation,
                                        Missing(v, h, q, Offsets), {<<"reflection", h>>}), t, to)
    IN [u EXCEPT !.wire[h].reflection = to]

Blocks(s, h, current) == [s EXCEPT !.blocked = @ \/ h = current]

BlocksInContext(s, h, current) == IF s.wire[h].context THEN Blocks(s, h, current) ELSE s

\* advance_helper_generation_barrier, of one helper.
AdvanceHelper(s, h, current) ==
    LET w == s.wire[h]
    IN IF ~w.locked THEN s
       ELSE IF w.context THEN BlocksInContext(Finalize(s), h, current)
       ELSE IF w.release # {}
       THEN Blocks(IF Arrived(s, w.release, <<"release", h>>) THEN Reflect(s, h) ELSE s, h, current)
       ELSE IF w.reflection = {} THEN s
       ELSE IF ~Arrived(s, w.reflection, <<"reflection", h>>) THEN Blocks(s, h, current)
       ELSE Finalize([s EXCEPT !.wire[h].reflection = {}])

Advance(s, current) == FoldSet(LAMBDA h, t : AdvanceHelper(t, h, current), s, Present(s))

(***************************************************************************)
(* A complete object and its session (invite_session.py).                  *)
(***************************************************************************)
\* _publish_complete_session_prelude
Prelude(s, p) ==
    IF p # Host /\ s.wire[p].session # "confirmed" /\ 0 \in s.wire[p].published[Host]
    THEN Remote(s, Host, p, {1, 2}) ELSE s

\* _reflect_complete_session_generation
ReflectComplete(s, p) ==
    LET pending == s.wire[p].session = "pending"
        confirmed == s.wire[p].session = "confirmed"
        t == Local(s, p, IF pending THEN {0} ELSE IF confirmed THEN Offsets ELSE {})
        u == ToOthers(t, p, LAMBDA q :
                IF pending THEN IF p = Host THEN {} ELSE {0}
                ELSE IF ~confirmed THEN {}
                ELSE IF p = Host /\ t.wire[q].session # "confirmed" THEN {0} ELSE Offsets)
    IN IF p = Host THEN ToOthers(u, p, LAMBDA q : {0})
       ELSE IF confirmed THEN Finalize(u) ELSE u

\* _advance_invite_session_barrier; "fresh": the datagram brings more than an
\* acknowledgement.
AdvanceInvite(s, h, fresh) ==
    LET w == s.wire[h]
        probe == Publish(Publish(s, h, {}), Host, {})
    IN IF w.probed \/ ~s.wire[Host].bootstrap \/ 0 \notin w.published[Host] THEN s
       ELSE IF w.continued /\ Outstanding(s, h, <<"continuation", h>>)
       THEN [s EXCEPT !.wire[h].deferred = TRUE]
       ELSE IF w.deferred /\ ~fresh THEN s
       ELSE [probe EXCEPT !.wire[Host].releases = @ \union {h},
                          !.wire[h].probed = TRUE, !.wire[h].deferred = FALSE]

\* handle_complete_session_object
HandleComplete(s, p, fresh) ==
    LET t == Hold(Prelude(s, p), p)
        u == ReflectComplete(t, p)
    IN IF ~Whole(s.wire[p]) \/ s.blocked THEN s
       ELSE IF p # Host /\ Holds(t.wire[p]) THEN t
       ELSE IF p = Host THEN u ELSE AdvanceInvite(u, p, fresh)

\* append_session_confirmation
Confirm(s, p) ==
    LET t == [Publish(Local(s, p, {1, 2}), p, {}) EXCEPT !.wire[p].session = "confirmed"]
        u == IF p = Host THEN t ELSE ToOthers(t, p, LAMBDA q : {1, 2})
    IN IF s.wire[p].session # "pending" THEN s ELSE Release(Finalize(u), p)

\* _finish_bound_datagram, after what the datagram of p itself did.
Finish(s, p, fresh) ==
    Confirm(HandleComplete(Advance(Release(s, p), p), p, fresh), p)

(***************************************************************************)
(* Datagrams                                                               *)
(***************************************************************************)
Bind(h) ==
    /\ wire[h] = None
    /\ wire' = [wire EXCEPT ![h] = NewWire]
    /\ UNCHANGED <<race, flight, windows, past>>

\* drop_endpoint; who waits for its acknowledgement waits for the lost one.
DroppedWire(w, h) == [w EXCEPT !.releases = @ \ {h}, !.published[h] = {}]

Lost(targets, h) == IF h \in targets THEN (targets \ {h}) \union {None} ELSE targets

Drop(h) ==
    /\ h \in Helpers /\ wire[h] # None /\ past.drops < MaxDrops
    /\ wire' = [p \in Players |->
                  IF p = h \/ wire[p] = None THEN None
                  ELSE [DroppedWire(wire[p], h)
                          EXCEPT !.release = Lost(@, h), !.reflection = Lost(@, h)]]
    /\ flight' = [p \in Players |->
                    IF p = h THEN <<>>
                    ELSE [i \in DOMAIN flight[p] |-> {l \in flight[p][i] : l[2] # h}]]
    /\ past' = [past EXCEPT !.drops = @ + 1, !.served = @ \ {h}, !.early = @ \ {h},
                            !.sent = [q \in Players |->
                                        IF q = h THEN Nothing[h]
                                        ELSE [@[q] EXCEPT ![h] = Nothing[q][h]]]]
    /\ UNCHANGED <<race, windows>>

\* append_join_publication: the others' first fragments go with the bootstrap.
JoinPublication(p) ==
    LET s == [Now EXCEPT !.wire[p].bootstrap = TRUE]
    IN /\ wire[p] # None /\ ~wire[p].bootstrap
       /\ Becomes(Finish(FoldSet(LAMBDA q, t : Remote(t, q, p, {0}), Publish(s, p, {}),
                                 Others(s, p)), p, TRUE))
       /\ UNCHANGED windows

\* _ingest_session_blocks, of one fragment.
Ingest(s, p, offset) ==
    LET w == s.wire[p]
        t == IF w.generation = 0 THEN [s EXCEPT !.wire[p].generation = 1]
             ELSE [Forgotten(Hold(s, p), p) EXCEPT !.wire[p].generation = w.generation + 1,
                                                   !.wire[p].blocks = {}]
    IN Release([IF offset = 0 THEN t ELSE s EXCEPT !.wire[p].blocks = @ \union {offset}], p)

\* The next fragment, or all that is left of a generation.
Fragments(p, all) ==
    LET w == wire[p]
        next == IF Whole(w) THEN 0 ELSE Cardinality(w.blocks)
        offsets == IF all THEN [i \in 1 .. 3 - next |-> next + i - 1] ELSE <<next>>
    IN /\ w # None /\ w.bootstrap
       /\ next = 0 => w.generation < MaxGeneration /\ (p = Host => w.generation = 0)
       /\ all => next < 2
       /\ Becomes(Finish(FoldLeft(LAMBDA s, o : Ingest(s, p, o), Now, offsets), p, TRUE))
       /\ UNCHANGED windows

\* handle_session_token: the host's also answers for the helpers it was probed for.
SessionToken(p) ==
    LET released == wire[p].releases
        s == FoldSet(LAMBDA h, t : Remote(t, p, h, {1, 2}), Now, released)
        t == [s EXCEPT !.wire[p].releases = {},
                       !.race.barrier = @ \/ released # {},
                       !.wire[p].session = IF Whole(wire[p]) /\ @ = "new" THEN "pending" ELSE @]
    IN /\ wire[p] # None /\ wire[p].bootstrap
       /\ IF p = Host THEN wire[p].session = "new" \/ released # {}
          ELSE wire[p].probed /\ wire[p].session = "new"
       /\ Becomes(Finish(t, p, TRUE))
       /\ UNCHANGED windows

Acknowledge(p, n) ==
    /\ wire[p] # None /\ n \in 1 .. Len(flight[p])
    /\ \E fresh \in BOOLEAN :
          Becomes(Finish([Now EXCEPT !.flight[p] = SubSeq(@, n + 1, Len(@))], p, fresh))
    /\ UNCHANGED windows

\* Room timer and latencies.
RoomContext ==
    /\ ~race.context /\ wire[Host].session = "confirmed"
    /\ Becomes(Finish([Now EXCEPT !.race.context = TRUE], Host, TRUE))
    /\ UNCHANGED windows

\* The host's state 7, kept for the commit.
State7 ==
    /\ ~race.sent /\ wire[Host].session = "confirmed"
    /\ Becomes(Finish(Finalize([Now EXCEPT !.race.state7 = TRUE]), Host, TRUE))
    /\ UNCHANGED windows

\* pending_helper_commit.
SettingsUpdateAllowed == Present(Now) \subseteq race.committed

BecomesEdited(s) ==
    /\ race' = s.race /\ wire' = s.wire /\ flight' = s.flight
    /\ past' = [past EXCEPT !.edits = @ + 1, !.sent = s.sent,
                            !.served = @ \union (s.race.committed \ race.committed)]

\* _handle_attributes: e is None while the host has no event selected.
GameAttributes(e) ==
    LET chosen == IF e # None /\ (race.event = None \/ SettingsUpdateAllowed)
                  THEN e ELSE race.event
        s == [Now EXCEPT !.race.event = chosen, !.race.attributes = chosen]
    IN /\ wire[Host].session = "confirmed" /\ past.edits < MaxEdits
       /\ BecomesEdited(Finish(Finalize(s), Host, TRUE))
       /\ UNCHANGED windows

\* relay_joiner_state13_window: once for a user in the life of the room.
JoinerState13(h) ==
    /\ h \in Present(Now) /\ race.sent /\ race.context
    /\ h \in race.committed /\ h \notin windows
    /\ windows' = windows \union {h}
    /\ Becomes(Finish(Publish(Publish(Now, h, {}), Host, {}), h, TRUE))

\* The room after a race (reset_finished_race_for_rematch, reopen_finished_room).
Reopen ==
    /\ race.sent /\ Present(Now) # {} /\ Uncommitted(Now) = {}
    /\ race' = [NewRace EXCEPT !.reopened = TRUE]
    /\ wire' = [p \in Players |->
                  IF wire[p] = None THEN None ELSE [wire[p] EXCEPT !.context = FALSE]]
    /\ UNCHANGED <<flight, windows, past>>

Next ==
    \/ RoomContext \/ State7 \/ Reopen
    \/ \E e \in Events \union {None} : GameAttributes(e)
    \/ \E p \in Players :
        \/ Bind(p) \/ Drop(p) \/ JoinPublication(p) \/ SessionToken(p) \/ JoinerState13(p)
        \/ \E all \in BOOLEAN : Fragments(p, all)
        \/ \E n \in 1 .. Len(flight[p]) : Acknowledge(p, n)

Spec == Init /\ [][Next]_vars

(***************************************************************************)
(* Properties                                                              *)
(***************************************************************************)
\* Types; and a helper's stages follow each other: held, locked, released,
\* reflected.
TypeOK ==
    /\ race.event \in Events \union {None} /\ race.committed \subseteq Helpers
    /\ windows \subseteq Helpers
    /\ \A p \in Live(Now) :
        LET w == wire[p]
        IN /\ w.generation \in 0 .. MaxGeneration /\ w.blocks \subseteq Offsets
           /\ w.held => ~w.locked /\ w.generation >= 2
           /\ w.zero => w.held
           /\ w.release # {} \/ w.reflection # {} \/ w.context => w.locked
           /\ w.locked => w.session = "confirmed" /\ w.generation >= 2
           /\ w.deferred => ~w.probed

\* The host answers only for helpers that are there: a commit waits until no
\* session release is pending, so a lost helper's would hold up all others
\* (drop_endpoint).
ReleasesAreLive ==
    \A h \in wire[Host].releases : wire[h] # None /\ wire[h].probed

\* No endpoint is sent a fragment of an older generation of somebody's object
\* after one of a newer, and the host and the owner no generation without its
\* first fragment, whatever the order of fragments, tokens and
\* acknowledgements (release_pending_helper_allocation,
\* advance_helper_generation_barrier), if the owner starts its second
\* generation with a confirmed session.  (A helper that joins between the two
\* parts of a release gets the second alone.)
InOrder ==
    \A q, p \in Live(Now) :
       (wire'[p] # None /\ wire'[q] # None /\ p \notin past'.early) =>
           LET now == past'.sent[q][p]
           IN /\ now.generation >= past.sent[q][p].generation
              /\ q \in {Host, p} /\ now.offsets # {} => 0 \in now.offsets

\* Every step keeps the order of generations.
GenerationsInOrder == [][InOrder]_vars

\* When a helper is committed, everybody has been sent everybody's whole
\* current object, every helper has had its allocation, and whatever was
\* reflected of any helper has been acknowledged.
Prepared ==
    \A h \in race'.committed \ race.committed :
       \A p, q \in Live(Now) :
           /\ p # q => wire'[q].published[p] = Offsets
           /\ p # Host => wire'[p].locked
           /\ \A i \in DOMAIN flight'[q] : <<"reflection", p>> \notin flight'[q][i]

\* Every commit is prepared.
CommitIsPrepared == [][Prepared]_vars

\* While a helper joins, the event it was invited to stays the room's
\* (_handle_attributes).
Frozen ==
    (race.event # None /\ Uncommitted(Now) # {} /\ race'.reopened = race.reopened)
       => race'.event = race.event

\* Every step keeps the event of a room that helpers join.
EventIsFrozenForJoiners == [][Frozen]_vars

\* "Each invited helper needs its own state-7 room commit"
\* (gamemanager/race_state.py): whoever counts as committed was sent its
\* commit since it joined.
HelpersAreCommittedAfresh == Present(Now) \intersect race.committed \subseteq past.served

=============================================================================
