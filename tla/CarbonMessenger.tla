-------------------------- MODULE CarbonMessenger --------------------------
(***************************************************************************)
(* The Messenger of Carbon's clients: CarbonMessengerAdapter and           *)
(* CarbonMessengerService on the shared EAMessengerHub.                    *)
(*                                                                         *)
(* A connection is a thread.  It authenticates with the token of a FESL    *)
(* login, which it finds in the state the IPC feed installed; it may have  *)
(* to wait for it.  A token that is marked as displaced authenticates a    *)
(* duplicate: it may finish its bootstrap, is told why it must go, and is  *)
(* closed.  The other connections publish their presence to their friends  *)
(* and carry the end of a game invitation, which the host revokes and the  *)
(* server holds back until Theater has seen the guest join.                *)
(*                                                                         *)
(* Commands of one connection are handled one at a time under its          *)
(* dispatch_lock.  What a handler sends to others it sends one by one,     *)
(* while other threads run; its own reply leaves after the handler.        *)
(***************************************************************************)
EXTENDS Integers, FiniteSets

CONSTANTS
    Conns,       \* sockets; each is used once
    Tokens,      \* the LKEYs of FESL logins
    Personas,    \* all of them friends, none of them blocked
    PersonaOf,   \* the persona a token was issued to
    None

\* Assumed where the module is instantiated.
PersonaOfAssumption ==
    /\ PersonaOf \in [Tokens -> Personas]
    /\ None \notin Conns \union Tokens \union Personas

VARIABLES
    ipc,       \* what the IPC feed shows: usable, and the state of each token
    room,      \* per persona: "out", "in" a room, or "joined" it with EGEG
    conn,      \* the connections
    job,       \* what the thread of a connection has still to do
    listed,    \* connections in _connections and in the social lobby
    control,   \* connections with a control sender in the social service
    shared,    \* the SHOW each persona has in the social service
    public,    \* the connection whose row carbon_public_presence holds
    armed,     \* _pending_invite_completions: the host, per guest
    revoked,   \* _pending_invite_revokes
    seen,      \* the presence of each persona that a connection was last sent
    past       \* history that the properties need

vars == <<ipc, room, conn, job, listed, control, shared, public, armed,
          revoked, seen, past>>

service == <<listed, control, shared, public, armed, revoked>>
-----------------------------------------------------------------------------
NewConn == [phase |-> "off", token |-> None, forced |-> FALSE, stage |-> "none",
            show |-> "CHAT", ready |-> FALSE, muted |-> {}]

Idle == [kind |-> "none", about |-> None, sees |-> "unknown", to |-> {}]

Who(c) == PersonaOf[conn[c].token]

Known(t) == ipc.usable /\ ipc.token[t] = "live"
Marked(t) == ipc.usable /\ ipc.token[t] \in {"forced", "ready"}

\* The connections of persona p that the service lists.
ListedOf(p) == {c \in listed : Who(c) = p}

Available(c) ==
    /\ conn[c].phase \in {"auth", "quiesced"}
    /\ ~conn[c].forced
    /\ conn[c].stage # "notified"
    /\ ~Marked(conn[c].token)

AppearsOffline(p) ==
    \E c \in ListedOf(p) :
        Available(c) /\ (~conn[c].ready \/ conn[c].show = "DISC")

\* What a frame composed now shows of p.
Shown(p) ==
    IF ListedOf(p) # {} /\ shared[p] # "DISC" /\ ~AppearsOffline(p) THEN "on" ELSE "off"

\* Whom social.deliver reaches: the control senders of p's friends.
Viewers(p) == {c \in control : Who(c) # p}

\* The handler of c runs: its thread has nothing left to do or to send.
Reads(c) == job[c] = Idle /\ conn[c].phase \in {"open", "waiting", "auth"}

\* A connection whose commands reach the service.
Serves(c) ==
    /\ Reads(c)
    /\ conn[c].phase = "auth"
    /\ ~conn[c].forced
    /\ conn[c].stage # "notified"
-----------------------------------------------------------------------------
Init ==
    /\ ipc = [usable |-> TRUE, token |-> [t \in Tokens |-> "none"]]
    /\ room = [p \in Personas |-> "out"]
    /\ conn = [c \in Conns |-> NewConn]
    /\ job = [c \in Conns |-> Idle]
    /\ listed = {} /\ control = {}
    /\ shared = [p \in Personas |-> "CHAT"]
    /\ public = [p \in Personas |-> None]
    /\ armed = [p \in Personas |-> None]
    /\ revoked = {}
    /\ seen = [c \in Conns |-> [p \in Personas |-> "unknown"]]
    /\ past = [released |-> [p \in Personas |-> 0],   \* GNOT Rs since the guest accepted
               wrote    |-> [p \in Personas |-> None],\* who wrote p's public row last
               overlap  |-> {},    \* personas that had two sockets at once
               crossed  |-> {}]    \* pushes that overtook a reply

-----------------------------------------------------------------------------
(* The IPC feed and Theater: CarbonMessengerIPCState, as MessengerIPC fills it. *)

TokenShown(t) ==
    /\ \/ ipc.token[t] = "none" /\ \E s \in {"live", "forced"} : ipc' = [ipc EXCEPT !.token[t] = s]
       \/ ipc.token[t] = "live" /\ ipc' = [ipc EXCEPT !.token[t] = "forced"]
       \/ ipc.token[t] = "forced" /\ ipc' = [ipc EXCEPT !.token[t] = "ready"]
    /\ UNCHANGED <<room, conn, job, service, seen, past>>

UsableChanges ==
    /\ ipc' = [ipc EXCEPT !.usable = ~@]
    /\ UNCHANGED <<room, conn, job, service, seen, past>>

RoomChanges(p) ==
    /\ \E r \in {"out", "in", "joined"} \ {room[p]} :
          /\ r = "joined" => room[p] = "in"
          /\ room' = [room EXCEPT ![p] = r]
    /\ UNCHANGED <<ipc, conn, job, service, seen, past>>
-----------------------------------------------------------------------------
(* Authentication *)

\* begin_forced_logoff: the duplicate is authenticated and never registered.
BeginForcedLogoff(c, t) ==
    /\ Marked(t)
    /\ conn' = [conn EXCEPT ![c].phase = "auth", ![c].token = t, ![c].forced = TRUE]
    /\ UNCHANGED <<service, past>>

\* register_control looks its lobby identity up by address and persona, and
\* takes it only if there is exactly one.
ControlRegistered(c, p) == IF ListedOf(p) = {} THEN control \union {c} ELSE control

\* _dispatch_auth and _register.
Register(c, t) ==
    LET p == PersonaOf[t]
    IN  /\ Known(t)
        /\ conn' = [conn EXCEPT ![c].phase = "auth", ![c].token = t]
        /\ listed' = listed \union {c}
        /\ control' = ControlRegistered(c, p)
        /\ shared' = [shared EXCEPT ![p] = conn[c].show]
        /\ public' = [public EXCEPT ![p] = c]                     \* PENDING
        /\ past' = [past EXCEPT !.wrote[p] = c,
                       !.overlap = IF \/ ListedOf(p) # {}
                                      \/ \E d \in Conns : job[d].kind = "push" /\ job[d].about = p
                                   THEN @ \union {p} ELSE @]
        /\ UNCHANGED <<armed, revoked>>

\* The first frame selects the adapter; a token the feed does not show yet
\* leaves AUTH pending.
Auth(c, t) ==
    /\ job[c] = Idle
    /\ conn[c].phase \in {"off", "open", "waiting"}
    /\ \/ BeginForcedLogoff(c, t)
       \/ Register(c, t)
       \/ /\ ~Marked(t) /\ ~Known(t)
          /\ conn' = [conn EXCEPT ![c].phase = "waiting", ![c].token = t]
          /\ UNCHANGED <<service, past>>
    /\ UNCHANGED <<ipc, room, job, seen>>

\* poll of a connection whose AUTH is pending; its deadline answers
\* INVALID_SESSION.
PollPendingAuth(c) ==
    /\ Reads(c) /\ conn[c].phase = "waiting"
    /\ \/ BeginForcedLogoff(c, conn[c].token)
       \/ Register(c, conn[c].token)
       \/ /\ ~Marked(conn[c].token) /\ ~Known(conn[c].token)
          /\ conn' = [conn EXCEPT ![c].phase = "open", ![c].token = None]
          /\ UNCHANGED <<service, past>>
    /\ UNCHANGED <<ipc, room, job, seen>>
-----------------------------------------------------------------------------
(* The forced logoff *)

\* A duplicate goes through EPGT and then PSET before it may be told.
Bootstraps(c) ==
    /\ Reads(c) /\ conn[c].phase = "auth" /\ conn[c].forced
    /\ \/ conn[c].stage = "none" /\ conn' = [conn EXCEPT ![c].stage = "endpoint"]
       \/ conn[c].stage = "endpoint" /\ conn' = [conn EXCEPT ![c].stage = "pset"]
    /\ UNCHANGED <<ipc, room, job, service, seen, past>>

\* poll: the marker must be theater-ready, then the frontend gets its second,
\* then ADMN is sent.
PollDuplicate(c) ==
    /\ Reads(c) /\ conn[c].phase = "auth" /\ conn[c].forced
    /\ ipc.usable /\ ipc.token[conn[c].token] = "ready"
    /\ \/ conn[c].stage = "pset" /\ conn' = [conn EXCEPT ![c].stage = "counting"]
       \/ conn[c].stage = "counting" /\ conn' = [conn EXCEPT ![c].stage = "notified"]
    /\ UNCHANGED <<ipc, room, job, service, seen, past>>

\* poll: sync_session finds that an established connection was displaced.
PollDisplaced(c) ==
    /\ Serves(c) /\ Marked(conn[c].token)
    /\ conn' = [conn EXCEPT ![c].stage = "notified"]
    /\ UNCHANGED <<ipc, room, job, service, seen, past>>

\* poll: the grace after the notice is over.
PollClose(c) ==
    /\ Reads(c) /\ conn[c].phase = "auth" /\ conn[c].stage = "notified"
    /\ conn' = [conn EXCEPT ![c].phase = "closing"]
    /\ UNCHANGED <<ipc, room, job, service, seen, past>>
-----------------------------------------------------------------------------
(* Presence *)

\* _notify_social_presence by the thread of c: composed now, sent one by one.
Notifies(c, p, sees, to) ==
    [job EXCEPT ![c] = IF to = {} THEN Idle
                       ELSE [kind |-> "push", about |-> p, sees |-> sees, to |-> to]]

\* _dispatch_presence_set.
PresenceSet(c, show) ==
    LET p == Who(c)
    IN  /\ Serves(c)
        /\ UNCHANGED <<ipc, room, listed, control, armed, revoked, seen>>
        /\ conn' = [conn EXCEPT ![c].show = show, ![c].ready = TRUE]
        /\ shared' = [shared EXCEPT ![p] = show]
        /\ public' = [public EXCEPT ![p] = c]
        /\ past' = [past EXCEPT !.wrote[p] = c]
        /\ job' = Notifies(c, p,
                     IF show # "DISC" /\ ~AppearsOffline(p)' THEN "on" ELSE "off", Viewers(p))

\* The sender of viewer v: it checks at delivery that v still serves and did not
\* opt out, and hides whoever has come to appear offline.
Sent(v, p, sees) ==
    IF ~Available(v) \/ p \in conn[v].muted THEN seen[v][p]
    ELSE IF sees = "on" /\ AppearsOffline(p) THEN "off" ELSE sees

\* One delivery of the push that c's thread is busy with.
Deliver(c, v) ==
    LET j == job[c]
        overtakes == job[v].kind = "reply" /\ job[v].about = j.about
    IN  /\ j.kind = "push" /\ v \in j.to
        /\ job' = [job EXCEPT ![c] = IF j.to = {v} THEN Idle ELSE [j EXCEPT !.to = @ \ {v}]]
        /\ seen' = [seen EXCEPT ![v][j.about] = Sent(v, j.about, j.sees)]
        /\ past' = [past EXCEPT !.crossed = IF overtakes THEN @ \union {<<v, j.about>>} ELSE @]
        /\ UNCHANGED <<ipc, room, conn, service>>

\* _dispatch_presence_add, and RGET for the personas of the roster: the answer
\* is composed by the handler and sent after it.
PresenceAdd(c, p) ==
    /\ Serves(c) /\ p # Who(c)
    /\ conn' = [conn EXCEPT ![c].muted = @ \ {p}]
    /\ job' = [job EXCEPT ![c] = [kind |-> "reply", about |-> p, sees |-> Shown(p), to |-> {c}]]
    /\ UNCHANGED <<ipc, room, service, seen, past>>

Replied(c) ==
    /\ job[c].kind = "reply"
    /\ seen' = IF conn[c].phase = "auth"
               THEN [seen EXCEPT ![c][job[c].about] = job[c].sees] ELSE seen
    /\ job' = [job EXCEPT ![c] = Idle]
    /\ UNCHANGED <<ipc, room, conn, service, past>>

\* _dispatch_presence_delete; the client forgets the row.
PresenceDelete(c, p) ==
    /\ Serves(c) /\ p # Who(c)
    /\ conn' = [conn EXCEPT ![c].muted = @ \union {p}]
    /\ seen' = [seen EXCEPT ![c][p] = "unknown"]
    /\ UNCHANGED <<ipc, room, job, service, past>>
-----------------------------------------------------------------------------
(* Game invitations *)

\* Dropping what is held back for a guest.
Disarmed(guest) ==
    armed' = [armed EXCEPT ![guest] = None] /\ revoked' = revoked \ {guest}

Invite(c, guest) ==
    /\ Serves(c) /\ guest # Who(c)
    /\ Disarmed(guest)
    /\ UNCHANGED <<ipc, room, conn, job, listed, control, shared, public, seen, past>>

\* _dispatch_game_response: an acceptance arms the completion.
Respond(c, host, accepted) ==
    LET guest == Who(c)
    IN  /\ Serves(c) /\ host # guest
        /\ IF accepted
           THEN /\ armed' = [armed EXCEPT ![guest] = host]
                /\ revoked' = revoked \ {guest}
                /\ past' = [past EXCEPT !.released[guest] = 0]
           ELSE Disarmed(guest) /\ UNCHANGED past
        /\ UNCHANGED <<ipc, room, conn, job, listed, control, shared, public, seen>>

\* _dispatch_game_revoke: noted, and tried as soon as the reply is sent.
Revoke(c, guest) ==
    /\ Serves(c) /\ guest # Who(c)
    /\ armed[guest] = Who(c)
    /\ revoked' = revoked \union {guest}
    /\ job' = [job EXCEPT ![c] = [Idle EXCEPT !.kind = "deferred", !.about = guest]]
    /\ UNCHANGED <<ipc, room, conn, listed, control, shared, public, armed, seen, past>>

\* The first half of _release_invite_completion_if_ready: the guest has joined
\* the room its host is in.
Ready(guest) ==
    /\ armed[guest] # None /\ guest \in revoked
    /\ ipc.usable
    /\ room[guest] = "joined" /\ room[armed[guest]] # "out"

\* after_send runs what GRVK deferred, unless the connection was closed meanwhile.
AfterSend(c) ==
    /\ job[c].kind = "deferred"
    /\ job' = [job EXCEPT ![c] =
                  IF Ready(@.about) /\ conn[c].phase = "auth"
                  THEN [kind |-> "pop", about |-> @.about, sees |-> "unknown",
                        to |-> {armed[@.about]}]
                  ELSE Idle]
    /\ UNCHANGED <<ipc, room, conn, service, seen, past>>

\* poll: sync_session tries it for the connection's own persona.
PollInvite(c) ==
    /\ Serves(c) /\ ~Marked(conn[c].token)
    /\ Ready(Who(c))
    /\ job' = [job EXCEPT ![c] = [kind |-> "pop", about |-> Who(c), sees |-> "unknown",
                                   to |-> {armed[Who(c)]}]]
    /\ UNCHANGED <<ipc, room, conn, service, seen, past>>

\* A plausible bug: what was read is taken to hold still.
StillReady_Unchecked(j) == TRUE

\* The second half, under the lock again: what was read must still hold.
StillReady(j) == armed[j.about] \in j.to /\ j.about \in revoked

ReleaseCompletion(c) ==
    LET j == job[c]
    IN  /\ j.kind = "pop"
        /\ job' = [job EXCEPT ![c] = Idle]
        /\ IF StillReady(j)
           THEN /\ Disarmed(j.about)
                /\ past' = [past EXCEPT !.released[j.about] = IF @ < 2 THEN @ + 1 ELSE @]
           ELSE UNCHANGED <<armed, revoked, past>>
        /\ UNCHANGED <<ipc, room, conn, listed, control, shared, public, seen>>
-----------------------------------------------------------------------------
(* The end of a connection *)

\* DISC.
Disc(c) ==
    /\ Reads(c)
    /\ conn' = [conn EXCEPT ![c].phase = "closing",
                            ![c].token = IF conn[c].phase = "auth" THEN @ ELSE None]
    /\ UNCHANGED <<ipc, room, job, service, seen, past>>

\* The policy quiesces a connection; it takes the dispatch_lock.
PolicyClose(c) ==
    /\ job[c].kind \in {"none", "reply", "deferred"}
    /\ conn[c].phase = "auth"
    /\ conn' = [conn EXCEPT ![c].phase = "quiesced"]
    /\ UNCHANGED <<ipc, room, job, service, seen, past>>

\* unregister_control.
Unregistered(c) == control \ {c}

\* clear_carbon_public_presence deletes only the connection's own row.
PublicCleared(c) == [public EXCEPT ![Who(c)] = IF @ = c THEN None ELSE @]

\* A duplicate was never registered: disconnect returns at once for it.
Leaves(c) == conn[c].token # None /\ conn[c].phase # "waiting" /\ ~conn[c].forced

\* The presence composed after c left the lobby.
NotifiedOnLeave(p) == Shown(p)'

\* The socket ends, by EOF, after DISC, the notice or the drain window; disconnect.
Ends(c) ==
    LET p == Who(c)
        out == {g \in Personas : g = p \/ armed[g] = p}
    IN  /\ job[c].kind \in {"none", "deferred"}
        /\ conn[c].phase \in {"open", "waiting", "auth", "closing", "quiesced"}
        /\ conn' = [conn EXCEPT ![c] = [NewConn EXCEPT !.phase = "gone", !.token = conn[c].token]]
        /\ UNCHANGED <<ipc, room, past>>
        /\ seen' = [seen EXCEPT ![c] = [q \in Personas |-> "unknown"]]
        /\ IF Leaves(c)
           THEN /\ listed' = listed \ {c} /\ control' = Unregistered(c)
                /\ public' = PublicCleared(c)
                /\ shared' = IF ListedOf(p) \subseteq {c}
                             THEN [shared EXCEPT ![p] = "AWAY"] ELSE shared
                /\ armed' = [g \in Personas |-> IF g \in out THEN None ELSE armed[g]]
                /\ revoked' = revoked \ out
                /\ job' = Notifies(c, p, NotifiedOnLeave(p), Viewers(p))
           ELSE /\ UNCHANGED service
                /\ job' = [job EXCEPT ![c] = Idle]
-----------------------------------------------------------------------------
Next ==
    \/ \E t \in Tokens : TokenShown(t)
    \/ UsableChanges
    \/ \E p \in Personas : RoomChanges(p)
    \/ \E c \in Conns :
          \/ \E t \in Tokens : Auth(c, t)
          \/ PollPendingAuth(c)
          \/ Bootstraps(c) \/ PollDuplicate(c) \/ PollDisplaced(c) \/ PollClose(c)
          \/ \E s \in {"CHAT", "DISC"} : PresenceSet(c, s)
          \/ \E v \in Conns : Deliver(c, v)
          \/ Replied(c) \/ AfterSend(c) \/ PollInvite(c) \/ ReleaseCompletion(c)
          \/ \E p \in Personas :
                \/ PresenceAdd(c, p) \/ PresenceDelete(c, p)
                \/ Invite(c, p) \/ Revoke(c, p)
                \/ \E accepted \in BOOLEAN : Respond(c, p, accepted)
          \/ Disc(c) \/ PolicyClose(c) \/ Ends(c)

Spec == Init /\ [][Next]_vars
-----------------------------------------------------------------------------
(* Properties *)

Sees == {"unknown", "on", "off"}

TypeOK ==
    /\ ipc \in [usable : BOOLEAN, token : [Tokens -> {"none", "live", "forced", "ready"}]]
    /\ room \in [Personas -> {"out", "in", "joined"}]
    /\ conn \in [Conns ->
          [phase : {"off", "open", "waiting", "auth", "closing", "quiesced", "gone"},
           token : Tokens \union {None}, forced : BOOLEAN,
           stage : {"none", "endpoint", "pset", "counting", "notified"},
           show : {"CHAT", "DISC"}, ready : BOOLEAN, muted : SUBSET Personas]]
    /\ \A c \in Conns :
          /\ job[c].kind \in {"none", "push", "reply", "deferred", "pop"}
          /\ job[c].sees \in Sees
          /\ (job[c].kind = "push") => job[c].to # {}
    /\ listed \subseteq Conns /\ control \subseteq listed
    /\ shared \in [Personas -> {"CHAT", "DISC", "AWAY"}]
    /\ public \in [Personas -> Conns \union {None}]
    /\ armed \in [Personas -> Personas \union {None}] /\ revoked \subseteq Personas
    /\ seen \in [Conns -> [Personas -> Sees]]
    /\ past.overlap \subseteq Personas

\* The duplicate of a login has its winner's persona: nothing it does, and not
\* its end either, touches the service's state (comment in disconnect: its cleanup
\* would otherwise erase the original client's invite and social state).
LeavesNoTrace ==
    \A c \in Conns :
       conn[c].forced /\ conn'[c] # conn[c] => UNCHANGED service

\* No step of a displaced connection leaves a trace.
DuplicatesLeaveNoTrace == [][LeavesNoTrace]_vars

\* The host's GRVK and the guest's poll both try to release the invitation, each
\* in two steps: the guest is told once for each acceptance.
ReleasedOnce == \A p \in Personas : past.released[p] <= 1

\* Whatever is held back belongs to an acceptance of a guest who is still
\* connected: a new invitation, a refusal and a disconnect take the revocation
\* with them, so the next acceptance starts with none.
RevokesAreArmed ==
    /\ \A p \in revoked : armed[p] # None
    /\ \A p \in Personas : armed[p] # None => ListedOf(p) # {}

\* carbon_public_presence: the late close of an older connection does not erase
\* the row of the newer one, and no row outlives its connection.
PublicPresenceSurvives ==
    \A p \in Personas :
        /\ public[p] # None => public[p] \in listed
        /\ past.wrote[p] \in listed => public[p] = past.wrote[p]

\* Nobody is busy telling v about p, nor v with an answer about p.
Quiet(v, p) ==
    /\ job[v] = Idle
    /\ \A c \in Conns : job[c].kind = "push" /\ v \in job[c].to => job[c].about # p

\* Once the frames in flight have arrived, a friend is shown online exactly if
\* it is and does not appear offline: no departure and no "Appear Offline" is
\* lost.  Left out are the orders in which the code may lose one: a reconnect
\* that overlaps the old socket, an answer overtaken by a push, and the moments
\* in which a socket is closing and no longer hides whom it hid.
ViewsAreCurrent ==
    \A v \in control, p \in Personas :
        /\ seen[v][p] # "unknown"
        /\ p \notin past.overlap /\ <<v, p>> \notin past.crossed /\ Quiet(v, p)
        /\ Available(v) /\ conn[v].phase = "auth" /\ ipc.token[conn[v].token] = "live"
        /\ \A c \in ListedOf(p) : Available(c) /\ ipc.token[conn[c].token] = "live"
        => seen[v][p] = Shown(p)
=============================================================================
