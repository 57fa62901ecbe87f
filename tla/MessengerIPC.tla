---------------------------- MODULE MessengerIPC ----------------------------
(***************************************************************************)
(* How the shared Messenger process learns which Carbon session tokens are *)
(* live and which have been displaced.  A publisher thread in the Carbon   *)
(* server (server/common/ipc.py, server/carbon/messenger_ipc.py) polls the *)
(* identity store and sends whole snapshots, in signed and numbered        *)
(* envelopes, over a loopback TCP connection that it reopens when it       *)
(* fails; in the Messenger process a thread per connection verifies each   *)
(* envelope and installs it in CarbonMessengerIPCState                     *)
(* (server/classic/protocols/carbon_messenger_ipc.py).                     *)
(*                                                                         *)
(* Sequence numbers are kept relative to the last one the receiver has     *)
(* accepted from that instance (_last_sequence), the only thing it         *)
(* compares them with, so that heartbeats can go on for ever in a finite   *)
(* model.  Signatures are genuine: nobody else writes to the listener.     *)
(* Rooms and known identities travel in the same snapshot and are left out.*)
(***************************************************************************)
EXTENDS Integers, Sequences

CONSTANTS
    Token,          \* session tokens
    Conn,           \* loopback connections that can exist at the same time
    None,           \* no connection, no snapshot, no instance
    MaxInstances,   \* bound: starts of the Carbon process
    MaxQueue,       \* envelopes the socket buffers hold before sendall times out
    MaxFaults,      \* bound: broken connections, late envelopes, Messenger restarts
    MaxAge          \* max_age_seconds, in heartbeat intervals

ASSUME ConstantsAssumption ==
    /\ MaxInstances \in Nat \ {0} /\ MaxQueue \in Nat \ {0}
    /\ MaxFaults \in Nat /\ MaxAge \in Nat
    /\ None \notin Conn \union Nat

VARIABLES
    store,      \* the identity store: [Token -> Status]
    carbon,     \* the Carbon process: its instance id, and whether it runs
    pub,        \* the publisher thread
    conns,      \* [Conn -> the connection, with the Messenger thread that reads it]
    ipc,        \* CarbonMessengerIPCState
    faults

vars == <<store, carbon, pub, conns, ipc, faults>>

-----------------------------------------------------------------------------
(* The data.                                                               *)

\* A token is issued once: unused, then a live session, then perhaps a marker
\* of a displaced one, then gone.
Status == {"unused", "live", "displaced", "gone"}

\* What a snapshot says of the tokens.
View == [sessions : SUBSET Token, forced : SUBSET Token]
Nothing == [sessions |-> {}, forced |-> {}]

Having(status) == {t \in Token : store[t] = status}

Instance == 1..MaxInstances

Envelope == [kind : {"snapshot", "shutdown"}, instance : Instance,
             ahead : Nat, view : View]

\* open: the publisher's socket.  lost: a send on it fails.  reader: the thread
\* of the Messenger's listener that serves it, and held the envelope that thread
\* has verified and not yet applied.
Connection == [open : BOOLEAN, lost : BOOLEAN, queue : Seq(Envelope),
               reader : {"none", "reading", "applying"}, held : Seq(Envelope)]
Unconnected == [open |-> FALSE, lost |-> FALSE, queue |-> <<>>,
                reader |-> "none", held |-> <<>>]

\* ahead: sequence numbers the instance has used beyond the last accepted one.
\* sent: _last_snapshot_wire.  due: now >= next_heartbeat.
IdlePublisher == [at |-> "wait", conn |-> None, sent |-> None, view |-> Nothing,
                  due |-> TRUE, ahead |-> 0]

\* from: the connection the shown snapshot came over (for the properties only).
NoState == [active |-> FALSE, instance |-> None, age |-> 0, view |-> Nothing,
            from |-> None]

Init ==
    /\ store = [t \in Token |-> "unused"]
    /\ carbon = [instance |-> 1, running |-> TRUE]
    /\ pub = IdlePublisher
    /\ conns = [c \in Conn |-> Unconnected]
    /\ ipc = NoState
    /\ faults = 0

-----------------------------------------------------------------------------
(* The identity store of the Carbon server.                                *)

Login(t) ==
    /\ carbon.running /\ store[t] = "unused"
    /\ store' = [store EXCEPT ![t] = "live"]
    /\ UNCHANGED <<carbon, pub, conns, ipc, faults>>

\* A duplicate login: under one lock the old token becomes a marker and the
\* newcomer's becomes the session.
Displace(old, new) ==
    /\ carbon.running /\ store[old] = "live" /\ store[new] = "unused"
    /\ store' = [store EXCEPT ![old] = "displaced", ![new] = "live"]
    /\ UNCHANGED <<carbon, pub, conns, ipc, faults>>

\* The session's connection closes, or the marker is evicted by newer ones.
Retire(t) ==
    /\ carbon.running /\ store[t] \in {"live", "displaced"}
    /\ store' = [store EXCEPT ![t] = "gone"]
    /\ UNCHANGED <<carbon, pub, conns, ipc, faults>>

-----------------------------------------------------------------------------
(* The publisher thread.  Each turn of its loop takes a snapshot with two  *)
(* separate reads of the store, and sends it if it differs from the last   *)
(* one sent over this connection or a heartbeat is due.                    *)

Publishing(at) == carbon.running /\ pub.at = at

Connect(c) ==
    /\ Publishing("wait") /\ pub.conn = None
    /\ conns[c] = Unconnected
    /\ conns' = [conns EXCEPT ![c] = [@ EXCEPT !.open = TRUE, !.reader = "reading"]]
    /\ pub' = [pub EXCEPT !.conn = c, !.sent = None, !.due = TRUE]
    /\ UNCHANGED <<store, carbon, ipc, faults>>

\* What is read first.  The other way round, a token displaced between the two
\* reads would be in neither.
ReadOrder_ForcedFirst == <<"forced", "sessions">>
ReadOrder == <<"sessions", "forced">>

Read(n) == [pub.view EXCEPT ![ReadOrder[n]] =
               Having(IF ReadOrder[n] = "sessions" THEN "live" ELSE "displaced")]

ReadFirst ==
    /\ Publishing("wait") /\ pub.conn # None
    /\ pub' = [pub EXCEPT !.at = "second", !.view = Read(1)]
    /\ UNCHANGED <<store, carbon, conns, ipc, faults>>

ReadSecond ==
    /\ Publishing("second")
    /\ pub' = [pub EXCEPT !.at = "send", !.view = Read(2)]
    /\ UNCHANGED <<store, carbon, conns, ipc, faults>>

Sealed(kind) == [kind |-> kind, instance |-> carbon.instance,
                 ahead |-> pub.ahead + 1, view |-> pub.view]

\* sendall succeeds when the buffers take the line.  If the reader has closed
\* its end the line is swallowed and only the next send fails.
Accepts(c) == ~conns[c].lost /\ Len(conns[c].queue) < MaxQueue
Sent(c, kind) ==
    IF conns[c].reader = "none"
    THEN [conns[c] EXCEPT !.lost = TRUE]
    ELSE [conns[c] EXCEPT !.queue = Append(@, Sealed(kind))]

NothingToSend_OnlyChanges == pub.view = pub.sent
NothingToSend == pub.view = pub.sent /\ ~pub.due

Skip ==
    /\ Publishing("send") /\ NothingToSend
    /\ pub' = [pub EXCEPT !.at = "wait", !.view = Nothing]
    /\ UNCHANGED <<store, carbon, conns, ipc, faults>>

Send ==
    /\ Publishing("send") /\ ~NothingToSend /\ Accepts(pub.conn)
    /\ conns' = [conns EXCEPT ![pub.conn] = Sent(pub.conn, "snapshot")]
    /\ pub' = [pub EXCEPT !.at = "wait", !.sent = pub.view, !.view = Nothing,
                          !.due = FALSE, !.ahead = @ + 1]
    /\ UNCHANGED <<store, carbon, ipc, faults>>

\* The number is used up, the socket closed, and a later turn reconnects.
SendFails ==
    /\ Publishing("send") /\ ~NothingToSend /\ ~Accepts(pub.conn)
    /\ conns' = [conns EXCEPT ![pub.conn].open = FALSE]
    /\ pub' = [pub EXCEPT !.at = "wait", !.conn = None, !.view = Nothing, !.ahead = @ + 1]
    /\ UNCHANGED <<store, carbon, ipc, faults>>

\* stop(): the thread leaves its loop and sends a shutdown if it can.
Stop ==
    /\ Publishing("wait")
    /\ carbon' = [carbon EXCEPT !.running = FALSE]
    /\ conns' = IF pub.conn = None THEN conns
                ELSE [conns EXCEPT ![pub.conn] =
                         [IF Accepts(pub.conn) THEN Sent(pub.conn, "shutdown") ELSE @
                             EXCEPT !.open = FALSE]]
    /\ pub' = IdlePublisher
    /\ UNCHANGED <<store, ipc, faults>>

\* The process dies: what its sockets hold is still delivered.
Crash ==
    /\ carbon.running
    /\ carbon' = [carbon EXCEPT !.running = FALSE]
    /\ conns' = [c \in Conn |-> [conns[c] EXCEPT !.open = FALSE]]
    /\ pub' = IdlePublisher
    /\ UNCHANGED <<store, ipc, faults>>

\* A new process has a new instance id, an empty store and starts counting anew.
Start ==
    /\ ~carbon.running /\ carbon.instance < MaxInstances
    /\ carbon' = [instance |-> carbon.instance + 1, running |-> TRUE]
    /\ store' = [t \in Token |-> IF store[t] = "unused" THEN "unused" ELSE "gone"]
    /\ UNCHANGED <<pub, conns, ipc, faults>>

-----------------------------------------------------------------------------
(* The Messenger process: a thread per connection, and the state.          *)

\* Every sequence number of instance i, k further back.
Rebased_Unclipped(s, i, k) ==
    [n \in DOMAIN s |-> IF s[n].instance # i THEN s[n]
                        ELSE [s[n] EXCEPT !.ahead = @ - k]]
Rebased(s, i, k) ==
    [n \in DOMAIN s |-> IF s[n].instance # i THEN s[n]
                        ELSE [s[n] EXCEPT !.ahead = IF @ > k THEN @ - k ELSE 0]]

Closed(conn) == [conn EXCEPT !.reader = "none", !.queue = <<>>]

\* _verify, under the sequence lock: the number is recorded as the last one.
Verify(c) ==
    LET e == Head(conns[c].queue) IN
    /\ conns[c].reader = "reading" /\ conns[c].queue # <<>>
    /\ e.ahead > 0
    /\ conns' = [d \in Conn |->
                    LET queue == IF d = c THEN Tail(conns[d].queue) ELSE conns[d].queue IN
                    [conns[d] EXCEPT
                        !.queue = Rebased(queue, e.instance, e.ahead),
                        !.reader = IF d = c THEN "applying" ELSE @,
                        !.held = IF d = c THEN <<[e EXCEPT !.ahead = 0]>> ELSE @]]
    /\ pub' = [pub EXCEPT !.ahead = IF e.instance = carbon.instance /\ carbon.running
                                    THEN @ - e.ahead ELSE @]
    /\ UNCHANGED <<store, carbon, ipc, faults>>

\* A number not above the last one: the thread closes its connection.
Reject(c) ==
    /\ conns[c].reader = "reading" /\ conns[c].queue # <<>>
    /\ Head(conns[c].queue).ahead = 0
    /\ conns' = [conns EXCEPT ![c] = Closed(@)]
    /\ UNCHANGED <<store, carbon, pub, ipc, faults>>

\* The envelope has waited longer than max_clock_skew_seconds.
RejectLate(c) ==
    /\ faults < MaxFaults
    /\ conns[c].reader = "reading" /\ conns[c].queue # <<>>
    /\ conns' = [conns EXCEPT ![c] = Closed(@)]
    /\ faults' = faults + 1
    /\ UNCHANGED <<store, carbon, pub, ipc>>

ClearedBy_Anyone(instance) == TRUE
ClearedBy(instance) == ipc.instance \in {None, instance}

\* CarbonMessengerIPCState.apply, after the sequence lock has been let go.
Applied(e, c) ==
    IF e.kind = "snapshot"
    THEN [active |-> TRUE, instance |-> e.instance, age |-> 0, view |-> e.view, from |-> c]
    ELSE IF ClearedBy(e.instance)
         THEN [ipc EXCEPT !.active = FALSE, !.view = Nothing, !.age = 0]
         ELSE ipc

Apply(c) ==
    /\ conns[c].reader = "applying"
    /\ ipc' = Applied(conns[c].held[1], c)
    /\ conns' = [conns EXCEPT ![c] = [@ EXCEPT !.reader = "reading", !.held = <<>>]]
    /\ UNCHANGED <<store, carbon, pub, faults>>

\* recv reports the end of the stream, or an error.
EndOfStream(c) ==
    /\ conns[c].reader = "reading" /\ conns[c].queue = <<>>
    /\ ~conns[c].open \/ conns[c].lost
    /\ conns' = [conns EXCEPT ![c] = Closed(@)]
    /\ UNCHANGED <<store, carbon, pub, ipc, faults>>

\* Both ends are done with the connection.
Discard(c) ==
    /\ ~conns[c].open /\ conns[c].reader = "none" /\ conns[c] # Unconnected
    /\ conns' = [conns EXCEPT ![c] = Unconnected]
    /\ UNCHANGED <<store, carbon, pub, ipc, faults>>

\* The connection breaks and loses what it holds.
Break(c) ==
    /\ faults < MaxFaults /\ conns[c].open /\ ~conns[c].lost
    /\ conns' = [conns EXCEPT ![c] = [@ EXCEPT !.lost = TRUE, !.queue = <<>>]]
    /\ faults' = faults + 1
    /\ UNCHANGED <<store, carbon, pub, ipc>>

\* The Messenger process restarts: its threads, its state and the sequence
\* numbers it remembered are gone.
RestartMessenger ==
    /\ faults < MaxFaults
    /\ conns' = [c \in Conn |-> [Closed(conns[c]) EXCEPT !.held = <<>>]]
    /\ ipc' = NoState
    /\ faults' = faults + 1
    /\ UNCHANGED <<store, carbon, pub>>

\* One heartbeat interval passes.
Tick ==
    /\ ipc' = [ipc EXCEPT !.age = IF @ > MaxAge THEN @ ELSE @ + 1]
    /\ pub' = [pub EXCEPT !.due = TRUE]
    /\ UNCHANGED <<store, carbon, conns, faults>>

\* _usable_locked, and what the Messenger then asks of the state.
Usable_Ever == ipc.active
Usable == ipc.active /\ ipc.age <= MaxAge
ResolveSession(t) == Usable /\ t \in ipc.view.sessions
ForcedLogoff(t) == Usable /\ t \in ipc.view.forced

-----------------------------------------------------------------------------
Publish == ReadFirst \/ ReadSecond \/ Skip \/ Send \/ SendFails

Serve(c) == Verify(c) \/ Reject(c) \/ Apply(c) \/ EndOfStream(c) \/ Discard(c)

Next ==
    \/ \E t \in Token : Login(t) \/ Retire(t)
    \/ \E old, new \in Token : Displace(old, new)
    \/ \E c \in Conn : Connect(c) \/ Serve(c) \/ RejectLate(c) \/ Break(c)
    \/ Publish \/ Stop \/ Crash \/ Start \/ RestartMessenger \/ Tick

Spec == Init /\ [][Next]_vars

\* Both processes' threads keep running and the clock advances.  Nothing forces
\* logins, faults, crashes or restarts.
Fairness ==
    /\ WF_vars(Publish) /\ WF_vars(\E c \in Conn : Connect(c)) /\ WF_vars(Tick)
    /\ \A c \in Conn : WF_vars(Serve(c))

FairSpec == Spec /\ Fairness

-----------------------------------------------------------------------------
(* Properties.                                                             *)

TypeOK ==
    /\ store \in [Token -> Status]
    /\ carbon \in [instance : Instance, running : BOOLEAN]
    /\ pub \in [at : {"wait", "second", "send"}, conn : Conn \union {None},
               sent : View \union {None}, view : View, due : BOOLEAN, ahead : Nat]
    /\ conns \in [Conn -> Connection]
    /\ ipc \in [active : BOOLEAN, instance : Instance \union {None}, age : Nat,
               view : View, from : Conn \union {None}]
    /\ faults \in Nat

Shown(t) == t \in ipc.view.sessions \union ipc.view.forced

\* While snapshots keep coming over one connection, a token that the Messenger
\* has seen leaves its view only once the identity store has dropped it: a login
\* displaced between the publisher's two reads turns into a forced logoff, it
\* does not vanish (which would answer the client with INVALID_SESSION).
TokensLeaveOnlyWhenDropped ==
    [][\A t \in Token :
          /\ Shown(t) /\ ipc'.active /\ ipc'.from = ipc.from
          => Shown(t)' \/ store[t] = "gone"]_vars

\* The Messenger forgets the sessions of the running Carbon process only by
\* restarting itself: the shutdown of an earlier process, however late it is
\* applied, leaves the newer one's state alone.
RunningInstanceStaysShown ==
    [][/\ ipc.active /\ ipc.instance = carbon.instance /\ carbon.running
       => ipc'.active \/ faults' > faults]_vars

\* What a slow thread installs late, a lost send hid or a restart wiped out is
\* repaired: in the end the Messenger shows the running process's store.
Converges ==
    <>[](carbon.running =>
            /\ ipc.active /\ ipc.instance = carbon.instance
            /\ ipc.view = [sessions |-> Having("live"), forced |-> Having("displaced")])

\* Once Carbon is down for good, stopped or crashed, no token resolves.
GoesDark ==
    <>[](~carbon.running => \A t \in Token : ~ResolveSession(t) /\ ~ForcedLogoff(t))

\* The module docstring of server/common/ipc.py: the transport "rejects stale or
\* replayed envelopes".  So within one Carbon process a session that was shown
\* as displaced is not shown as live again.
StaleIsRejected ==
    [][\A t \in Token :
          /\ t \in ipc.view.forced /\ ipc'.instance = ipc.instance
          => t \notin ipc'.view.sessions \ ipc'.view.forced]_vars

=============================================================================
