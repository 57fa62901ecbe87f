-------------------------- MODULE SocialRelations --------------------------
(***************************************************************************)
(* Friendships, requests and blocks: SocialService over the account        *)
(* database, and WebSocialEventPump, which carries out what the website    *)
(* asks for.                                                               *)
(*                                                                         *)
(* A command of a game, on the thread of its connection, is a transaction  *)
(* on the relations and, as a second step under the lock of the service, a *)
(* reload of the cache that the rosters are read from.  The website leaves *)
(* its commands in a table.  The pump claims one, carries it out and       *)
(* writes the answer, in three transactions; the process may crash between *)
(* any two of them.                                                        *)
(***************************************************************************)
EXTENDS Integers, FiniteSets

CONSTANTS
    Personas,
    Threads,     \* the connections whose games send roster commands
    Events,      \* rows the website may write; 1 .. n, in the order of event_id
    MaxFaults,   \* bound: crashes of the process and reloads that fail
    None

\* Assumed where the module is instantiated.
EventsAssumption == Events \subseteq Nat /\ None \notin Events

VARIABLES
    stored,    \* the rows of personas
    db,        \* social_relations: <<source, target, relation>>
    cache,     \* _friends, _pending and _blocks
    job,       \* per thread: "idle", or "reload" after its transaction
    events,    \* web_social_events
    pump,      \* the thread of the pump
    visitors,  \* whether the website shows a visitor of a known persona
    past       \* history that the properties need, and the faults so far

vars == <<stored, db, cache, job, events, pump, visitors, past>>

web == <<events, pump, visitors>>

Commands == {"request", "accept", "decline", "remove", "block", "unblock"}
Actions == Commands \union {"message"}
-----------------------------------------------------------------------------
Row(p, q, r) == <<p, q, r>> \in db

Both(p, q, r) == {<<p, q, r>>, <<q, p, r>>}

Blocked(p, q) == Row(p, q, "blocked") \/ Row(q, p, "blocked")

\* _sqlite_request_friend: a request that meets the other's is a friendship.
Requested(p, q) ==
    IF Blocked(p, q) \/ Row(p, q, "friend") THEN db
    ELSE IF Row(q, p, "pending")
    THEN (db \ Both(p, q, "pending")) \union Both(p, q, "friend")
    ELSE db \union {<<p, q, "pending">>}

\* _sqlite_respond_friend: p answers the request of q.
Answered(p, q, accepted) ==
    IF ~Row(q, p, "pending") THEN db
    ELSE (db \ {<<q, p, "pending">>})
             \union (IF accepted THEN Both(p, q, "friend") ELSE {})

Removed(p, q) == db \ (Both(p, q, "friend") \union Both(p, q, "pending"))

\* _sqlite_set_blocked, which a block ends the rest with.
SetBlocked(p, q) == Removed(p, q) \union {<<p, q, "blocked">>}

Result(command, p, q) ==
    CASE command = "request" -> Requested(p, q)
      [] command = "accept"  -> Answered(p, q, TRUE)
      [] command = "decline" -> Answered(p, q, FALSE)
      [] command = "remove"  -> Removed(p, q)
      [] command = "block"   -> SetBlocked(p, q)
      [] command = "unblock" -> db \ {<<p, q, "blocked">>}

\* Whether the command goes on to reload the cache: only a repeated request does so
\* without having changed a row.
Reloads(command, p, q) ==
    \/ Result(command, p, q) # db
    \/ command = "request" /\ Row(p, q, "pending")

Known(p, q) == {p, q} \subseteq stored
-----------------------------------------------------------------------------
Init ==
    /\ stored = Personas
    /\ db = {} /\ cache = {}
    /\ job = [t \in Threads |-> "idle"]
    /\ events = [e \in Events |->
                    [status |-> "none", action |-> None, source |-> None,
                     target |-> None, old |-> FALSE]]
    /\ pump = [on |-> FALSE, holds |-> None, stage |-> "idle", ok |-> FALSE, due |-> TRUE]
    /\ visitors = FALSE
    /\ past = [ran |-> [e \in Events |-> 0], cut |-> {}, dropped |-> FALSE, faults |-> 0]

\* The transaction of a roster command.
Command(t, command, p, q) ==
    /\ job[t] = "idle"
    /\ p # q /\ Known(p, q)
    /\ db' = Result(command, p, q)
    /\ job' = [job EXCEPT ![t] = IF Reloads(command, p, q) THEN "reload" ELSE "idle"]
    /\ UNCHANGED <<stored, cache, web, past>>

\* _load_sqlite_locked reads everything anew.
Loaded ==
    /\ cache' = db
    /\ past' = [past EXCEPT !.dropped = FALSE]

Reload(t) ==
    /\ job[t] = "reload"
    /\ Loaded
    /\ job' = [job EXCEPT ![t] = "idle"]
    /\ UNCHANGED <<stored, db, web>>

\* The database is busy: the cache was cleared already, and the command raises.
LoadFails ==
    /\ past.faults < MaxFaults
    /\ cache' = {}

ReloadFails(t) ==
    /\ job[t] = "reload"
    /\ LoadFails
    /\ past' = [past EXCEPT !.dropped = TRUE, !.faults = @ + 1]
    /\ job' = [job EXCEPT ![t] = "idle"]
    /\ UNCHANGED <<stored, db, web>>

\* A persona is deleted with its rows, by code that does not know the service;
\* later another account may take the name.
DeletePersona(p) ==
    /\ stored' = stored \ {p}
    /\ p \in stored
    /\ db' = {r \in db : p \notin {r[1], r[2]}}
    /\ past' = [past EXCEPT !.dropped = TRUE]
    /\ UNCHANGED <<cache, job, web>>

CreatePersona(p) ==
    /\ p \notin stored
    /\ stored' = stored \union {p}
    /\ UNCHANGED <<db, cache, job, web, past>>
-----------------------------------------------------------------------------
\* The website.
WebAsks(e, action, p, q) ==
    /\ events[e].status = "none"
    /\ \A d \in Events : d < e => events[d].status # "none"
    /\ p # q
    /\ events' = [events EXCEPT ![e] = [status |-> "pending", action |-> action,
                                        source |-> p, target |-> q, old |-> FALSE]]
    /\ UNCHANGED <<stored, db, cache, job, pump, visitors, past>>

VisitorsChange ==
    /\ visitors' = ~visitors
    /\ UNCHANGED <<stored, db, cache, job, events, pump, past>>

\* The thirty seconds of an event pass.
Ages(e) ==
    /\ events[e].status \in {"pending", "processing"} /\ ~events[e].old
    /\ events' = [events EXCEPT ![e].old = TRUE]
    /\ UNCHANGED <<stored, db, cache, job, pump, visitors, past>>

\* Plausible bugs: an event that a crash interrupted is processed again, or is left.
Interrupted_Retried(e) ==
    IF events[e].status = "processing" THEN "pending" ELSE events[e].status

Interrupted_Left(e) == events[e].status

\* "Do not replay a message whose delivery may have preceded a crash."
Interrupted(e) ==
    IF events[e].status = "processing" THEN "error" ELSE events[e].status

PumpStarts ==
    /\ ~pump.on
    /\ pump' = [pump EXCEPT !.on = TRUE, !.due = TRUE]
    /\ events' = [e \in Events |-> [events[e] EXCEPT !.status = Interrupted(e)]]
    /\ past' = [past EXCEPT !.cut = @ \union {e \in Events : events[e].status = "processing"}]
    /\ UNCHANGED <<stored, db, cache, job, visitors>>

\* _sync_presence: it registers the visitors by a method that the service does not have.
SyncPresence == ~visitors

\* A round of the pump: the presence, when half a second passed since it was read; the
\* first event; and its processing.
Sync ==
    /\ pump.on /\ pump.stage = "idle"
    /\ pump.due => SyncPresence
    /\ pump' = [pump EXCEPT !.due = FALSE, !.stage = "looking"]
    /\ UNCHANGED <<stored, db, cache, job, events, visitors, past>>

\* Half a second passes.
SyncFallsDue ==
    /\ pump.on /\ pump.stage = "idle" /\ ~pump.due
    /\ pump' = [pump EXCEPT !.due = TRUE]
    /\ UNCHANGED <<stored, db, cache, job, events, visitors, past>>

Claim(e) ==
    /\ pump.stage = "looking"
    /\ events[e].status = "pending"
    /\ \A d \in Events : d < e => events[d].status # "pending"
    /\ events' = [events EXCEPT ![e].status = "processing"]
    /\ pump' = [pump EXCEPT !.holds = e, !.stage = "claimed"]
    /\ UNCHANGED <<stored, db, cache, job, visitors, past>>

FindsNothing ==
    /\ pump.stage = "looking"
    /\ \A e \in Events : events[e].status # "pending"
    /\ pump' = [pump EXCEPT !.stage = "idle"]
    /\ UNCHANGED <<stored, db, cache, job, events, visitors, past>>

Answers(ok) == pump' = [pump EXCEPT !.stage = "answer", !.ok = ok]

Ran(e) == past' = [past EXCEPT !.ran[e] = @ + 1]

Expires ==
    /\ pump.stage = "claimed" /\ events[pump.holds].old
    /\ Answers(FALSE)
    /\ UNCHANGED <<stored, db, cache, job, events, visitors, past>>

\* What SocialService accepts: a command that changes nothing may be accepted too.
Accepted(command, p, q) ==
    CASE command \in {"accept", "decline"} -> Row(q, p, "pending")
      [] command = "request" -> ~Blocked(p, q)
      [] OTHER -> TRUE

\* _process of a relation: the transaction, and the reload when there is one.
ProcessCommand ==
    LET e == pump.holds
        p == events[e].source
        q == events[e].target
        command == events[e].action
    IN  /\ pump.stage = "claimed" /\ ~events[e].old
        /\ command \in Commands
        /\ IF Known(p, q) /\ Accepted(command, p, q)
           THEN /\ db' = Result(command, p, q)
                /\ Ran(e)
                /\ pump' = [pump EXCEPT !.stage = IF Reloads(command, p, q)
                                                  THEN "reload" ELSE "answer",
                                        !.ok = TRUE]
           ELSE /\ UNCHANGED <<db, past>>
                /\ Answers(command = "remove")
        /\ UNCHANGED <<stored, cache, job, events, visitors>>

PumpReloads ==
    /\ pump.stage = "reload"
    /\ Loaded
    /\ Answers(TRUE)
    /\ UNCHANGED <<stored, db, job, events, visitors>>

PumpReloadFails ==
    /\ pump.stage = "reload"
    /\ LoadFails
    /\ past' = [past EXCEPT !.dropped = TRUE, !.faults = @ + 1, !.cut = @ \union {pump.holds}]
    /\ Answers(FALSE)
    /\ UNCHANGED <<stored, db, job, events, visitors>>

\* _process of a message: refused across a block, lost when nobody receives it, and
\* stored by the pump once it was delivered to a game.
ProcessMessage(delivered) ==
    LET e == pump.holds
    IN  /\ pump.stage = "claimed" /\ ~events[e].old
        /\ events[e].action = "message"
        /\ LET sent == SyncPresence /\ delivered
                       /\ ~Blocked(events[e].source, events[e].target)
           IN  /\ IF sent THEN Ran(e) ELSE UNCHANGED past
               /\ Answers(sent)
        /\ UNCHANGED <<stored, db, cache, job, events, visitors>>

Finish ==
    /\ pump.stage = "answer"
    /\ events' = [events EXCEPT ![pump.holds].status = IF pump.ok THEN "done" ELSE "error"]
    /\ pump' = [pump EXCEPT !.holds = None, !.stage = "idle", !.ok = FALSE]
    /\ UNCHANGED <<stored, db, cache, job, visitors, past>>

\* The process ends; the next one loads the cache before it starts the pump.
Crash ==
    /\ past.faults < MaxFaults
    /\ cache' = db
    /\ job' = [t \in Threads |-> "idle"]
    /\ pump' = [on |-> FALSE, holds |-> None, stage |-> "idle", ok |-> FALSE, due |-> TRUE]
    /\ past' = [past EXCEPT !.faults = @ + 1, !.dropped = FALSE]
    /\ UNCHANGED <<stored, db, events, visitors>>
-----------------------------------------------------------------------------
Next ==
    \/ \E t \in Threads :
          \/ \E c \in Commands, p, q \in Personas : Command(t, c, p, q)
          \/ Reload(t) \/ ReloadFails(t)
    \/ \E p \in Personas : DeletePersona(p) \/ CreatePersona(p)
    \/ \E e \in Events :
          \/ \E a \in Actions, p, q \in Personas : WebAsks(e, a, p, q)
          \/ Ages(e)
          \/ Claim(e)
    \/ VisitorsChange
    \/ PumpStarts \/ Sync \/ SyncFallsDue \/ FindsNothing
    \/ Expires \/ ProcessCommand \/ PumpReloads \/ PumpReloadFails
    \/ \E delivered \in BOOLEAN : ProcessMessage(delivered)
    \/ Finish
    \/ Crash

Spec == Init /\ [][Next]_vars
-----------------------------------------------------------------------------
\* The variables have their types.
TypeOK ==
    /\ stored \subseteq Personas
    /\ db \subseteq (Personas \X Personas \X {"friend", "pending", "blocked"})
    /\ cache \subseteq (Personas \X Personas \X {"friend", "pending", "blocked"})
    /\ job \in [Threads -> {"idle", "reload"}]
    /\ \A e \in Events :
          /\ events[e].status \in {"none", "pending", "processing", "done", "error"}
          /\ events[e].status # "none" => events[e].action \in Actions
    /\ pump.stage \in {"idle", "looking", "claimed", "reload", "answer"}
    /\ (pump.stage \in {"idle", "looking"}) <=> (pump.holds = None)
    /\ pump.holds # None => events[pump.holds].status = "processing"
    /\ visitors \in BOOLEAN

\* Friendship is mutual, a request stands one way only and never beside a friendship,
\* and nothing but blocks stands across a block, whatever two players do to each other
\* at once (social.py:268-438, transactions that each see one command).
RelationsAreConsistent ==
    \A p, q \in Personas :
        /\ Row(p, q, "friend") => Row(q, p, "friend")
        /\ Row(p, q, "pending") => ~Row(q, p, "pending") /\ ~Row(p, q, "friend")
        /\ Blocked(p, q) => ~Row(p, q, "friend") /\ ~Row(p, q, "pending")

\* The cache that the rosters are read from shows the database once no command is
\* between its transaction and its reload (social.py:219-251, 335-337), as long as no
\* persona was deleted and no reload failed since.
CacheIsCurrent ==
    \/ cache = db
    \/ \E t \in Threads : job[t] = "reload"
    \/ pump.stage = "reload"
    \/ past.dropped

\* A command of the website is carried out at most once, across crashes at any point;
\* it is answered with success only if it was, and with an error although it was only
\* when a crash or a failed reload cut it short (web_social.py:80-96, 172-223).
WebCommandsRunOnce ==
    \A e \in Events :
        /\ past.ran[e] <= 1
        /\ events[e].status = "error" /\ past.ran[e] = 1 => e \in past.cut
        /\ events[e].status = "done" =>
               past.ran[e] = 1 \/ events[e].action = "remove"

\* The pump takes up what the website asks for: from the time on that the website
\* shows no visitor, every event is answered, whatever crashed before.  (While it
\* shows one, the pump gets no further than _sync_presence: web_social.py:156,
\* 360-392.)
AnsweredWithoutVisitors ==
    <>[](~visitors) =>
        \A e \in Events :
            (events[e].status = "pending") ~> (events[e].status \in {"done", "error"})

\* The thread of the pump runs whenever it can, and the process is started again.
Fairness ==
    /\ WF_vars(PumpStarts) /\ WF_vars(Sync) /\ WF_vars(FindsNothing)
    /\ \A e \in Events : WF_vars(Claim(e))
    /\ WF_vars(Expires \/ ProcessCommand) /\ WF_vars(PumpReloads)
    /\ WF_vars(\E delivered \in BOOLEAN : ProcessMessage(delivered))
    /\ WF_vars(Finish)

FairSpec == Spec /\ Fairness
=============================================================================
