------------------------------- MODULE MCLive -------------------------------
(***************************************************************************)
(* Instances for the liveness of the Carbon sessions, the Carbon rooms and *)
(* the pump of the website: a behaviour is one of a single instance, that  *)
(* "part" names, while the others stay in their initial states, and the    *)
(* fairness is that of its module.                                         *)
(***************************************************************************)
EXTENDS Integers, Sequences, FiniteSets

CONSTANTS Unset, a1, f1, u1, u2, g1, b1, b2, p1, p2

VARIABLES
    part,
    log, barred, lease, tokens, forced, issued, phase, login, ident, key, readOnly, gate,
    since, room, cursor, job,
    r_rooms, r_theater, r_client, r_binding, r_index, r_wire, r_race, r_reconnect,
    s_stored, s_db, s_cache, s_job, s_events, s_pump, s_visitors, s_past

carbonVars ==
    <<log, barred, lease, tokens, forced, issued, phase, login, ident, key, readOnly,
      gate, since, room, cursor, job>>
roomsVars ==
    <<r_rooms, r_theater, r_client, r_binding, r_index, r_wire, r_race, r_reconnect>>
socialVars ==
    <<s_stored, s_db, s_cache, s_job, s_events, s_pump, s_visitors, s_past>>
vars == <<part, carbonVars, roomsVars, socialVars>>

\* One account, one connection, two logins, two policy events.
Carbon == INSTANCE CarbonSessions WITH
    None <- Unset, Account <- {a1}, Fesl <- {f1}, Theater <- {},
    Action <- {"ban", "unban", "kick"}, Grace <- 1, MaxEvents <- 2, MaxTokens <- 2

\* A room of a client for two players, and two addresses.
Rooms == INSTANCE CarbonRooms WITH
    Users <- {u1, u2}, Gids <- {g1}, Addrs <- {b1, b2}, Kinds <- {"client"},
    MinCapacity <- 2, MaxCapacity <- 2, BeforeReady <- TRUE, AfterReady <- FALSE,
    rooms <- r_rooms, theater <- r_theater, client <- r_client, binding <- r_binding,
    index <- r_index, wire <- r_wire, race <- r_race, reconnect <- r_reconnect

\* A row of the website, and a crash.
Social == INSTANCE SocialRelations WITH
    None <- Unset, Personas <- {p1, p2}, Threads <- {}, Events <- {1}, MaxFaults <- 1,
    stored <- s_stored, db <- s_db, cache <- s_cache, job <- s_job, events <- s_events,
    pump <- s_pump, visitors <- s_visitors, past <- s_past

AllInit ==
    /\ part \in {"carbon", "rooms", "social"}
    /\ Carbon!Init /\ Rooms!Init /\ Social!Init

InCarbon == part = "carbon" /\ Carbon!Next /\ UNCHANGED <<part, roomsVars, socialVars>>
InRooms == part = "rooms" /\ Rooms!Next /\ UNCHANGED <<part, carbonVars, socialVars>>
InSocial == part = "social" /\ Social!Next /\ UNCHANGED <<part, carbonVars, roomsVars>>

AllNext == InCarbon \/ InRooms \/ InSocial

\* Time passes, the monitor and the threads of the connections run.
CarbonFairness ==
    /\ WF_carbonVars(part = "carbon" /\ Carbon!Tick)
    /\ WF_carbonVars(part = "carbon" /\ Carbon!Enforce)
    /\ WF_carbonVars(part = "carbon" /\ Carbon!Expire(f1))
    /\ WF_carbonVars(/\ part = "carbon"
                     /\ \/ Carbon!ReplaceClaim(f1)
                        \/ Carbon!Establish(f1)
                        \/ Carbon!LoginFails(f1))
    /\ WF_carbonVars(part = "carbon" /\ Carbon!Revoke(f1))

\* The maintenance of the rooms runs.
RoomsFairness ==
    /\ \A k \in {b1, b2} :
          /\ WF_roomsVars(part = "rooms" /\ Rooms!PublishLeaves(k))
          /\ WF_roomsVars(part = "rooms" /\ Rooms!Drain(k))
          /\ WF_roomsVars(part = "rooms" /\ Rooms!ExpireOffline(k))
    /\ \A u \in {u1, u2} : WF_roomsVars(part = "rooms" /\ Rooms!ExpireJoin(g1, u))

\* The thread of the pump runs, and the process is started again.
SocialFairness ==
    /\ WF_socialVars(part = "social" /\ Social!PumpStarts)
    /\ WF_socialVars(part = "social" /\ Social!Sync)
    /\ WF_socialVars(part = "social" /\ Social!Claim(1))
    /\ WF_socialVars(part = "social" /\ Social!FindsNothing)
    /\ WF_socialVars(part = "social" /\ (Social!Expires \/ Social!ProcessCommand))
    /\ WF_socialVars(part = "social" /\ Social!PumpReloads)
    /\ WF_socialVars(part = "social" /\ \E sent \in BOOLEAN : Social!ProcessMessage(sent))
    /\ WF_socialVars(part = "social" /\ Social!Finish)

LiveSpec ==
    /\ AllInit /\ [][AllNext]_vars
    /\ CarbonFairness /\ RoomsFairness /\ SocialFairness

\* The race of the room goes no further than the countdown: what the maintenance
\* owes an endpoint or a member is the same in every phase.
UpToCountdown == r_race[g1].phase \in {"none", "setup", "countdown"}

-----------------------------------------------------------------------------
(* Properties of the parts *)

\* A drain window ends, even when the event is retried for ever (account_policy.py).
DrainingConnectionsClose == Carbon!DrainingConnectionsClose

\* Unless cleanups fail for ever, the monitor passes every event (account_policy.py).
EveryEventDelivered == Carbon!EveryEventDelivered

\* A room whose host announced its exit is drained (endpoint_lifecycle.py).
HostExitDrains == Rooms!HostExitDrains

\* A player who vanished leaves its rooms, bound or not (maintenance.py).
GoneMembersLeave == Rooms!GoneMembersLeave

\* An event of the website is answered, whatever crashes, from the time on that no
\* visitor is shown (web_social.py).
AnsweredWithoutVisitors == Social!AnsweredWithoutVisitors
=============================================================================
