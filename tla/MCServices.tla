----------------------------- MODULE MCServices -----------------------------
(***************************************************************************)
(* Services for TLC: values of some constants, and the states that the run *)
(* of each component is bounded to.                                        *)
(***************************************************************************)
EXTENDS Services, SequencesExt, TLC

CONSTANTS host, ann, bob, cat, dan, t1, k1, k2, k3, hostToken, guestToken, nextToken

Symmetry == Permutations({ann, bob})

(***************************************************************************)
(* SessionSetup: one helper that may be lost, and two that stay.           *)
(***************************************************************************)
su_race == x1
su_wire == x2
su_flight == x3
su_past == x5

\* The second helper comes when the first is confirmed and the host has sent its
\* state 7, and uploads no third generation.
FewHelpers ==
    LET C == su_wire[cat]
        D == su_wire[dan]
        one == D = None /\ su_past.edits + su_past.drops <= 2
        two == /\ su_past.drops = 0 /\ su_past.early = {}
               /\ su_past.edits = 1 => su_race.event = 1
               /\ C # None /\ C.session = "confirmed"
               /\ su_race.state7 /\ su_race.attributes # None /\ su_race.context
               /\ D # None => D.generation <= 2
               /\ D # None => Len(su_flight[host]) + Len(su_flight[cat]) + Len(su_flight[dan]) <= 2
               /\ \A p \in {host, cat, dan} : Len(su_flight[p]) <= 2
    IN one \/ two

(***************************************************************************)
(* RaceStart: a host and a guest, in a Challenge room and in another.      *)
(***************************************************************************)
st_race == x1
st_wire == x3
st_flight == x4
st_past == x5

\* Two publications wait for their acknowledgements, one of them the host's, or one
\* after a player was lost or in a second race; a race loads when no timer is retried,
\* while session objects are exchanged nothing else is, and only the first race, with
\* nobody lost, has a second car.
FewWaiting ==
    LET challenge == part = "challenge start"
        loads == {"loading", "racing", "finished"}
        live == {p \in {host, cat} : st_wire[p] # None}
        faults == st_past.drops + st_past.races
    IN /\ Len(st_flight[host]) <= 1
       /\ Len(st_flight[host]) + Len(st_flight[cat]) <= (IF faults > 1 THEN 1 ELSE 2)
       /\ faults <= 2 /\ faults + st_past.seeds <= (IF challenge THEN 3 ELSE 2)
       /\ st_race.timer <= (IF challenge \/ faults > 1 THEN 1 ELSE 2)
       /\ st_past.entered # {} => st_race.phase \in loads
       /\ st_race.cars # {} => st_race.left # "long"
       /\ 2 \in st_race.cars => 1 \in st_race.cars /\ faults = 1
       /\ \A p \in live :
            /\ st_wire[p].seen => st_race.phase \in loads
            /\ st_wire[p].allocated => st_wire[p].retry \/ st_wire[p].timer # 0
            /\ st_race.phase \in loads =>
                  ~st_wire[p].retry /\ (st_wire[p].allocated => st_race.cars = {})
       /\ Start!Incomplete # {} =>
            /\ st_flight[host] = <<>> /\ st_flight[cat] = <<>>
            /\ \A p \in live : ~st_wire[p].retry /\ ~st_wire[p].allocated /\ ~st_wire[p].asked

(***************************************************************************)
(* RaceResults: two players, ranked and unranked.                          *)
(***************************************************************************)
\* One player wins, or the other does, or one did not finish.
SomeReports ==
    [car : {1, 2}, rows : {1 :> 1 @@ 2 :> 2, 1 :> 2 @@ 2 :> 1, 1 :> 1 @@ 2 :> -1}]

rs_bound == x2
rs_tracker == x4
rs_relayed == x5
rs_beat == x8
rs_race == x9
rs_finals == x10

\* A second race is one without a player who beat another's time.
FewResults ==
    /\ Cardinality(rs_finals) <= (IF part = "results" THEN 2 ELSE 1)
    /\ rs_relayed # {} => rs_tracker = Results!Fresh
    /\ rs_bound # {host, cat} => rs_relayed = {} /\ rs_race.number <= 1
    /\ rs_race.number = 2 => rs_beat = {}

(***************************************************************************)
(* ReliablePublication: sequence numbers of four bits, that wrap around    *)
(* during the join; two lives of the endpoint, one lost or doubled packet. *)
(***************************************************************************)
OneRetry == [initial |-> 1, maximum |-> 1, retries |-> 1, timeout |-> 2]

pb_server == x1
pb_toClient == x2
pb_toServer == x3
pb_client == x4
pb_faults == x5
pb_extras == x6

\* Two datagrams are under way, of the second life only one; a further message is
\* published in the first life, alone and unspoilt.
FewInFlight ==
    LET fresh == {x \in pb_toClient : x.life = pb_server.life}
                 \union {m \in pb_toServer : m.dial = pb_client.dial}
    IN /\ ~pb_server.left
       /\ Cardinality(pb_toClient) + Cardinality(pb_toServer)
             <= (IF pb_client.dial = 1 /\ pb_server.life = 1 THEN 2 ELSE 2 - pb_faults)
       /\ pb_server.life > 1 => Cardinality(fresh) <= 1
       /\ pb_extras > 0 =>
             /\ pb_faults = 0 /\ pb_server.life = 1
             /\ Cardinality(pb_toClient) + Cardinality(pb_toServer) <= 1

(***************************************************************************)
(* CarbonMessenger: a host with one connection, a guest with two, of       *)
(* one token or of two.  Invitations, presence views and a lost IPC feed   *)
(* are taken one at a time; with three connections, nothing else is under  *)
(* way while one of the guest's is told to leave.                          *)
(***************************************************************************)
PersonaOfToken == hostToken :> host @@ guestToken :> cat @@ nextToken :> cat

me_ipc == x1
me_room == x2
me_conn == x3
me_job == x4
me_armed == x9
me_seen == x11

InOrder ==
    /\ me_conn[k1].token \in {None, hostToken} /\ me_conn[k2].token \in {None, guestToken}
    /\ me_conn[k3].token \in {None, guestToken, nextToken}
    /\ me_ipc.token[nextToken] # "live" /\ me_ipc.token[hostToken] \in {"none", "live"}
    /\ me_conn[k1].phase \in {"off", "auth"} /\ ~me_conn[k1].ready
    /\ me_conn[k1].phase = "off" => \A k \in {k2, k3} : me_conn[k].phase = "off"
    /\ me_conn[k3].phase = "off" \/ me_conn[k2].phase \in {"auth", "gone"}
    /\ me_conn[k3].phase # "waiting"
    /\ me_conn[k3].phase = "off" \/ me_conn[k3].forced \/ ~me_conn[k3].ready
       \/ me_conn[k3].show = "CHAT"
    /\ \A k \in {k2, k3} : me_conn[k].muted = {} /\ me_seen[k][host] = "unknown"
    /\ Cardinality({k \in {k1, k2, k3} : me_job[k] # Social!Messenger!Idle})
          <= (IF me_conn[k3].phase = "off" THEN 2 ELSE 1)

OneMatterAtATime ==
    LET invites == \/ me_room # [p \in {host, cat} |-> "out"]
                   \/ me_armed # [p \in {host, cat} |-> None]
        views == \E k \in {k1, k2, k3} :
                    \/ me_conn[k].muted # {} \/ me_conn[k].ready
                    \/ \E p \in {host, cat} : me_seen[k][p] # "unknown"
        lost == ~me_ipc.usable \/ me_ipc.token[guestToken] = "ready"
        leaving == {k \in {k2, k3} : me_conn[k].stage # "none"}
    IN /\ InOrder
       /\ me_conn[k3].phase # "off" =>
             /\ me_ipc.usable
             /\ leaving # {} => \A k \in {k1, k2, k3} : me_job[k] = Social!Messenger!Idle
       /\ invites => /\ ~views /\ ~lost /\ me_armed[host] = None /\ me_conn[k3].phase = "off"
                     /\ me_conn[k2].phase \in {"off", "auth", "gone"}
       /\ lost => ~views

(***************************************************************************)
(* Lobby: a player who creates games and two who join, two games one after *)
(* the other.  The three meet in the first game and start its race; two    *)
(* come back from a race to the second game.  The second game is reached   *)
(* without an exit.                                                        *)
(***************************************************************************)
lo_games == x2
lo_ctx == x4
lo_job == x6
lo_past == x8

FewGames ==
    LET here == {u \in {host, ann, bob} :
                    lo_ctx[u].on \/ \E g \in 1 .. 2 : u \in TheLobby!Members(lo_games, g)}
        three == here = {host, ann, bob}
        busy == {u \in here : lo_job[u] # TheLobby!NoJob}
    IN /\ lo_past.swept = {}
       /\ three => lo_games[2].state = "none" /\ \A u \in here : ~lo_ctx[u].back
       /\ lo_past.exits = 1 =>
             /\ lo_games[2].state = "none"
             /\ three => busy = {} /\ lo_games[1].state \notin TheLobby!Raced
             /\ Cardinality(busy) <= (IF lo_games[1].state \in TheLobby!Raced THEN 0 ELSE 1)

(***************************************************************************)
(* RaceRelay: two guests behind one address.                               *)
(***************************************************************************)
IpOf == [p \in {host, ann, bob} |-> IF p = host THEN 1 ELSE 2]

re_game == x1
re_gen == x2
re_past == x5

\* In a room of three only one has come back with new sockets.  A stray packet comes in
\* a Most Wanted race, which is the last.
FewStrays ==
    /\ ~re_past.guessed
    /\ Len(re_game.members) = 3 => Cardinality({u \in {host, ann, bob} : re_gen[u] = 2}) <= 1
    /\ re_past.strays = 1 => re_game.mw /\ re_game.state = "active" /\ ~re_past.assumed

(***************************************************************************)
(* SocialRelations: two personas, the thread of one of them and the pump.  *)
(***************************************************************************)
so_stored == x1
so_past == x8

\* A fault strikes when both personas are stored.
FewFaults == so_past.faults = 1 => so_stored = {ann, bob}

(***************************************************************************)
(* Encounters: three personas, three of the classic games in a room and    *)
(* two of Carbon.                                                          *)
(***************************************************************************)
en_control == x3
en_past == x7

FewEncounters == IF part = "classic encounters" THEN en_past = {} ELSE en_control = {}

(***************************************************************************)
(* RaceReports: two players of a game, over two runs of the server with    *)
(* the same game id, and with a reset of a player's statistics.            *)
(***************************************************************************)
rr_run == x1
rr_game == x2
rr_playing == x3
rr_job == x4
rr_active == x8
rr_past == x9

\* A report tells a win, or cannot be decoded; the second run has no closed account.
\* Two reports are under way in the first run, with both accounts open.  Statistics are
\* reset in Underground 2, without a second run.
FewReports ==
    /\ IF part = "Most Wanted reports" THEN rr_past.edits = 0 ELSE rr_run = 1
    /\ rr_game[1] # None =>
          /\ rr_game[1].ranked
          /\ rr_run = 1 => \/ rr_game[1].owner \in rr_game[1].members
                           \/ rr_playing[rr_game[1].owner] = None
    /\ rr_run = 2 => rr_active = {ann, bob}
    /\ rr_run = 2 \/ rr_active # {ann, bob} => \E u \in {ann, bob} : rr_job[u] = None
    /\ \A u \in {ann, bob} : rr_job[u] # None =>
          LET r == rr_job[u].result
          IN /\ r.outcome = IF r.decoded THEN "win" ELSE "disconnect"
             /\ rr_run = 2 => r.decoded

-----------------------------------------------------------------------------
Bounds ==
    CASE part = "setup" -> FewHelpers
      [] part \in {"start", "challenge start"} -> FewWaiting
      [] part \in {"results", "unranked results"} -> FewResults
      [] part = "publication" -> FewInFlight
      [] part = "messenger" -> OneMatterAtATime
      [] part = "lobby" -> FewGames
      [] part = "relay" -> FewStrays
      [] part = "social" -> FewFaults
      [] part \in {"classic encounters", "Carbon encounters"} -> FewEncounters
      [] part \in {"Most Wanted reports", "Underground reports"} -> FewReports
      [] OTHER -> TRUE
=============================================================================
