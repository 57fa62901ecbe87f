------------------------------ MODULE Services ------------------------------
(***************************************************************************)
(* Ten modules side by side: a behaviour of AllSpec is one of a single     *)
(* component, that "part" names, in one of its variants, and the variables *)
(* serve them all.  The components are joined so that one run checks them; *)
(* ServicesProofs has the theorems.  Results!Tally and the like are the    *)
(* modules that a module of proofs is about besides the one it is named    *)
(* after.                                                                  *)
(***************************************************************************)
EXTENDS Integers, Sequences, FiniteSets

CONSTANTS
    None,
    \* Carbon rooms, and the reliable publications to an endpoint
    Host, Helpers, RaceEvents, Racers, Invitees, Cars, ClientReports, Moderators, Carriers,
    Half, FirstSequence, Policy, BootPolicy, MaxRecent,
    \* classic games
    Owners, Joiners, LobbyCapacity, MinPlayers, Ip, GameIds, Categories,
    \* social services and the Messenger
    Personas, Threads, Events, Conns, Tokens, Speakers, PersonaOf,
    Gamers, Sessions, ClassicCapacity, CarbonCapacity, Limit,
    \* bounds
    MaxGeneration, MaxAttributes, MaxDrops, MaxSeeds, MaxRaces, MaxRuns, MaxEdits,
    MaxExtra, MaxLives, MaxFaults, MaxFlight, MaxGames, MaxSets, MaxExits,
    MaxGen, MaxWaiting, MaxStrays

VARIABLES
    part,       \* the component that moves
    x1, x2, x3, x4, x5, x6, x7, x8, x9, x10, x11, x12

vars == <<part, x1, x2, x3, x4, x5, x6, x7, x8, x9, x10, x11, x12>>

\* A Carbon room commits its helpers.
Setup == INSTANCE SessionSetup WITH
    Events <- RaceEvents, MaxEdits <- MaxAttributes,
    race <- x1, wire <- x2, flight <- x3, windows <- x4, past <- x5

\* It starts a race: a Challenge, with an invited helper, or another race.
\* Start!Delivery publishes reliably to an endpoint.
Start == INSTANCE RaceStartProofs WITH
    Players <- Racers, Challenge <- FALSE, Invited <- {},
    race <- x1, epoch <- x2, wire <- x3, flight <- x4, past <- x5,
    server <- x1, toClient <- x2, toServer <- x3, client <- x4, faults <- x5, extras <- x6

ChallengeStart == INSTANCE RaceStartProofs WITH
    Players <- Racers, Challenge <- TRUE, Invited <- Invitees,
    race <- x1, epoch <- x2, wire <- x3, flight <- x4, past <- x5,
    server <- x1, toClient <- x2, toServer <- x3, client <- x4, faults <- x5, extras <- x6

\* It decides the race.  Results!Tally counts the results of Most Wanted.
Results == INSTANCE RaceResultsProofs WITH
    Players <- Racers, Reports <- ClientReports, Ranked <- TRUE,
    members <- x1, bound <- x2, phase <- x3, tracker <- x4, relayed <- x5, stats <- x6,
    virus <- x7, beat <- x8, race <- x9, finals <- x10,
    Users <- Joiners, Games <- GameIds, MostWanted <- TRUE,
    run <- x1, game <- x2, playing <- x3, job <- x4, races <- x5, filed <- x6, totals <- x7,
    active <- x8, past <- x9

\* A race that is not ranked, and the results of Underground 2.
UnrankedResults == INSTANCE RaceResultsProofs WITH
    Players <- Racers, Reports <- ClientReports, Ranked <- FALSE,
    members <- x1, bound <- x2, phase <- x3, tracker <- x4, relayed <- x5, stats <- x6,
    virus <- x7, beat <- x8, race <- x9, finals <- x10,
    Users <- Joiners, Games <- GameIds, MostWanted <- FALSE,
    run <- x1, game <- x2, playing <- x3, job <- x4, races <- x5, filed <- x6, totals <- x7,
    active <- x8, past <- x9

\* The lobby of the classic games, and the relay of one of its games.
TheLobby == INSTANCE Lobby WITH
    Users <- Joiners \union Owners, Hosts <- Owners, Capacity <- LobbyCapacity,
    mw <- x1, games <- x2, sets <- x3, ctx <- x4, asking <- x5, job <- x6, owed <- x7,
    past <- x8

Relay == INSTANCE RaceRelay WITH
    Owner <- Host, Guests <- Joiners,
    game <- x1, gen <- x2, relay <- x3, out <- x4, past <- x5

\* Friendships, requests and blocks.  Social!Messenger serves Carbon clients, and
\* Social!Meet remembers whom players of the classic games meet.
Social == INSTANCE SocialRelationsProofs WITH
    stored <- x1, db <- x2, cache <- x3, job <- x4, events <- x5, pump <- x6,
    visitors <- x7, past <- x8,
    Carbon <- {}, Capacity <- ClassicCapacity,
    online <- x1, session <- x2, control <- x3, shown <- x4, task <- x5, recent <- x6,
    spoilt <- x7,
    ipc <- x1, room <- x2, conn <- x3, errand <- x4, listed <- x5, channel <- x6,
    shared <- x7, public <- x8, armed <- x9, revoked <- x10, seen <- x11, trail <- x12

\* CarbonSocial!Meet: the same for Carbon players.
CarbonSocial == INSTANCE SocialRelationsProofs WITH
    stored <- x1, db <- x2, cache <- x3, job <- x4, events <- x5, pump <- x6,
    visitors <- x7, past <- x8,
    Carbon <- Gamers, Capacity <- CarbonCapacity,
    online <- x1, session <- x2, control <- x3, shown <- x4, task <- x5, recent <- x6,
    spoilt <- x7,
    ipc <- x1, room <- x2, conn <- x3, errand <- x4, listed <- x5, channel <- x6,
    shared <- x7, public <- x8, armed <- x9, revoked <- x10, seen <- x11, trail <- x12

ASSUME ServicesAssumption ==
    /\ Setup!ConstantsAssumption /\ Start!ConstantsAssumption
    /\ ChallengeStart!ConstantsAssumption
    /\ Start!NoneAssumption /\ ChallengeStart!NoneAssumption
    /\ Results!ResultsAssumption /\ UnrankedResults!ResultsAssumption
    /\ Start!Delivery!PolicyAssumption /\ Start!Delivery!SpaceAssumption
    /\ Start!Delivery!LifeAssumption /\ Start!Delivery!BoundsAssumption
    /\ Start!Delivery!NoneAssumption
    /\ Social!Messenger!PersonaOfAssumption /\ TheLobby!LobbyAssumption /\ Relay!UsersAssumption
    /\ Social!EventsAssumption
    /\ Social!Meet!RoomsFitAssumption /\ CarbonSocial!Meet!RoomsFitAssumption
    /\ Results!Tally!ReportsAssumption /\ UnrankedResults!Tally!ReportsAssumption
    /\ Results!Tally!NoneAssumption /\ UnrankedResults!Tally!NoneAssumption

\* The variables an instance has no use for.
Idle12 == x12 = None
Idle11 == x11 = None /\ Idle12
Idle10 == x10 = None /\ Idle11
Idle9 == x9 = None /\ Idle10
Idle8 == x8 = None /\ Idle9
Idle7 == x7 = None /\ Idle8
Idle6 == x6 = None /\ Idle7

AllInit ==
    \/ part = "setup" /\ Setup!Init /\ Idle6
    \/ part = "start" /\ Start!Init /\ Idle6
    \/ part = "challenge start" /\ ChallengeStart!Init /\ Idle6
    \/ part = "results" /\ Results!Init /\ Idle11
    \/ part = "unranked results" /\ UnrankedResults!Init /\ Idle11
    \/ part = "publication" /\ Start!Delivery!Init /\ Idle7
    \/ part = "messenger" /\ Social!Messenger!Init
    \/ part = "lobby" /\ TheLobby!Init /\ Idle9
    \/ part = "relay" /\ Relay!Init /\ Idle6
    \/ part = "social" /\ Social!Init /\ Idle9
    \/ part = "classic encounters" /\ Social!Meet!Init /\ Idle8
    \/ part = "Carbon encounters" /\ CarbonSocial!Meet!Init /\ Idle8
    \/ part = "Most Wanted reports" /\ Results!Tally!Init /\ Idle10
    \/ part = "Underground reports" /\ UnrankedResults!Tally!Init /\ Idle10

InSetup ==
    part = "setup" /\ Setup!Next /\ UNCHANGED <<part, x6, x7, x8, x9, x10, x11, x12>>

InStart ==
    part = "start" /\ Start!Next /\ UNCHANGED <<part, x6, x7, x8, x9, x10, x11, x12>>

InChallengeStart ==
    /\ part = "challenge start" /\ ChallengeStart!Next
    /\ UNCHANGED <<part, x6, x7, x8, x9, x10, x11, x12>>

InResults ==
    part = "results" /\ Results!Next /\ UNCHANGED <<part, x11, x12>>

InUnrankedResults ==
    part = "unranked results" /\ UnrankedResults!Next /\ UNCHANGED <<part, x11, x12>>

InPublication ==
    /\ part = "publication" /\ Start!Delivery!Next
    /\ UNCHANGED <<part, x7, x8, x9, x10, x11, x12>>

InMessenger ==
    part = "messenger" /\ Social!Messenger!Next /\ UNCHANGED <<part>>

InTheLobby ==
    part = "lobby" /\ TheLobby!Next /\ UNCHANGED <<part, x9, x10, x11, x12>>

InRelay ==
    part = "relay" /\ Relay!Next /\ UNCHANGED <<part, x6, x7, x8, x9, x10, x11, x12>>

InSocial ==
    part = "social" /\ Social!Next /\ UNCHANGED <<part, x9, x10, x11, x12>>

InClassicEncounters ==
    /\ part = "classic encounters" /\ Social!Meet!Next
    /\ UNCHANGED <<part, x8, x9, x10, x11, x12>>

InCarbonEncounters ==
    /\ part = "Carbon encounters" /\ CarbonSocial!Meet!Next
    /\ UNCHANGED <<part, x8, x9, x10, x11, x12>>

InMWReports ==
    part = "Most Wanted reports" /\ Results!Tally!Next /\ UNCHANGED <<part, x10, x11, x12>>

InU2Reports ==
    /\ part = "Underground reports" /\ UnrankedResults!Tally!Next
    /\ UNCHANGED <<part, x10, x11, x12>>

AllNext ==
    \/ InSetup \/ InStart \/ InChallengeStart \/ InResults
    \/ InUnrankedResults \/ InPublication \/ InMessenger \/ InTheLobby
    \/ InRelay \/ InSocial \/ InClassicEncounters \/ InCarbonEncounters
    \/ InMWReports \/ InU2Reports

AllSpec == AllInit /\ [][AllNext]_vars

(***************************************************************************)
(* Properties of the parts.  Each gathers the named invariants and action  *)
(* properties of one or two modules, which the comments there explain.     *)
(***************************************************************************)
In(p, P) == part = p => P

\* The types of the parts' variables.
PartsTypeOK ==
    /\ In("setup", Setup!TypeOK)
    /\ In("start", Start!TypeOK) /\ In("challenge start", ChallengeStart!TypeOK)
    /\ In("results", Results!TypeOK) /\ In("unranked results", UnrankedResults!TypeOK)
    /\ In("publication", Start!Delivery!TypeOK)
    /\ In("messenger", Social!Messenger!TypeOK)
    /\ In("lobby", TheLobby!TypeOK)
    /\ In("relay", Relay!TypeOK)
    /\ In("social", Social!TypeOK)
    /\ In("classic encounters", Social!Meet!TypeOK)
    /\ In("Carbon encounters", CarbonSocial!Meet!TypeOK)
    /\ In("Most Wanted reports", Results!Tally!TypeOK)
    /\ In("Underground reports", UnrankedResults!Tally!TypeOK)

\* A Carbon room commits a helper, starts its race and releases its players only with
\* everybody prepared in this very race: session objects come in the order of their
\* generations, nobody waits for a helper that is gone, the event stays while somebody
\* joins, the helpers' states follow everybody's seed, and no flag of an aborted or
\* finished race counts (room_commit.py, ready_state.py, race_start.py,
\* room_lifecycle.py).
RacesStartTogether ==
    /\ [](/\ In("setup", Setup!ReleasesAreLive)
          /\ In("start", Start!StartsTogether)
          /\ In("challenge start", ChallengeStart!StartsTogether))
    /\ [][In("setup", Setup!InOrder /\ Setup!Prepared /\ Setup!Frozen)]_vars

\* A Carbon race is finished exactly when it is decided, once: nobody is judged by
\* others in its absence, no report overturns the order of finishes that were seen, and
\* a player's progression is the decisions it was part of (race_results.py,
\* gamemanager/results.py, progression.py).
DecidedOnce ==
    /\ In("results", Results!DecidedOnce)
    /\ In("unranked results", UnrankedResults!DecidedOnce)

\* Whatever is lost, repeated or overtaken, and although sequence numbers wrap: what a
\* client has not got is kept for a replay, what it acknowledged is never sent again,
\* and a life of an endpoint joins once (confirmations.py, retry.py,
\* session_bootstrap.py).
NothingIsLostOrRepeated ==
    /\ [](In("publication", Start!Delivery!UnreceivedIsRetained /\ Start!Delivery!JoinedOnce))
    /\ [][In("publication", Start!Delivery!Silent)]_vars

\* Of several Messenger connections of one persona, none acts for another: a guest is
\* told once of each acceptance, a revocation is held back only for an acceptance that
\* stands, the public presence survives a connection that goes, the friends shown are
\* current once nothing is under way, and a login that waits changes nothing
\* (carbon_messenger.py, carbon_messenger_service.py).
ConnectionsDoNotInterfere ==
    /\ [](In("messenger", /\ Social!Messenger!ReleasedOnce /\ Social!Messenger!RevokesAreArmed
                          /\ Social!Messenger!PublicPresenceSurvives
                          /\ Social!Messenger!ViewsAreCurrent))
    /\ [][In("messenger", Social!Messenger!LeavesNoTrace)]_vars

\* The games, the usersets and the players' contexts agree through exits, kicks, join
\* slots and races; who waits for the end of a race is told of the game after it; and a
\* race keeps its transport while its owner and another player stay
\* (classic/lobby/game_commands.py, usersets.py, mw_sessions.py).
LobbyAgrees ==
    /\ [](In("lobby", /\ TheLobby!ContextsAgree /\ TheLobby!NobodyInAClosedGame
                      /\ TheLobby!OneGuestConnects /\ TheLobby!DeferredAreTold
                      /\ TheLobby!PendingArePlayers))
    /\ [][In("lobby", TheLobby!RouteKept)]_vars

\* A packet of a race goes to the socket its recipient has for the sender, an identity
\* has one socket that no newcomer takes over, and nothing of a client outlives its
\* place in the game, although sockets are guessed from addresses
\* (classic/protocols/race.py).
PacketsReachTheirPlayers ==
    /\ [](In("relay", /\ Relay!NothingStaysBehind /\ Relay!OneSocketSpeaks
                      /\ Relay!DeliveredToTheirSocket /\ Relay!ControlTokensFit))
    /\ [][In("relay", Relay!RoutesStay)]_vars

\* What the service answers of friends, requests and blocks is what it stored, and is
\* consistent; a command of the website is carried out once whatever crashes; a game
\* lists the players in it, and who shared a room is among each other's recent players
\* (common/social.py, common/web_social.py, common/recent_players.py).
RelationsAreKept ==
    /\ In("social", /\ Social!RelationsAreConsistent /\ Social!CacheIsCurrent
                    /\ Social!WebCommandsRunOnce)
    /\ In("classic encounters", Social!Meet!RoomsAreRemembered)
    /\ In("Carbon encounters", CarbonSocial!Meet!RoomsAreRemembered)

\* A player's totals are the sums of its filed results, over restarts and resets; an
\* accepted report is filed; a race with two categories is disputed, and a complete one
\* has a result of each of its players (classic/lobby/ranking.py,
\* classic/ea/sqlite_ranking.py).
CountedOnce ==
    /\ In("Most Wanted reports", Results!Tally!CountedOnce)
    /\ In("Underground reports", UnrankedResults!Tally!CountedOnce)
=============================================================================
