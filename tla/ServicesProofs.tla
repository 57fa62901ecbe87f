---------------------------- MODULE ServicesProofs ----------------------------
(***************************************************************************)
(* Theorems about all the components together: what the modules of proofs  *)
(* show of each holds of every behaviour of Services, for every value of   *)
(* its constants, and beyond the states that its run is bounded to.        *)
(*                                                                         *)
(* No step changes "part", so a behaviour of AllSpec is one of the         *)
(* specification of the component it names.                                *)
(***************************************************************************)
EXTENDS Services, TLAPS

\* A component starts as its specification says ...
LEMMA Initially ==
    AllInit =>
        /\ part = "results" => Results!Init
        /\ part = "unranked results" => UnrankedResults!Init
        /\ part = "start" => Start!Init
        /\ part = "challenge start" => ChallengeStart!Init
        /\ part = "publication" => Start!Delivery!Init
        /\ part = "messenger" => Social!Messenger!Init
        /\ part = "social" => Social!Init
        /\ part = "classic encounters" => Social!Meet!Init
        /\ part = "Carbon encounters" => CarbonSocial!Meet!Init
        /\ part = "Most Wanted reports" => Results!Tally!Init
        /\ part = "Underground reports" => UnrankedResults!Tally!Init
  BY DEF AllInit

\* ... and moves as it says.
LEMMA Moves ==
    [AllNext]_vars =>
        /\ part = "results" => [Results!Next]_(Results!vars)
        /\ part = "unranked results" => [UnrankedResults!Next]_(UnrankedResults!vars)
        /\ part = "start" => [Start!Next]_(Start!vars)
        /\ part = "challenge start" => [ChallengeStart!Next]_(ChallengeStart!vars)
        /\ part = "publication" => [Start!Delivery!Next]_(Start!Delivery!vars)
        /\ part = "messenger" => [Social!Messenger!Next]_(Social!Messenger!vars)
        /\ part = "social" => [Social!Next]_(Social!vars)
        /\ part = "classic encounters" => [Social!Meet!Next]_(Social!Meet!vars)
        /\ part = "Carbon encounters" => [CarbonSocial!Meet!Next]_(CarbonSocial!Meet!vars)
        /\ part = "Most Wanted reports" => [Results!Tally!Next]_(Results!Tally!vars)
        /\ part = "Underground reports" =>
              [UnrankedResults!Tally!Next]_(UnrankedResults!Tally!vars)
  BY DEF AllNext, InSetup, InStart, InChallengeStart, InResults, InUnrankedResults, InPublication,
     InMessenger, InTheLobby, InRelay, InSocial, InClassicEncounters, InCarbonEncounters,
     InMWReports, InU2Reports, vars,
     Results!vars, UnrankedResults!vars, Start!vars, ChallengeStart!vars,
     Start!Delivery!vars, Social!Messenger!vars, Social!vars, Social!Meet!vars,
     CarbonSocial!Meet!vars, Results!Tally!vars, UnrankedResults!Tally!vars

\* The component that moves stays the same.
LEMMA OnePart ==
    ASSUME NEW CONSTANT p
    PROVE  [AllNext]_vars => (part = p <=> (part = p)')
  BY DEF AllNext, InSetup, InStart, InChallengeStart, InResults, InUnrankedResults, InPublication,
     InMessenger, InTheLobby, InRelay, InSocial, InClassicEncounters, InCarbonEncounters,
     InMWReports, InU2Reports, vars

-----------------------------------------------------------------------------
\* Every Carbon race, ranked or not, is decided once, by its own evidence, whatever the
\* order of finishes, reports, leaves and rematches.
THEOREM RacesAreDecidedOnce ==
    AllSpec => []DecidedOnce
<1>1. Results!Spec => []Results!DecidedOnce
  BY ServicesAssumption, Results!RacesAreDecided
<1>2. UnrankedResults!Spec => []UnrankedResults!DecidedOnce
  BY ServicesAssumption, UnrankedResults!RacesAreDecided
<1>3. /\ AllInit /\ part = "results" => Results!Init
      /\ [AllNext]_vars /\ part = "results" => [Results!Next]_(Results!vars)
      /\ [AllNext]_vars => (part = "results" <=> (part = "results")')
  BY Initially, Moves, OnePart
<1>4. /\ AllInit /\ part = "unranked results" => UnrankedResults!Init
      /\ [AllNext]_vars /\ part = "unranked results" =>
            [UnrankedResults!Next]_(UnrankedResults!vars)
      /\ [AllNext]_vars => (part = "unranked results" <=> (part = "unranked results")')
  BY Initially, Moves, OnePart
<1>5. /\ part = "results" => Results!DecidedOnce
      /\ part = "unranked results" => UnrankedResults!DecidedOnce
      => DecidedOnce
  BY DEF DecidedOnce, In
<1> QED
  BY <1>1, <1>2, <1>3, <1>4, <1>5, PTL
     DEF AllSpec, Results!Spec, UnrankedResults!Spec

\* The results of both classic games are counted once, over restarts, bans and resets.
THEOREM ResultsAreCountedOnce ==
    AllSpec => []CountedOnce
<1>1. Results!Tally!Spec => []Results!Tally!CountedOnce
  <2>1. Results!Tally!Spec => [](Results!Tally!TypeOK /\ Results!Tally!CountedOnce)
    BY ServicesAssumption, Results!ReportsAreCountedOnce
  <2> QED
    BY <2>1, PTL
<1>2. UnrankedResults!Tally!Spec => []UnrankedResults!Tally!CountedOnce
  <2>1. UnrankedResults!Tally!Spec =>
           [](UnrankedResults!Tally!TypeOK /\ UnrankedResults!Tally!CountedOnce)
    BY ServicesAssumption, UnrankedResults!ReportsAreCountedOnce
  <2> QED
    BY <2>1, PTL
<1>3. /\ AllInit /\ part = "Most Wanted reports" => Results!Tally!Init
      /\ [AllNext]_vars /\ part = "Most Wanted reports" =>
            [Results!Tally!Next]_(Results!Tally!vars)
      /\ [AllNext]_vars => (part = "Most Wanted reports" <=> (part = "Most Wanted reports")')
  BY Initially, Moves, OnePart
<1>4. /\ AllInit /\ part = "Underground reports" => UnrankedResults!Tally!Init
      /\ [AllNext]_vars /\ part = "Underground reports" =>
            [UnrankedResults!Tally!Next]_(UnrankedResults!Tally!vars)
      /\ [AllNext]_vars => (part = "Underground reports" <=> (part = "Underground reports")')
  BY Initially, Moves, OnePart
<1>5. /\ part = "Most Wanted reports" => Results!Tally!CountedOnce
      /\ part = "Underground reports" => UnrankedResults!Tally!CountedOnce
      => CountedOnce
  BY DEF CountedOnce, In
<1> QED
  BY <1>1, <1>2, <1>3, <1>4, <1>5, PTL
     DEF AllSpec, Results!Tally!Spec, UnrankedResults!Tally!Spec

\* Relations, commands and lists of players are kept in every interleaving of two
\* personas' requests, the pump, crashes, failed reloads, changes of room and
\* publications.
THEOREM RelationsStayKept ==
    AllSpec => []RelationsAreKept
<1>1. Social!Spec => [](/\ Social!RelationsAreConsistent /\ Social!CacheIsCurrent
                        /\ Social!WebCommandsRunOnce)
  BY ServicesAssumption, Social!RelationsStayConsistent, Social!CacheStaysCurrent,
     Social!CommandsRunOnce, PTL
<1>2. Social!Meet!Spec => []Social!Meet!RoomsAreRemembered
  <2>1. Social!Meet!Spec => [](Social!Meet!TypeOK /\ Social!Meet!RoomsAreRemembered)
    BY ServicesAssumption, Social!RoomsStayRemembered
  <2> QED
    BY <2>1, PTL
<1>3. CarbonSocial!Meet!Spec => []CarbonSocial!Meet!RoomsAreRemembered
  <2>1. CarbonSocial!Meet!Spec =>
           [](CarbonSocial!Meet!TypeOK /\ CarbonSocial!Meet!RoomsAreRemembered)
    BY ServicesAssumption, CarbonSocial!RoomsStayRemembered
  <2> QED
    BY <2>1, PTL
<1>4. /\ AllInit /\ part = "social" => Social!Init
      /\ [AllNext]_vars /\ part = "social" => [Social!Next]_(Social!vars)
      /\ [AllNext]_vars => (part = "social" <=> (part = "social")')
  BY Initially, Moves, OnePart
<1>5. /\ AllInit /\ part = "classic encounters" => Social!Meet!Init
      /\ [AllNext]_vars /\ part = "classic encounters" => [Social!Meet!Next]_(Social!Meet!vars)
      /\ [AllNext]_vars => (part = "classic encounters" <=> (part = "classic encounters")')
  BY Initially, Moves, OnePart
<1>6. /\ AllInit /\ part = "Carbon encounters" => CarbonSocial!Meet!Init
      /\ [AllNext]_vars /\ part = "Carbon encounters" =>
            [CarbonSocial!Meet!Next]_(CarbonSocial!Meet!vars)
      /\ [AllNext]_vars => (part = "Carbon encounters" <=> (part = "Carbon encounters")')
  BY Initially, Moves, OnePart
<1>7. /\ part = "social" => (/\ Social!RelationsAreConsistent /\ Social!CacheIsCurrent
                        /\ Social!WebCommandsRunOnce)
      /\ part = "classic encounters" => Social!Meet!RoomsAreRemembered
      /\ part = "Carbon encounters" => CarbonSocial!Meet!RoomsAreRemembered
      => RelationsAreKept
  BY DEF RelationsAreKept, In
<1> QED
  BY <1>1, <1>2, <1>3, <1>4, <1>5, <1>6, <1>7, PTL
     DEF AllSpec, Social!Spec, Social!Meet!Spec, CarbonSocial!Meet!Spec

\* Of several connections of one persona none acts for another, in every interleaving
\* of their threads, the feed of the sessions and the rooms.
THEOREM ConnectionsStayApart ==
    AllSpec => ConnectionsDoNotInterfere
<1> DEFINE Kept == /\ Social!Messenger!ReleasedOnce /\ Social!Messenger!RevokesAreArmed
                   /\ Social!Messenger!PublicPresenceSurvives
                   /\ Social!Messenger!ViewsAreCurrent
           NoTrace == In("messenger", Social!Messenger!LeavesNoTrace)
<1>1. Social!Messenger!Spec =>
         []Kept /\ [][Social!Messenger!LeavesNoTrace]_(Social!Messenger!vars)
  BY ServicesAssumption, Social!InvitationsEndOnce, Social!RevokesStayArmed,
     Social!PublicPresenceIsOwned, Social!ViewsStayCurrent, Social!DuplicatesAreHarmless, PTL
     DEF Social!Messenger!DuplicatesLeaveNoTrace
<1>2. /\ AllInit /\ part = "messenger" => Social!Messenger!Init
      /\ [AllNext]_vars /\ part = "messenger" => [Social!Messenger!Next]_(Social!Messenger!vars)
      /\ [AllNext]_vars => (part = "messenger" <=> (part = "messenger")')
  BY Initially, Moves, OnePart
<1>3. [Social!Messenger!LeavesNoTrace]_(Social!Messenger!vars) => [NoTrace]_vars
  BY DEF In, Social!Messenger!LeavesNoTrace, Social!Messenger!vars
<1>4. ~(part = "messenger") => [NoTrace]_vars
  BY DEF In
<1>5. (part = "messenger" => Kept) => In("messenger", Kept)
  BY DEF In
<1> HIDE DEF Kept, NoTrace
<1>6. AllSpec => []In("messenger", Kept)
  BY <1>1, <1>2, <1>5, PTL DEF AllSpec, Social!Messenger!Spec
<1>7. AllSpec => [][NoTrace]_vars
  BY <1>1, <1>2, <1>3, <1>4, PTL DEF AllSpec, Social!Messenger!Spec
<1> QED
  BY <1>6, <1>7, PTL DEF ConnectionsDoNotInterfere, Kept, NoTrace

\* A publication reaches its client whatever the network does: what the client lacks is
\* retained, what it acknowledged stays silent, and a life joins once.
THEOREM PublicationsArriveOnce ==
    AllSpec => NothingIsLostOrRepeated
<1> DEFINE Kept == Start!Delivery!UnreceivedIsRetained /\ Start!Delivery!JoinedOnce
           NoRepeat == In("publication", Start!Delivery!Silent)
<1>1. Start!Delivery!Spec =>
         []Kept /\ [][Start!Delivery!Silent]_(Start!Delivery!vars)
  BY ServicesAssumption, Start!PublicationIsKept, Start!AcknowledgedStaysSilent, PTL
     DEF Start!Delivery!AckedStaysSilent
<1>2. /\ AllInit /\ part = "publication" => Start!Delivery!Init
      /\ [AllNext]_vars /\ part = "publication" =>
            [Start!Delivery!Next]_(Start!Delivery!vars)
      /\ [AllNext]_vars => (part = "publication" <=> (part = "publication")')
  BY Initially, Moves, OnePart
<1>3. [Start!Delivery!Silent]_(Start!Delivery!vars) => [NoRepeat]_vars
  BY DEF In, Start!Delivery!Silent, Start!Delivery!vars
<1>4. ~(part = "publication") => [NoRepeat]_vars
  BY DEF In
<1>5. (part = "publication" => Kept) => In("publication", Kept)
  BY DEF In
<1> HIDE DEF Kept, NoRepeat
<1>6. AllSpec => []In("publication", Kept)
  BY <1>1, <1>2, <1>5, PTL DEF AllSpec, Start!Delivery!Spec
<1>7. AllSpec => [][NoRepeat]_vars
  BY <1>1, <1>2, <1>3, <1>4, PTL DEF AllSpec, Start!Delivery!Spec
<1> QED
  BY <1>6, <1>7, PTL DEF NothingIsLostOrRepeated, Kept, NoRepeat
===============================================================================
