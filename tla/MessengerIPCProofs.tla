------------------------- MODULE MessengerIPCProofs -------------------------
(***************************************************************************)
(* Proofs about MessengerIPC: its types, that the Messenger keeps showing  *)
(* the running Carbon process until it restarts itself, and that what a    *)
(* snapshot names is shown until the identity store drops it.              *)
(*                                                                         *)
(* The inductive invariant follows every envelope that is still on its     *)
(* way, in a socket buffer or in a reader thread: it comes from no later   *)
(* instance than the current one, and one from the running process is a    *)
(* snapshot whose number is not beyond the publisher's own count.  For the *)
(* last result a second one, Ordered, follows what they name.              *)
(***************************************************************************)
EXTENDS MessengerIPC, SequenceTheorems, TLAPS

SafeFor(e, process, ahead) ==
    /\ e.instance <= process.instance
    /\ process.running /\ e.instance = process.instance
       => e.kind = "snapshot" /\ e.ahead <= ahead

SafeQueue(queue, process, ahead) ==
    \A n \in 1..Len(queue) : SafeFor(queue[n], process, ahead)

SafeConnection(conn, process, ahead) ==
    /\ \A n \in 1..Len(conn.queue) : SafeFor(conn.queue[n], process, ahead)
    /\ conn.reader = "applying"
       => conn.held # <<>> /\ conn.held[1].ahead = 0 /\ SafeFor(conn.held[1], process, ahead)

Inv ==
    /\ TypeOK
    /\ pub.at # "wait" => pub.conn # None
    /\ \A c \in Conn : SafeConnection(conns[c], carbon, pub.ahead)

-----------------------------------------------------------------------------
(* Rebasing a queue keeps its length and its envelopes, with numbers that  *)
(* are still numbers.                                                      *)

LEMMA RebasedIsAQueue ==
    ASSUME NEW s \in Seq(Envelope), NEW i \in Instance, NEW k \in Nat
    PROVE  /\ Rebased(s, i, k) \in Seq(Envelope)
           /\ Len(Rebased(s, i, k)) = Len(s)
           /\ \A n \in 1..Len(s) :
                 /\ Rebased(s, i, k)[n].instance = s[n].instance
                 /\ Rebased(s, i, k)[n].kind = s[n].kind
                 /\ s[n].instance # i => Rebased(s, i, k)[n].ahead = s[n].ahead
                 /\ s[n].instance = i
                    => Rebased(s, i, k)[n].ahead = IF s[n].ahead > k THEN s[n].ahead - k ELSE 0
<1> DEFINE r == Rebased(s, i, k)
<1>1. DOMAIN s = 1..Len(s) /\ Len(s) \in Nat
  BY LenProperties
<1>2. \A n \in 1..Len(s) : s[n] \in Envelope
  BY ElementOfSeq
<1>3. DOMAIN r = 1..Len(s)
  BY <1>1 DEF Rebased
<1>4. ASSUME NEW n \in 1..Len(s)
      PROVE  /\ r[n] \in Envelope
             /\ r[n].instance = s[n].instance
             /\ r[n].kind = s[n].kind
             /\ s[n].instance # i => r[n].ahead = s[n].ahead
             /\ s[n].instance = i
                => r[n].ahead = IF s[n].ahead > k THEN s[n].ahead - k ELSE 0
  <2>1. r[n] = IF s[n].instance # i THEN s[n]
               ELSE [s[n] EXCEPT !.ahead = IF @ > k THEN @ - k ELSE 0]
    BY <1>1 DEF Rebased
  <2>2. s[n] \in Envelope
    BY <1>2
  <2> QED
    BY <2>1, <2>2 DEF Envelope
<1>5. r \in [1..Len(s) -> Envelope]
  BY <1>1, <1>4 DEF Rebased
<1>6. r \in Seq(Envelope) /\ Len(r) = Len(s)
  BY <1>1, <1>3, <1>5
<1> QED
  BY <1>4, <1>6

-----------------------------------------------------------------------------
(* Every step keeps the invariant.                                         *)

\* A step that changes neither the connections nor the counters keeps what is
\* on its way safe.
LEMMA QuietSteps ==
    ASSUME Inv, UNCHANGED <<conns, carbon>>, pub'.ahead = pub.ahead
    PROVE  \A c \in Conn : SafeConnection(conns[c], carbon, pub.ahead)'
BY DEF Inv

LEMMA StoreSteps ==
    ASSUME Inv,
           \/ \E t \in Token : Login(t) \/ Retire(t)
           \/ \E old, new \in Token : Displace(old, new)
    PROVE  Inv'
<1>1. store' \in [Token -> Status] /\ UNCHANGED <<carbon, pub, conns, ipc, faults>>
  BY DEF Inv, TypeOK, Login, Retire, Displace, Status
<1> QED
  BY <1>1, QuietSteps DEF Inv, TypeOK

LEMMA SnapshotSteps ==
    ASSUME Inv, ReadFirst \/ ReadSecond \/ Skip
    PROVE  Inv'
<1>1. Having("live") \in SUBSET Token /\ Having("displaced") \in SUBSET Token
  BY DEF Having
<1>2. Read(1) \in View /\ Read(2) \in View /\ Nothing \in View
  BY <1>1 DEF Read, ReadOrder, View, Nothing, Inv, TypeOK
<1>3. /\ UNCHANGED <<store, carbon, conns, ipc, faults>>
      /\ pub.conn # None \/ Skip
      /\ pub' = [pub EXCEPT !.at = pub'.at, !.view = pub'.view]
      /\ pub'.at \in {"wait", "second", "send"} /\ pub'.view \in View
      /\ Skip => pub'.at = "wait"
  BY <1>2 DEF Inv, TypeOK, ReadFirst, ReadSecond, Skip, Publishing
<1>4. TypeOK'
  BY <1>3 DEF Inv, TypeOK
<1>5. pub'.ahead = pub.ahead /\ pub'.conn = pub.conn
  BY <1>3 DEF Inv, TypeOK
<1>6. \A c \in Conn : SafeConnection(conns[c], carbon, pub.ahead)'
  BY <1>3, <1>5, QuietSteps
<1> QED
  BY <1>3, <1>4, <1>5, <1>6 DEF Inv

LEMMA ConnectStep ==
    ASSUME Inv, NEW c \in Conn, Connect(c)
    PROVE  Inv'
<1> USE DEF Inv, TypeOK
<1> DEFINE new == [conns[c] EXCEPT !.open = TRUE, !.reader = "reading"]
<1>1. /\ conns' = [conns EXCEPT ![c] = new]
      /\ pub' = [pub EXCEPT !.conn = c, !.sent = None, !.due = TRUE]
      /\ pub.at = "wait" /\ UNCHANGED <<store, carbon, ipc, faults>>
      /\ conns[c] = Unconnected
  BY DEF Connect, Publishing
<1>2. /\ new \in Connection /\ new.queue = <<>> /\ new.reader = "reading"
  <2>1. conns[c] \in Connection
    OBVIOUS
  <2>2. conns[c].queue = <<>>
    BY <1>1 DEF Unconnected
  <2> QED
    BY <2>1, <2>2 DEF Connection
<1>3. TypeOK'
  BY <1>1, <1>2
<1>4. pub'.ahead = pub.ahead /\ pub'.conn # None
  BY <1>1, ConstantsAssumption
<1>5. ASSUME NEW d \in Conn
      PROVE  SafeConnection(conns'[d], carbon', pub'.ahead)
  <2>1. CASE d # c
    BY <2>1, <1>1, <1>4
  <2>2. CASE d = c
    <3>1. conns'[d] = new
      BY <2>2, <1>1
    <3>2. Len(new.queue) = 0
      BY <1>2, EmptySeq
    <3> QED
      BY <3>1, <3>2, <1>2 DEF SafeConnection
  <2> QED
    BY <2>1, <2>2
<1> QED
  BY <1>3, <1>4, <1>5

\* What sendall leaves behind on a connection that takes the line.
LEMMA SentConnection ==
    ASSUME Inv, NEW c \in Conn, NEW kind \in {"snapshot", "shutdown"}
    PROVE  /\ Sealed(kind) \in Envelope
           /\ Sent(c, kind) \in Connection
           /\ Sent(c, kind).reader = conns[c].reader
           /\ Sent(c, kind).held = conns[c].held
           /\ Sent(c, kind).queue \in {conns[c].queue, Append(conns[c].queue, Sealed(kind))}
<1>1. Sealed(kind) \in Envelope
  BY DEF Sealed, Envelope, Inv, TypeOK
<1>2. conns[c] \in Connection
  BY DEF Inv, TypeOK
<1>3. Append(conns[c].queue, Sealed(kind)) \in Seq(Envelope)
  BY <1>1, <1>2, AppendProperties DEF Connection
<1> HIDE DEF Sealed
<1> QED
  BY <1>1, <1>2, <1>3 DEF Sent, Connection

LEMMA SafeAppend ==
    ASSUME NEW s \in Seq(Envelope), NEW e \in Envelope, NEW process, NEW ahead,
           \A n \in 1..Len(s) : SafeFor(s[n], process, ahead),
           SafeFor(e, process, ahead)
    PROVE  \A n \in 1..Len(Append(s, e)) : SafeFor(Append(s, e)[n], process, ahead)
<1>1. /\ Len(Append(s, e)) = Len(s) + 1 /\ Len(s) \in Nat
      /\ \A n \in 1..Len(s) : Append(s, e)[n] = s[n]
      /\ Append(s, e)[Len(s) + 1] = e
  BY AppendProperties, LenProperties
<1>2. ASSUME NEW n \in 1..Len(Append(s, e)), n # Len(s) + 1
      PROVE  n \in 1..Len(s)
  BY <1>1, <1>2
<1> QED
  BY <1>1, <1>2

\* What is on its way stays safe when the publisher counts on, when the process
\* stops, and when a newer one starts.
LEMMA SafeLater ==
    ASSUME NEW conn \in Connection,
           NEW p \in [instance : Instance, running : BOOLEAN], NEW a \in Nat,
           NEW q \in [instance : Instance, running : BOOLEAN], NEW b \in Nat,
           SafeConnection(conn, p, a),
           \/ q = p /\ b >= a
           \/ q.instance >= p.instance /\ ~q.running
           \/ q.instance > p.instance
    PROVE  SafeConnection(conn, q, b)
<1>1. ASSUME NEW e \in Envelope, SafeFor(e, p, a)
      PROVE  SafeFor(e, q, b)
  BY <1>1 DEF SafeFor, Envelope, Instance
<1>2. \A n \in 1..Len(conn.queue) : conn.queue[n] \in Envelope
  BY ElementOfSeq DEF Connection
<1>3. conn.held # <<>> => conn.held[1] \in Envelope
  BY ElementOfSeq, EmptySeq DEF Connection
<1> QED
  BY <1>1, <1>2, <1>3 DEF SafeConnection

LEMMA SendStep ==
    ASSUME Inv, Send
    PROVE  Inv'
<1> DEFINE c == pub.conn
           sent == Sent(c, "snapshot")
           e == Sealed("snapshot")
<1>1. /\ c \in Conn
      /\ conns' = [conns EXCEPT ![c] = sent]
      /\ pub' = [pub EXCEPT !.at = "wait", !.sent = pub.view, !.view = Nothing,
                            !.due = FALSE, !.ahead = @ + 1]
      /\ UNCHANGED <<store, carbon, ipc, faults>>
  BY DEF Send, Publishing, Inv, TypeOK
<1>2. /\ e \in Envelope /\ sent \in Connection
      /\ sent.reader = conns[c].reader /\ sent.held = conns[c].held
      /\ sent.queue \in {conns[c].queue, Append(conns[c].queue, e)}
  BY <1>1, SentConnection
<1>3. e.instance = carbon.instance /\ e.kind = "snapshot" /\ e.ahead = pub.ahead + 1
  BY DEF Sealed
<1>4. /\ pub' \in [at : {"wait", "second", "send"},
               conn : Conn \union {None}, sent : View \union {None}, view : View,
               due : BOOLEAN, ahead : Nat]
      /\ pub'.ahead = pub.ahead + 1 /\ pub'.at = "wait"
  <2>1. Nothing \in View
    BY DEF Nothing, View
  <2>2. pub \in [at : {"wait", "second", "send"},
               conn : Conn \union {None}, sent : View \union {None}, view : View,
               due : BOOLEAN, ahead : Nat]
    BY DEF Inv, TypeOK
  <2>3. pub' = [at |-> "wait", conn |-> pub.conn, sent |-> pub.view, view |-> Nothing,
                due |-> FALSE, ahead |-> pub.ahead + 1]
    BY <1>1, <2>2
  <2> QED
    BY <2>1, <2>2, <2>3
<1> HIDE DEF sent, e
<1>5. TypeOK'
  BY <1>1, <1>2, <1>4 DEF Inv, TypeOK
<1>6. SafeFor(e, carbon', pub'.ahead)
  BY <1>1, <1>2, <1>3, <1>4 DEF SafeFor, Inv, TypeOK, Instance
<1>7. ASSUME NEW d \in Conn
      PROVE  SafeConnection(conns'[d], carbon', pub'.ahead)
  <2>1. /\ conns[d] \in Connection /\ carbon' = carbon
        /\ carbon \in [instance : Instance, running : BOOLEAN]
        /\ pub.ahead \in Nat /\ pub'.ahead \in Nat /\ pub'.ahead >= pub.ahead
        /\ SafeConnection(conns[d], carbon, pub.ahead)
    BY <1>1, <1>4 DEF Inv, TypeOK
  <2>2. SafeConnection(conns[d], carbon', pub'.ahead)
    BY <2>1, SafeLater
  <2>3. CASE d # c
    BY <2>2, <2>3, <1>1 DEF Inv, TypeOK
  <2>4. CASE d = c
    <3>1. conns'[d] = sent
      BY <2>4, <1>1 DEF Inv, TypeOK
    <3>2. \A n \in 1..Len(conns[c].queue) : SafeFor(conns[c].queue[n], carbon', pub'.ahead)
      BY <2>2, <2>4 DEF SafeConnection
    <3>3. conns[c].queue \in Seq(Envelope)
      BY <2>1, <2>4 DEF Connection
    <3>4. \A n \in 1..Len(sent.queue) : SafeFor(sent.queue[n], carbon', pub'.ahead)
      <4>1. CASE sent.queue = conns[c].queue
        BY <4>1, <3>2
      <4>2. CASE sent.queue = Append(conns[c].queue, e)
        BY <4>2, <3>2, <3>3, <1>2, <1>6, SafeAppend
      <4> QED
        BY <4>1, <4>2, <1>2
    <3> QED
      BY <3>1, <3>4, <2>2, <2>4, <1>2 DEF SafeConnection
  <2> QED
    BY <2>3, <2>4
<1> QED
  BY <1>4, <1>5, <1>7 DEF Inv

\* A step that replaces one connection by another safe one.
LEMMA OneConnection ==
    ASSUME Inv, NEW c \in Conn, NEW new \in Connection,
           conns' = [conns EXCEPT ![c] = new], carbon' = carbon,
           pub'.ahead \in Nat, pub'.ahead >= pub.ahead,
           SafeConnection(new, carbon, pub.ahead)
    PROVE  /\ conns' \in [Conn -> Connection]
           /\ \A d \in Conn : SafeConnection(conns[d], carbon, pub.ahead)'
<1>1. /\ conns \in [Conn -> Connection] /\ pub.ahead \in Nat
      /\ carbon \in [instance : Instance, running : BOOLEAN]
  BY DEF Inv, TypeOK
<1>2. ASSUME NEW d \in Conn
      PROVE  SafeConnection(conns'[d], carbon, pub.ahead) /\ conns'[d] \in Connection
  BY <1>1 DEF Inv
<1>3. \A d \in Conn : SafeConnection(conns'[d], carbon', pub'.ahead)
  BY <1>1, <1>2, SafeLater
<1> QED
  BY <1>1, <1>3

\* A connection that keeps no envelope is safe.
LEMMA EmptyIsSafe ==
    ASSUME NEW conn \in Connection, NEW p, NEW a
    PROVE  /\ Closed(conn) \in Connection
           /\ Closed(conn).reader = "none"
           /\ Unconnected \in Connection
           /\ SafeConnection(Closed(conn), p, a)
           /\ SafeConnection(Unconnected, p, a)
<1>1. <<>> \in Seq(Envelope) /\ Len(<<>>) = 0
  BY EmptySeq
<1>2. Closed(conn) \in Connection /\ Unconnected \in Connection
  BY <1>1 DEF Closed, Connection, Unconnected
<1>3. /\ Closed(conn).reader = "none" /\ Unconnected.reader = "none"
      /\ Closed(conn).queue = <<>> /\ Unconnected.queue = <<>>
  BY DEF Closed, Unconnected, Connection
<1> QED
  BY <1>1, <1>2, <1>3 DEF SafeConnection

LEMMA SendFailsStep ==
    ASSUME Inv, SendFails
    PROVE  Inv'
<1> DEFINE c == pub.conn
           new == [conns[c] EXCEPT !.open = FALSE]
<1>1. /\ c \in Conn /\ conns' = [conns EXCEPT ![c] = new]
      /\ pub' = [pub EXCEPT !.at = "wait", !.conn = None, !.view = Nothing, !.ahead = @ + 1]
      /\ UNCHANGED <<store, carbon, ipc, faults>>
  BY DEF SendFails, Publishing, Inv, TypeOK
<1>2. /\ pub \in [at : {"wait", "second", "send"},
               conn : Conn \union {None}, sent : View \union {None}, view : View,
               due : BOOLEAN, ahead : Nat]
      /\ Nothing \in View /\ conns[c] \in Connection
      /\ SafeConnection(conns[c], carbon, pub.ahead)
  BY <1>1 DEF Inv, TypeOK, Nothing, View
<1>3. /\ pub' \in [at : {"wait", "second", "send"},
               conn : Conn \union {None}, sent : View \union {None}, view : View,
               due : BOOLEAN, ahead : Nat]
      /\ pub'.at = "wait" /\ pub'.ahead = pub.ahead + 1
  <2>1. pub' = [at |-> "wait", conn |-> None, sent |-> pub.sent, view |-> Nothing,
                due |-> pub.due, ahead |-> pub.ahead + 1]
    BY <1>1, <1>2
  <2> QED
    BY <1>2, <2>1
<1>4. /\ new \in Connection /\ new.queue = conns[c].queue
      /\ new.reader = conns[c].reader /\ new.held = conns[c].held
  BY <1>2 DEF Connection
<1>5. SafeConnection(new, carbon, pub.ahead)
  BY <1>2, <1>4 DEF SafeConnection
<1> HIDE DEF new
<1>6. /\ conns' \in [Conn -> Connection]
      /\ \A d \in Conn : SafeConnection(conns[d], carbon, pub.ahead)'
  <2>1. pub'.ahead \in Nat /\ pub'.ahead >= pub.ahead /\ carbon' = carbon
    BY <1>1, <1>2, <1>3
  <2> HIDE DEF c
  <2> QED
    BY <2>1, <1>1, <1>4, <1>5, OneConnection
<1> QED
  BY <1>1, <1>3, <1>6 DEF Inv, TypeOK

\* The Carbon process ends: whatever is still on its way is then of an ended one.
LEMMA EndedProcess ==
    ASSUME Inv, carbon' = [carbon EXCEPT !.running = FALSE], pub' = IdlePublisher,
           conns' \in [Conn -> Connection],
           \A d \in Conn : SafeConnection(conns'[d], [carbon EXCEPT !.running = FALSE], 0),
           UNCHANGED <<store, ipc, faults>>
    PROVE  Inv'
<1>1. Nothing \in View
  BY DEF Nothing, View
<1>2. /\ pub' \in [at : {"wait", "second", "send"},
               conn : Conn \union {None}, sent : View \union {None}, view : View,
               due : BOOLEAN, ahead : Nat]
      /\ pub'.at = "wait" /\ pub'.ahead = 0
  BY <1>1 DEF IdlePublisher
<1>3. carbon' \in [instance : Instance, running : BOOLEAN]
  BY DEF Inv, TypeOK
<1> QED
  BY <1>2, <1>3 DEF Inv, TypeOK

LEMMA StopStep ==
    ASSUME Inv, Stop
    PROVE  Inv'
<1> DEFINE ended == [carbon EXCEPT !.running = FALSE]
           c == pub.conn
           last == IF Accepts(c) THEN Sent(c, "shutdown") ELSE conns[c]
           new == [last EXCEPT !.open = FALSE]
<1>1. /\ carbon' = ended /\ pub' = IdlePublisher /\ UNCHANGED <<store, ipc, faults>>
      /\ c \in Conn \union {None}
      /\ c = None => conns' = conns
      /\ c # None => conns' = [conns EXCEPT ![c] = new]
  BY DEF Stop, Inv, TypeOK
<1>2. /\ ended \in [instance : Instance, running : BOOLEAN] /\ ~ended.running
      /\ ended.instance = carbon.instance
      /\ carbon \in [instance : Instance, running : BOOLEAN]
      /\ pub.ahead \in Nat /\ conns \in [Conn -> Connection]
  BY DEF Inv, TypeOK
<1>3. carbon.instance \in Nat
  BY <1>2 DEF Instance
<1> HIDE DEF ended
<1>4. ASSUME NEW d \in Conn
      PROVE  SafeConnection(conns[d], ended, 0)
  <2>1. SafeConnection(conns[d], carbon, pub.ahead)
    BY DEF Inv
  <2> QED
    BY <2>1, <1>2, <1>3, SafeLater
<1>5. ASSUME c # None
      PROVE  new \in Connection /\ SafeConnection(new, ended, 0)
  <2>1. c \in Conn /\ conns[c] \in Connection
    BY <1>1, <1>2, <1>5
  <2> DEFINE e == Sealed("shutdown")
  <2>2. /\ e \in Envelope /\ last \in Connection
        /\ last.reader = conns[c].reader /\ last.held = conns[c].held
        /\ last.queue \in {conns[c].queue, Append(conns[c].queue, e)}
    BY <2>1, SentConnection
  <2>3. e.instance = carbon.instance
    BY DEF Sealed
  <2> HIDE DEF e, last
  <2>4. SafeFor(e, ended, 0)
    BY <2>3, <1>2, <1>3 DEF SafeFor
  <2>5. /\ conns[c].queue \in Seq(Envelope)
        /\ \A n \in 1..Len(conns[c].queue) : SafeFor(conns[c].queue[n], ended, 0)
        /\ SafeConnection(conns[c], ended, 0)
    BY <2>1, <1>4 DEF Connection, SafeConnection
  <2>6. \A n \in 1..Len(last.queue) : SafeFor(last.queue[n], ended, 0)
    <3>1. CASE last.queue = conns[c].queue
      BY <3>1, <2>5
    <3>2. CASE last.queue = Append(conns[c].queue, e)
      BY <3>2, <2>2, <2>4, <2>5, SafeAppend
    <3> QED
      BY <3>1, <3>2, <2>2
  <2>7. /\ new \in Connection /\ new.queue = last.queue
        /\ new.reader = last.reader /\ new.held = last.held
    BY <2>2 DEF Connection
  <2> HIDE DEF new
  <2> QED
    BY <2>2, <2>5, <2>6, <2>7 DEF SafeConnection
<1> HIDE DEF new
<1>6. /\ conns' \in [Conn -> Connection]
      /\ \A d \in Conn : SafeConnection(conns'[d], ended, 0)
  BY <1>1, <1>2, <1>4, <1>5
<1> QED
  BY <1>1, <1>6, EndedProcess DEF ended

LEMMA CrashStep ==
    ASSUME Inv, Crash
    PROVE  Inv'
<1> DEFINE ended == [carbon EXCEPT !.running = FALSE]
           shut(d) == [conns[d] EXCEPT !.open = FALSE]
<1>1. /\ carbon' = ended /\ pub' = IdlePublisher /\ UNCHANGED <<store, ipc, faults>>
      /\ conns' = [d \in Conn |-> shut(d)]
  BY DEF Crash
<1>2. /\ ended \in [instance : Instance, running : BOOLEAN] /\ ~ended.running
      /\ ended.instance = carbon.instance
      /\ carbon \in [instance : Instance, running : BOOLEAN]
      /\ pub.ahead \in Nat /\ conns \in [Conn -> Connection]
  BY DEF Inv, TypeOK
<1>3. carbon.instance \in Nat
  BY <1>2 DEF Instance
<1>4. ASSUME NEW d \in Conn
      PROVE  shut(d) \in Connection /\ SafeConnection(shut(d), ended, 0)
  <2>1. SafeConnection(conns[d], carbon, pub.ahead) /\ conns[d] \in Connection
    BY <1>2 DEF Inv
  <2>2. SafeConnection(conns[d], ended, 0)
    <3> HIDE DEF ended
    <3> QED
      BY <2>1, <1>2, <1>3, SafeLater
  <2>3. /\ shut(d) \in Connection /\ shut(d).queue = conns[d].queue
        /\ shut(d).reader = conns[d].reader /\ shut(d).held = conns[d].held
    BY <2>1 DEF Connection
  <2> HIDE DEF ended, shut
  <2> QED
    BY <2>2, <2>3 DEF SafeConnection
<1> HIDE DEF shut
<1>5. /\ conns' \in [Conn -> Connection]
      /\ \A d \in Conn : SafeConnection(conns'[d], ended, 0)
  BY <1>1, <1>4
<1> QED
  BY <1>1, <1>5, EndedProcess

LEMMA StartStep ==
    ASSUME Inv, Start
    PROVE  Inv'
<1>1. /\ carbon' = [instance |-> carbon.instance + 1, running |-> TRUE]
      /\ carbon.instance < MaxInstances
      /\ store' \in [Token -> Status] /\ UNCHANGED <<pub, conns, ipc, faults>>
  BY DEF Start, Inv, TypeOK, Status
<1>2. /\ carbon \in [instance : Instance, running : BOOLEAN]
      /\ pub.ahead \in Nat /\ conns \in [Conn -> Connection]
  BY DEF Inv, TypeOK
<1>3. carbon' \in [instance : Instance, running : BOOLEAN] /\ carbon'.instance > carbon.instance
  BY <1>1, <1>2, ConstantsAssumption DEF Instance
<1>4. ASSUME NEW d \in Conn
      PROVE  SafeConnection(conns[d], carbon', pub.ahead)
  <2>1. SafeConnection(conns[d], carbon, pub.ahead) /\ conns[d] \in Connection
    BY <1>2 DEF Inv
  <2> QED
    BY <2>1, <1>2, <1>3, SafeLater
<1> QED
  BY <1>1, <1>3, <1>4 DEF Inv, TypeOK

\* Accepting a number moves every number of that instance back by as much: the
\* envelopes stay within the publisher's count.
LEMMA RebasedIsSafe ==
    ASSUME NEW s \in Seq(Envelope), NEW p \in [instance : Instance, running : BOOLEAN],
           NEW a \in Nat, NEW i \in Instance, NEW k \in Nat, NEW b \in Nat,
           \A n \in 1..Len(s) : SafeFor(s[n], p, a),
           b = IF i = p.instance /\ p.running THEN a - k ELSE a
    PROVE  \A n \in 1..Len(Rebased(s, i, k)) : SafeFor(Rebased(s, i, k)[n], p, b)
<1>1. Len(Rebased(s, i, k)) = Len(s)
  BY RebasedIsAQueue
<1>2. ASSUME NEW n \in 1..Len(s)
      PROVE  SafeFor(Rebased(s, i, k)[n], p, b)
  <2> DEFINE r == Rebased(s, i, k)[n]
  <2>1. /\ r.instance = s[n].instance /\ r.kind = s[n].kind
        /\ s[n].instance # i => r.ahead = s[n].ahead
        /\ s[n].instance = i => r.ahead = IF s[n].ahead > k THEN s[n].ahead - k ELSE 0
    BY RebasedIsAQueue
  <2>2. s[n] \in Envelope /\ SafeFor(s[n], p, a)
    BY ElementOfSeq
  <2>3. s[n].ahead \in Nat
    BY <2>2 DEF Envelope
  <2> HIDE DEF r
  <2>4. r.instance <= p.instance
    BY <2>1, <2>2 DEF SafeFor
  <2>5. ASSUME p.running, r.instance = p.instance
        PROVE  r.kind = "snapshot" /\ r.ahead <= b
    <3>1. s[n].kind = "snapshot" /\ s[n].ahead <= a
      BY <2>1, <2>2, <2>5 DEF SafeFor
    <3>2. CASE s[n].instance = i
      <4>1. b = a - k
        BY <3>2, <2>1, <2>5
      <4> QED
        BY <4>1, <3>1, <3>2, <2>1, <2>3
    <3>3. CASE s[n].instance # i
      BY <3>1, <3>3, <2>1, <2>5
    <3> QED
      BY <3>2, <3>3
  <2> QED
    BY <2>4, <2>5 DEF SafeFor, r
<1> QED
  BY <1>1, <1>2

\* The same, said of a queue as a whole.
LEMMA RebasedIsASafeQueue ==
    ASSUME NEW s \in Seq(Envelope), NEW p \in [instance : Instance, running : BOOLEAN],
           NEW a \in Nat, NEW i \in Instance, NEW k \in Nat, NEW b \in Nat,
           SafeQueue(s, p, a),
           b = IF i = p.instance /\ p.running THEN a - k ELSE a
    PROVE  SafeQueue(Rebased(s, i, k), p, b)
<1>1. \A n \in 1..Len(s) : SafeFor(s[n], p, a)
  BY DEF SafeQueue
<1>2. \A n \in 1..Len(Rebased(s, i, k)) : SafeFor(Rebased(s, i, k)[n], p, b)
  BY <1>1, RebasedIsSafe
<1> QED
  BY <1>2 DEF SafeQueue

LEMMA VerifyStep ==
    ASSUME Inv, NEW c \in Conn, Verify(c)
    PROVE  Inv'
<1> DEFINE e == Head(conns[c].queue)
           count == IF e.instance = carbon.instance /\ carbon.running
                    THEN pub.ahead - e.ahead ELSE pub.ahead
           rest(d) == IF d = c THEN Tail(conns[d].queue) ELSE conns[d].queue
           new(d) == [conns[d] EXCEPT
                         !.queue = Rebased(rest(d), e.instance, e.ahead),
                         !.reader = IF d = c THEN "applying" ELSE @,
                         !.held = IF d = c THEN <<[e EXCEPT !.ahead = 0]>> ELSE @]
<1>1. /\ conns[c].queue # <<>> /\ conns[c].reader = "reading"
      /\ conns' = [d \in Conn |-> new(d)]
      /\ pub' = [pub EXCEPT !.ahead = count]
      /\ UNCHANGED <<store, carbon, ipc, faults>>
  BY DEF Verify, Inv, TypeOK
<1>2. /\ conns \in [Conn -> Connection]
      /\ carbon \in [instance : Instance, running : BOOLEAN]
      /\ pub.ahead \in Nat
      /\ \A d \in Conn : SafeConnection(conns[d], carbon, pub.ahead)
  BY DEF Inv, TypeOK
<1>3. conns[c].queue \in Seq(Envelope)
  BY <1>2 DEF Connection
<1>4. /\ e \in Envelope /\ SafeFor(e, carbon, pub.ahead)
      /\ Tail(conns[c].queue) \in Seq(Envelope)
      /\ \A n \in 1..Len(Tail(conns[c].queue)) :
            SafeFor(Tail(conns[c].queue)[n], carbon, pub.ahead)
  <2>1. /\ Len(conns[c].queue) \in Nat \ {0}
        /\ e = conns[c].queue[1] /\ e \in Envelope
        /\ Tail(conns[c].queue) \in Seq(Envelope)
        /\ Len(Tail(conns[c].queue)) = Len(conns[c].queue) - 1
        /\ \A n \in 1..Len(Tail(conns[c].queue)) : Tail(conns[c].queue)[n] = conns[c].queue[n + 1]
    <3> DEFINE q == conns[c].queue
    <3> HIDE DEF q
    <3>1. q \in Seq(Envelope) /\ q # <<>>
      BY <1>1, <1>3 DEF q
    <3>2. Len(q) \in Nat \ {0} /\ Head(q) = q[1]
      BY <3>1, EmptySeq
    <3>3. /\ Head(q) \in Envelope /\ Tail(q) \in Seq(Envelope)
          /\ Len(Tail(q)) = Len(q) - 1
          /\ \A n \in 1..Len(Tail(q)) : Tail(q)[n] = q[n + 1]
      BY <3>1, HeadTailProperties
    <3> QED
      BY <3>2, <3>3 DEF q
  <2>2. \A n \in 1..Len(conns[c].queue) : SafeFor(conns[c].queue[n], carbon, pub.ahead)
    BY <1>2 DEF SafeConnection
  <2>3. 1 \in 1..Len(conns[c].queue)
    BY <2>1
  <2>4. \A n \in 1..Len(Tail(conns[c].queue)) : n + 1 \in 1..Len(conns[c].queue)
    BY <2>1
  <2> HIDE DEF e
  <2> QED
    BY <2>1, <2>2, <2>3, <2>4
<1>5. e.instance \in Instance /\ e.ahead \in Nat /\ e.kind \in {"snapshot", "shutdown"}
  BY <1>4 DEF Envelope
<1>6. count \in Nat
  BY <1>2, <1>4, <1>5 DEF SafeFor
<1>7. /\ pub' \in [at : {"wait", "second", "send"}, conn : Conn \union {None},
                  sent : View \union {None}, view : View, due : BOOLEAN, ahead : Nat]
      /\ pub'.ahead = count /\ pub'.at = pub.at /\ pub'.conn = pub.conn
  <2> HIDE DEF count
  <2> QED
    BY <1>1, <1>6 DEF Inv, TypeOK
<1>8. ASSUME NEW d \in Conn
      PROVE  new(d) \in Connection /\ SafeConnection(new(d), carbon, count)
  <2> DEFINE queue == Rebased(rest(d), e.instance, e.ahead)
             taken == [e EXCEPT !.ahead = 0]
  <2>1. /\ rest(d) \in Seq(Envelope)
        /\ \A n \in 1..Len(rest(d)) : SafeFor(rest(d)[n], carbon, pub.ahead)
    <3>1. CASE d = c
      BY <3>1, <1>4
    <3>2. CASE d # c
      BY <3>2, <1>2 DEF Connection, SafeConnection
    <3> QED
      BY <3>1, <3>2
  <2>2. /\ queue \in Seq(Envelope)
        /\ \A n \in 1..Len(queue) : SafeFor(queue[n], carbon, count)
    <3>1. queue \in Seq(Envelope)
      <4> HIDE DEF rest, e
      <4> QED
        BY <2>1, <1>5, RebasedIsAQueue
    <3>2. count = IF e.instance = carbon.instance /\ carbon.running
                  THEN pub.ahead - e.ahead ELSE pub.ahead
      OBVIOUS
    <3>3. \A n \in 1..Len(queue) : SafeFor(queue[n], carbon, count)
      <4>1. carbon \in [instance : Instance, running : BOOLEAN] /\ pub.ahead \in Nat
        BY <1>2
      <4>2. SafeQueue(rest(d), carbon, pub.ahead)
        BY <2>1 DEF SafeQueue
      <4> HIDE DEF rest, e, count, new
      <4>3. SafeQueue(Rebased(rest(d), e.instance, e.ahead), carbon, count)
        BY <4>1, <4>2, <2>1, <3>2, <1>5, <1>6, RebasedIsASafeQueue
      <4> QED
        BY <4>3 DEF SafeQueue
    <3> QED
      BY <3>1, <3>3
  <2>3. /\ taken \in Envelope /\ taken.instance = e.instance
        /\ taken.kind = e.kind /\ taken.ahead = 0
    BY <1>4 DEF Envelope
  <2>4. SafeFor(taken, carbon, count)
    BY <2>3, <1>4, <1>6 DEF SafeFor
  <2>5. <<taken>> \in Seq(Envelope) /\ <<taken>> # <<>> /\ <<taken>>[1] = taken
    <3> HIDE DEF taken
    <3> QED
      BY <2>3
  <2>6. conns[d] \in Connection /\ SafeConnection(conns[d], carbon, pub.ahead)
    BY <1>2
  <2>7. CASE d = c
    <3>1. /\ new(d) \in Connection /\ new(d).queue = queue
          /\ new(d).reader = "applying" /\ new(d).held = <<taken>>
      <4> HIDE DEF queue, taken
      <4>1. new(d) = [conns[d] EXCEPT !.queue = queue, !.reader = "applying",
                                      !.held = <<taken>>]
        BY <2>7 DEF queue, taken
      <4> HIDE DEF new
      <4> QED
        BY <4>1, <2>2, <2>5, <2>6 DEF Connection
    <3> HIDE DEF new, queue, taken, count
    <3> QED
      BY <3>1, <2>2, <2>3, <2>4, <2>5 DEF SafeConnection
  <2>8. CASE d # c
    <3>1. /\ new(d) \in Connection /\ new(d).queue = queue
          /\ new(d).reader = conns[d].reader /\ new(d).held = conns[d].held
      <4> HIDE DEF queue
      <4>1. new(d) = [conns[d] EXCEPT !.queue = queue, !.reader = @, !.held = @]
        BY <2>8 DEF queue
      <4> HIDE DEF new
      <4> QED
        BY <4>1, <2>2, <2>6 DEF Connection
    <3>2. ASSUME conns[d].reader = "applying"
          PROVE  /\ conns[d].held # <<>> /\ conns[d].held[1].ahead = 0
                 /\ SafeFor(conns[d].held[1], carbon, count)
      <4>1. /\ conns[d].held # <<>> /\ conns[d].held[1].ahead = 0
            /\ SafeFor(conns[d].held[1], carbon, pub.ahead)
        BY <3>2, <2>6 DEF SafeConnection
      <4> HIDE DEF count
      <4> QED
        BY <4>1, <1>6 DEF SafeFor
    <3> HIDE DEF new, queue, count
    <3> QED
      BY <3>1, <3>2, <2>2 DEF SafeConnection
  <2> QED
    BY <2>7, <2>8
<1> HIDE DEF new, count
<1>9. TypeOK'
  <2>1. conns' \in [Conn -> Connection]
    BY <1>1, <1>8
  <2> QED
    BY <2>1, <1>1, <1>7 DEF Inv, TypeOK
<1>10. \A d \in Conn : SafeConnection(conns'[d], carbon', pub'.ahead)
  BY <1>1, <1>7, <1>8
<1> QED
  BY <1>7, <1>9, <1>10 DEF Inv

\* A reader thread that ends its connection, an emptied buffer, a discarded
\* connection: envelopes are only lost.
LEMMA LosingSteps ==
    ASSUME Inv, NEW c \in Conn,
           Reject(c) \/ RejectLate(c) \/ EndOfStream(c) \/ Discard(c) \/ Break(c)
    PROVE  Inv'
<1> DEFINE broken == [conns[c] EXCEPT !.lost = TRUE, !.queue = <<>>]
<1>1. /\ UNCHANGED <<store, carbon, pub, ipc>> /\ faults' \in Nat
      /\ \/ conns' = [conns EXCEPT ![c] = Closed(conns[c])]
         \/ conns' = [conns EXCEPT ![c] = Unconnected]
         \/ conns' = [conns EXCEPT ![c] = broken]
  BY DEF Reject, RejectLate, EndOfStream, Discard, Break, Inv, TypeOK
<1>2. /\ conns[c] \in Connection /\ pub.ahead \in Nat
      /\ SafeConnection(conns[c], carbon, pub.ahead)
  BY DEF Inv, TypeOK
<1>3. /\ broken \in Connection /\ SafeConnection(broken, carbon, pub.ahead)
  <2>1. <<>> \in Seq(Envelope) /\ Len(<<>>) = 0
    BY EmptySeq
  <2>2. /\ broken \in Connection /\ broken.queue = <<>>
        /\ broken.reader = conns[c].reader /\ broken.held = conns[c].held
    BY <1>2, <2>1 DEF Connection
  <2> HIDE DEF broken
  <2> QED
    BY <1>2, <2>1, <2>2 DEF SafeConnection
<1> HIDE DEF broken
<1>4. /\ conns' \in [Conn -> Connection]
      /\ \A d \in Conn : SafeConnection(conns[d], carbon, pub.ahead)'
  <2>1. carbon' = carbon /\ pub'.ahead \in Nat /\ pub'.ahead >= pub.ahead
    BY <1>1, <1>2
  <2>2. CASE conns' = [conns EXCEPT ![c] = Closed(conns[c])]
    BY <1>2, <2>1, <2>2, EmptyIsSafe, OneConnection
  <2>3. CASE conns' = [conns EXCEPT ![c] = Unconnected]
    BY <1>2, <2>1, <2>3, EmptyIsSafe, OneConnection
  <2>4. CASE conns' = [conns EXCEPT ![c] = broken]
    BY <1>3, <2>1, <2>4, OneConnection
  <2> QED
    BY <1>1, <2>2, <2>3, <2>4
<1> QED
  BY <1>1, <1>4 DEF Inv, TypeOK

LEMMA ApplyStep ==
    ASSUME Inv, NEW c \in Conn, Apply(c)
    PROVE  Inv'
<1> DEFINE new == [conns[c] EXCEPT !.reader = "reading", !.held = <<>>]
           e == conns[c].held[1]
<1>1. /\ ipc' = Applied(e, c) /\ conns' = [conns EXCEPT ![c] = new]
      /\ conns[c].reader = "applying" /\ UNCHANGED <<store, carbon, pub, faults>>
  BY DEF Apply
<1>2. /\ conns[c] \in Connection /\ pub.ahead \in Nat
      /\ SafeConnection(conns[c], carbon, pub.ahead)
  BY DEF Inv, TypeOK
<1>3. e \in Envelope
  BY <1>1, <1>2, ElementOfSeq, EmptySeq DEF SafeConnection, Connection
<1>4. ipc' \in [active : BOOLEAN, instance : Instance \union {None}, age : Nat,
                view : View, from : Conn \union {None}]
  <2>1. Nothing \in View
    BY DEF Nothing, View
  <2>2. e.instance \in Instance /\ e.view \in View
    BY <1>3 DEF Envelope
  <2> HIDE DEF e
  <2> QED
    BY <1>1, <2>1, <2>2 DEF Applied, Inv, TypeOK
<1>5. /\ new \in Connection /\ new.queue = conns[c].queue /\ new.reader = "reading"
  <2>1. <<>> \in Seq(Envelope)
    BY EmptySeq
  <2> QED
    BY <1>2, <2>1 DEF Connection
<1> HIDE DEF new, e
<1>6. SafeConnection(new, carbon, pub.ahead)
  BY <1>2, <1>5 DEF SafeConnection
<1>7. /\ conns' \in [Conn -> Connection]
      /\ \A d \in Conn : SafeConnection(conns[d], carbon, pub.ahead)'
  <2>1. carbon' = carbon /\ pub'.ahead \in Nat /\ pub'.ahead >= pub.ahead
    BY <1>1, <1>2
  <2> QED
    BY <1>1, <1>5, <1>6, <2>1, OneConnection
<1> QED
  BY <1>1, <1>4, <1>7 DEF Inv, TypeOK

LEMMA RestartMessengerStep ==
    ASSUME Inv, RestartMessenger
    PROVE  Inv'
<1> DEFINE new(d) == [Closed(conns[d]) EXCEPT !.held = <<>>]
<1>1. /\ UNCHANGED <<store, carbon, pub>> /\ ipc' = NoState /\ faults' \in Nat
      /\ conns' = [d \in Conn |-> new(d)]
  BY DEF RestartMessenger, Inv, TypeOK
<1>2. <<>> \in Seq(Envelope) /\ Len(<<>>) = 0
  BY EmptySeq
<1>3. ASSUME NEW d \in Conn
      PROVE  new(d) \in Connection /\ SafeConnection(new(d), carbon, pub.ahead)
  <2>1. conns[d] \in Connection
    BY DEF Inv, TypeOK
  <2>2. Closed(conns[d]) \in Connection /\ Closed(conns[d]).reader = "none"
    BY <2>1, EmptyIsSafe
  <2>3. Closed(conns[d]).queue = <<>>
    BY <2>1 DEF Closed, Connection
  <2>4. new(d) \in Connection /\ new(d).reader = "none" /\ new(d).queue = <<>>
    <3> DEFINE closed == Closed(conns[d])
    <3> HIDE DEF closed
    <3>1. closed \in Connection /\ closed.reader = "none" /\ closed.queue = <<>>
      BY <2>2, <2>3 DEF closed
    <3>2. LET x == [closed EXCEPT !.held = <<>>]
          IN  x \in Connection /\ x.reader = "none" /\ x.queue = <<>>
      BY <1>2, <3>1 DEF Connection
    <3> QED
      BY <3>2 DEF closed
  <2> HIDE DEF new
  <2> QED
    BY <1>2, <2>4 DEF SafeConnection
<1>4. ipc' \in [active : BOOLEAN, instance : Instance \union {None}, age : Nat,
                view : View, from : Conn \union {None}]
  BY <1>1 DEF NoState, Nothing, View
<1> HIDE DEF new
<1>5. /\ conns' \in [Conn -> Connection]
      /\ \A d \in Conn : SafeConnection(conns'[d], carbon', pub'.ahead)
  BY <1>1, <1>3
<1> QED
  BY <1>1, <1>4, <1>5 DEF Inv, TypeOK

LEMMA TickStep ==
    ASSUME Inv, Tick
    PROVE  Inv'
<1>1. /\ UNCHANGED <<store, carbon, conns, faults>>
      /\ pub' = [pub EXCEPT !.due = TRUE]
      /\ ipc' = [ipc EXCEPT !.age = IF ipc.age > MaxAge THEN ipc.age ELSE ipc.age + 1]
  BY DEF Tick
<1>2. /\ pub' \in [at : {"wait", "second", "send"}, conn : Conn \union {None},
                  sent : View \union {None}, view : View, due : BOOLEAN, ahead : Nat]
      /\ pub'.ahead = pub.ahead /\ pub'.at = pub.at /\ pub'.conn = pub.conn
  BY <1>1 DEF Inv, TypeOK
<1>3. ipc' \in [active : BOOLEAN, instance : Instance \union {None}, age : Nat,
                view : View, from : Conn \union {None}]
  <2>1. ipc.age \in Nat
    BY DEF Inv, TypeOK
  <2>2. (IF ipc.age > MaxAge THEN ipc.age ELSE ipc.age + 1) \in Nat
    BY <2>1
  <2> QED
    BY <1>1, <2>2 DEF Inv, TypeOK
<1>4. TypeOK'
  BY <1>1, <1>2, <1>3 DEF Inv, TypeOK
<1> QED
  BY <1>1, <1>2, <1>4, QuietSteps DEF Inv

-----------------------------------------------------------------------------
(* The theorems.                                                           *)

THEOREM Invariant == Spec => []Inv
<1>1. Init => Inv
  <2> SUFFICES ASSUME Init
               PROVE  Inv
    OBVIOUS
  <2>1. Nothing \in View /\ 1 \in Instance
    BY ConstantsAssumption DEF Nothing, View, Instance
  <2>2. <<>> \in Seq(Envelope) /\ Len(<<>>) = 0
    BY EmptySeq
  <2>3. Unconnected \in Connection /\ Unconnected.reader = "none" /\ Unconnected.queue = <<>>
    BY <2>2 DEF Unconnected, Connection
  <2>4. \A c \in Conn : conns[c] = Unconnected
    BY DEF Init
  <2>5. TypeOK /\ pub.at = "wait"
    BY <2>1, <2>3 DEF Init, TypeOK, Status, IdlePublisher, NoState
  <2> QED
    BY <2>2, <2>3, <2>4, <2>5 DEF Inv, SafeConnection
<1>2. Inv /\ [Next]_vars => Inv'
  <2> SUFFICES ASSUME Inv, [Next]_vars
               PROVE  Inv'
    OBVIOUS
  <2>1. CASE \/ \E t \in Token : Login(t) \/ Retire(t)
             \/ \E old, new \in Token : Displace(old, new)
    BY <2>1, StoreSteps
  <2>2. CASE \E c \in Conn : Connect(c) \/ Serve(c) \/ RejectLate(c) \/ Break(c)
    BY <2>2, ConnectStep, VerifyStep, ApplyStep, LosingSteps DEF Serve
  <2>3. CASE Publish
    BY <2>3, SnapshotSteps, SendStep, SendFailsStep DEF Publish
  <2>4. CASE Stop \/ Crash \/ Start \/ RestartMessenger \/ Tick
    BY <2>4, StopStep, CrashStep, StartStep, RestartMessengerStep, TickStep
  <2>5. CASE UNCHANGED vars
    BY <2>5 DEF vars, Inv, TypeOK
  <2> QED
    BY <2>1, <2>2, <2>3, <2>4, <2>5 DEF Next
<1> QED
  BY <1>1, <1>2, PTL DEF Spec

\* Every variable keeps its type; in particular the rebased sequence numbers
\* never become negative.
THEOREM TypeCorrectness == Spec => []TypeOK
<1>1. Inv => TypeOK
  BY DEF Inv
<1> QED
  BY <1>1, Invariant, PTL

\* Whatever delays, reconnections and restarts happen, no envelope of an earlier
\* process makes the Messenger forget the running one.
THEOREM TheRunningInstanceStaysShown == Spec => RunningInstanceStaysShown
<1>1. Inv /\ [Next]_vars
      => [/\ ipc.active /\ ipc.instance = carbon.instance /\ carbon.running
          => ipc'.active \/ faults' > faults]_vars
  <2> SUFFICES ASSUME Inv, Next,
                      ipc.active, ipc.instance = carbon.instance, carbon.running
               PROVE  ipc'.active \/ faults' > faults
    OBVIOUS
  <2>1. CASE ipc' = ipc
    BY <2>1
  <2>2. CASE Tick
    BY <2>2 DEF Tick, Inv, TypeOK
  <2>3. CASE RestartMessenger
    BY <2>3 DEF RestartMessenger, Inv, TypeOK
  <2>4. ASSUME NEW c \in Conn, Apply(c)
        PROVE  ipc'.active
    <3> DEFINE e == conns[c].held[1]
    <3>1. /\ conns[c].reader = "applying" /\ ipc' = Applied(e, c)
      BY <2>4 DEF Apply
    <3>2. SafeFor(e, carbon, pub.ahead)
      BY <3>1 DEF Inv, SafeConnection
    <3>3. carbon.instance # None
      BY ConstantsAssumption DEF Inv, TypeOK, Instance
    <3> HIDE DEF e
    <3>4. CASE e.kind = "snapshot"
      BY <3>1, <3>4 DEF Applied
    <3>5. CASE e.kind # "snapshot"
      <4>1. e.instance # carbon.instance
        BY <3>2, <3>5 DEF SafeFor
      <4>2. ~ClearedBy(e.instance)
        BY <4>1, <3>3 DEF ClearedBy
      <4> QED
        BY <3>1, <3>5, <4>2 DEF Applied
    <3> QED
      BY <3>4, <3>5
  <2>5. \/ ipc' = ipc \/ Tick \/ RestartMessenger
        \/ \E c \in Conn : Apply(c)
    BY DEF Next, Login, Retire, Displace, Connect, Serve, Verify, Reject, RejectLate,
           EndOfStream, Discard, Break, Publish, ReadFirst, ReadSecond, Skip, Send,
           SendFails, Stop, Crash, Start
  <2> QED
    BY <2>1, <2>2, <2>3, <2>4, <2>5
<1> QED
  BY <1>1, Invariant, PTL DEF Spec, RunningInstanceStaysShown

-----------------------------------------------------------------------------
(* The order of the snapshots.  Along one connection the views come in the *)
(* order in which they were read: the one that is shown, the one a reader  *)
(* thread holds, those in the socket buffers and the one being read.  What *)
(* an earlier one names, a later one names too, until the store drops it.  *)

\* A view, or the snapshot in an envelope, names the token t.
NamedIn(v, t) == t \in v.sessions \union v.forced
Names(e, t) == e.kind = "snapshot" /\ NamedIn(e.view, t)

\* An envelope that comes later does not take t away.
Carries(e, t) == e.kind = "snapshot" => NamedIn(e.view, t)

Holds(conn) == conn.reader = "applying"

\* t is named by what is on its way over a connection.
Waits(conn, t) ==
    \/ \E n \in 1..Len(conn.queue) : Names(conn.queue[n], t)
    \/ Holds(conn) /\ Names(conn.held[1], t)

\* The view that the publisher has read names t, or its second half will.
Reads(t) ==
    /\ pub.at = "second" => t \in pub.view.sessions \/ store[t] = "displaced"
    /\ pub.at = "send" => NamedIn(pub.view, t)

\* On its way over one connection, t is not taken away again.
QueueInOrder(conn, t) ==
    /\ \A n, m \in 1..Len(conn.queue) :
          n <= m /\ Names(conn.queue[n], t) => Carries(conn.queue[m], t)
    /\ Holds(conn) /\ Names(conn.held[1], t) =>
          \A m \in 1..Len(conn.queue) : Carries(conn.queue[m], t)

\* Nothing on its way over the connection takes t away.
ShownFirst(conn, t) ==
    /\ \A m \in 1..Len(conn.queue) : Carries(conn.queue[m], t)
    /\ Holds(conn) => Carries(conn.held[1], t)

ShownOver(c, t) == ipc.from = c /\ NamedIn(ipc.view, t)

InOrder(c, t) ==
    /\ QueueInOrder(conns[c], t)
    /\ ShownOver(c, t) => ShownFirst(conns[c], t)
    /\ pub.conn = c /\ (Waits(conns[c], t) \/ ShownOver(c, t)) => Reads(t)

\* Nothing names a token before it is issued.
Unheard(t) ==
    /\ ~NamedIn(pub.view, t) /\ ~NamedIn(ipc.view, t)
    /\ \A c \in Conn : ~Waits(conns[c], t)

Ordered ==
    \A t \in Token :
        /\ store[t] = "unused" => Unheard(t)
        /\ store[t] # "gone" => \A c \in Conn : InOrder(c, t)

\* A connection that carries no more than another one.
NoMoreThan(new, conn) ==
    /\ new.queue = conn.queue \/ Len(new.queue) = 0
    /\ Holds(new) => Holds(conn) /\ new.held = conn.held

LEMMA NothingNames ==
    ASSUME NEW t
    PROVE  ~NamedIn(Nothing, t)
BY DEF NamedIn, Nothing

LEMMA LessIsInOrder ==
    ASSUME NEW conn, NEW new, NEW t, NoMoreThan(new, conn)
    PROVE  /\ Waits(new, t) => Waits(conn, t)
           /\ QueueInOrder(conn, t) => QueueInOrder(new, t)
           /\ ShownFirst(conn, t) => ShownFirst(new, t)
<1>1. CASE new.queue = conn.queue
  BY <1>1 DEF NoMoreThan, Waits, QueueInOrder, ShownFirst
<1>2. CASE Len(new.queue) = 0
  <2>1. 1..Len(new.queue) = {}
    BY <1>2
  <2> QED
    BY <2>1 DEF NoMoreThan, Waits, QueueInOrder, ShownFirst
<1> QED
  BY <1>1, <1>2 DEF NoMoreThan

\* The steps that only lose what is on its way, or leave it alone: the
\* publisher reads nothing more and the Messenger shows nothing more.
LEMMA NothingIsAdded ==
    ASSUME Ordered,
           \A t \in Token :
              /\ store'[t] = "unused" => store[t] = "unused"
              /\ store'[t] # "gone" => store[t] # "gone"
              /\ store[t] = "displaced" => store'[t] \in {"displaced", "gone"},
           \A d \in Conn : NoMoreThan(conns'[d], conns[d]),
           \/ pub'.at = "wait" /\ pub'.view \in {pub.view, Nothing}
           \/ pub'.at = pub.at /\ pub'.conn = pub.conn /\ pub'.view = pub.view,
           \/ ipc'.view = Nothing
           \/ ipc'.view = ipc.view /\ ipc'.from = ipc.from
    PROVE  Ordered'
<1> SUFFICES ASSUME NEW t \in Token
             PROVE  /\ store'[t] = "unused" => Unheard(t)'
                    /\ store'[t] # "gone" => \A c \in Conn : InOrder(c, t)'
  BY DEF Ordered
<1>1. \A d \in Conn :
         /\ Waits(conns'[d], t) => Waits(conns[d], t)
         /\ QueueInOrder(conns[d], t) => QueueInOrder(conns'[d], t)
         /\ ShownFirst(conns[d], t) => ShownFirst(conns'[d], t)
  BY LessIsInOrder
<1>2. ~NamedIn(Nothing, t)
  BY NothingNames
<1>3. NamedIn(ipc'.view, t) => NamedIn(ipc.view, t) /\ ipc'.from = ipc.from
  BY <1>2
<1>4. ASSUME store'[t] = "unused"
      PROVE  Unheard(t)'
  <2>1. Unheard(t)
    BY <1>4 DEF Ordered
  <2>2. NamedIn(pub'.view, t) => NamedIn(pub.view, t)
    BY <1>2
  <2> QED
    BY <2>1, <2>2, <1>1, <1>3 DEF Unheard
<1>5. ASSUME store'[t] # "gone", NEW c \in Conn
      PROVE  InOrder(c, t)'
  <2>1. InOrder(c, t)
    BY <1>5 DEF Ordered
  <2>2. ShownOver(c, t)' => ShownOver(c, t)
    BY <1>3 DEF ShownOver
  <2>3. CASE pub'.at = "wait"
    <3>1. Reads(t)'
      BY <2>3 DEF Reads
    <3> QED
      BY <2>1, <2>2, <3>1, <1>1 DEF InOrder
  <2>4. CASE pub'.at = pub.at /\ pub'.conn = pub.conn /\ pub'.view = pub.view
    <3>1. Reads(t) => Reads(t)'
      BY <2>4, <1>5 DEF Reads
    <3> QED
      BY <2>1, <2>2, <2>4, <3>1, <1>1 DEF InOrder
  <2> QED
    BY <2>3, <2>4
<1> QED
  BY <1>4, <1>5

LEMMA StoreKeepsOrder ==
    ASSUME Inv, Ordered,
           \/ \E t \in Token : Login(t) \/ Retire(t)
           \/ \E old, new \in Token : Displace(old, new)
    PROVE  Ordered'
<1>1. UNCHANGED <<pub, conns, ipc>>
  BY DEF Login, Retire, Displace
<1>2. \A t \in Token :
         /\ store'[t] = "unused" => store[t] = "unused"
         /\ store'[t] # "gone" => store[t] # "gone"
         /\ store[t] = "displaced" => store'[t] \in {"displaced", "gone"}
  BY DEF Login, Retire, Displace, Inv, TypeOK
<1>3. \A d \in Conn : NoMoreThan(conns'[d], conns[d])
  BY <1>1 DEF NoMoreThan
<1> QED
  BY <1>1, <1>2, <1>3, NothingIsAdded

\* A step that leaves the store alone and replaces one connection.
LEMMA OneLoses ==
    ASSUME Inv, Ordered, NEW c \in Conn, NEW new, NoMoreThan(new, conns[c]),
           conns' = [conns EXCEPT ![c] = new], store' = store,
           \/ pub'.at = "wait" /\ pub'.view \in {pub.view, Nothing}
           \/ pub' = pub,
           ipc'.view = Nothing \/ ipc' = ipc
    PROVE  Ordered'
<1>1. \A d \in Conn : NoMoreThan(conns'[d], conns[d])
  BY DEF NoMoreThan, Inv, TypeOK
<1> QED
  BY <1>1, NothingIsAdded

LEMMA LosingKeepsOrder ==
    ASSUME Inv, Ordered, NEW c \in Conn,
           \/ Connect(c) \/ Reject(c) \/ RejectLate(c) \/ EndOfStream(c)
           \/ Discard(c) \/ Break(c)
    PROVE  Ordered'
<1> DEFINE opened == [conns[c] EXCEPT !.open = TRUE, !.reader = "reading"]
           broken == [conns[c] EXCEPT !.lost = TRUE, !.queue = <<>>]
<1>1. /\ conns[c] \in Connection /\ Len(<<>>) = 0
  BY EmptySeq DEF Inv, TypeOK
<1>2. /\ NoMoreThan(opened, conns[c]) /\ NoMoreThan(broken, conns[c])
      /\ NoMoreThan(Closed(conns[c]), conns[c]) /\ NoMoreThan(Unconnected, conns[c])
  BY <1>1 DEF NoMoreThan, Holds, Closed, Unconnected, Connection
<1>3. CASE Connect(c)
  <2>1. /\ conns' = [conns EXCEPT ![c] = opened] /\ store' = store /\ ipc' = ipc
        /\ pub'.at = "wait" /\ pub'.view = pub.view
    BY <1>3 DEF Connect, Publishing, Inv, TypeOK
  <2> HIDE DEF opened
  <2> QED
    BY <2>1, <1>2, OneLoses
<1>4. CASE ~Connect(c)
  <2>1. /\ UNCHANGED <<store, pub, ipc>>
        /\ \/ conns' = [conns EXCEPT ![c] = Closed(conns[c])]
           \/ conns' = [conns EXCEPT ![c] = Unconnected]
           \/ conns' = [conns EXCEPT ![c] = broken]
    BY <1>4 DEF Reject, RejectLate, EndOfStream, Discard, Break
  <2> HIDE DEF broken
  <2> QED
    BY <2>1, <1>2, OneLoses
<1> QED
  BY <1>3, <1>4

LEMMA EndingKeepsOrder ==
    ASSUME Inv, Ordered, Crash \/ Start \/ RestartMessenger \/ Tick \/ Skip \/ SendFails
    PROVE  Ordered'
<1>1. \A d \in Conn : conns[d] \in Connection
  BY DEF Inv, TypeOK
<1>2. Len(<<>>) = 0
  BY EmptySeq
<1>3. CASE Crash
  <2>1. \A d \in Conn : NoMoreThan([conns[d] EXCEPT !.open = FALSE], conns[d])
    BY <1>1 DEF NoMoreThan, Holds, Connection
  <2>2. \A d \in Conn : NoMoreThan(conns'[d], conns[d])
    BY <1>3, <2>1 DEF Crash
  <2>3. store' = store /\ ipc' = ipc /\ pub'.at = "wait" /\ pub'.view = Nothing
    BY <1>3 DEF Crash, IdlePublisher
  <2> QED
    BY <2>2, <2>3, NothingIsAdded
<1>4. CASE Start
  <2>1. \A t \in Token : store'[t] = IF store[t] = "unused" THEN "unused" ELSE "gone"
    BY <1>4 DEF Start
  <2>2. UNCHANGED <<pub, conns, ipc>>
    BY <1>4 DEF Start
  <2>3. \A d \in Conn : NoMoreThan(conns'[d], conns[d])
    BY <2>2 DEF NoMoreThan
  <2> QED
    BY <2>1, <2>2, <2>3, NothingIsAdded
<1>5. CASE RestartMessenger
  <2>1. \A d \in Conn : NoMoreThan([Closed(conns[d]) EXCEPT !.held = <<>>], conns[d])
    BY <1>1, <1>2 DEF NoMoreThan, Holds, Closed, Connection
  <2>2. \A d \in Conn : NoMoreThan(conns'[d], conns[d])
    BY <1>5, <2>1 DEF RestartMessenger
  <2>3. UNCHANGED <<store, pub>> /\ ipc'.view = Nothing
    BY <1>5 DEF RestartMessenger, NoState
  <2> QED
    BY <2>2, <2>3, NothingIsAdded
<1>6. CASE Tick \/ Skip
  <2>1. UNCHANGED <<store, conns>> /\ ipc'.view = ipc.view /\ ipc'.from = ipc.from
    BY <1>6 DEF Tick, Skip, Inv, TypeOK
  <2>2. \/ pub'.at = "wait" /\ pub'.view = Nothing
        \/ pub'.at = pub.at /\ pub'.conn = pub.conn /\ pub'.view = pub.view
    BY <1>6 DEF Tick, Skip, Inv, TypeOK
  <2>3. \A d \in Conn : NoMoreThan(conns'[d], conns[d])
    BY <2>1 DEF NoMoreThan
  <2> QED
    BY <2>1, <2>2, <2>3, NothingIsAdded
<1>7. CASE SendFails
  <2> DEFINE c == pub.conn
             new == [conns[c] EXCEPT !.open = FALSE]
  <2>1. /\ c \in Conn /\ conns' = [conns EXCEPT ![c] = new] /\ UNCHANGED <<store, ipc>>
        /\ pub'.at = "wait" /\ pub'.view = Nothing
    BY <1>7 DEF SendFails, Publishing, Inv, TypeOK
  <2>2. NoMoreThan(new, conns[c])
    BY <2>1, <1>1 DEF NoMoreThan, Holds, Connection
  <2> HIDE DEF new, c
  <2> QED
    BY <2>1, <2>2, OneLoses
<1> QED
  BY <1>3, <1>4, <1>5, <1>6, <1>7

\* A first read finds every session that something names, or will find it
\* displaced at the second; the second completes the view.
LEMMA ReadingKeepsOrder ==
    ASSUME Inv, Ordered, ReadFirst \/ ReadSecond
    PROVE  Ordered'
<1>1. /\ pub.view \in View /\ UNCHANGED <<store, conns, ipc>>
      /\ pub'.conn = pub.conn
  BY DEF Inv, TypeOK, ReadFirst, ReadSecond
<1> SUFFICES ASSUME NEW t \in Token
             PROVE  /\ store'[t] = "unused" => Unheard(t)'
                    /\ store'[t] # "gone" => \A c \in Conn : InOrder(c, t)'
  BY DEF Ordered
<1>2. /\ ReadFirst => /\ pub'.at = "second"
                      /\ pub'.view.sessions = Having("live")
                      /\ pub'.view.forced = pub.view.forced
      /\ ReadSecond => /\ pub.at = "second" /\ pub'.at = "send"
                       /\ pub'.view.sessions = pub.view.sessions
                       /\ pub'.view.forced = Having("displaced")
  <2>1. /\ Read(1) = [pub.view EXCEPT !["sessions"] = Having("live")]
        /\ Read(2) = [pub.view EXCEPT !["forced"] = Having("displaced")]
    BY DEF Read, ReadOrder
  <2>2. /\ Read(1).sessions = Having("live") /\ Read(1).forced = pub.view.forced
        /\ Read(2).sessions = pub.view.sessions /\ Read(2).forced = Having("displaced")
    BY <1>1, <2>1 DEF View
  <2>3. /\ ReadFirst => pub'.at = "second" /\ pub'.view = Read(1)
        /\ ReadSecond => pub.at = "second" /\ pub'.at = "send" /\ pub'.view = Read(2)
    BY DEF ReadFirst, ReadSecond, Publishing, Inv, TypeOK
  <2> QED
    BY <2>2, <2>3
<1>3. /\ t \in Having("live") <=> store[t] = "live"
      /\ t \in Having("displaced") <=> store[t] = "displaced"
  BY DEF Having
<1>4. ASSUME store'[t] = "unused"
      PROVE  Unheard(t)'
  <2>1. Unheard(t)
    BY <1>1, <1>4 DEF Ordered
  <2>2. ~NamedIn(pub'.view, t)
    BY <2>1, <1>1, <1>2, <1>3, <1>4 DEF Unheard, NamedIn
  <2> QED
    BY <2>1, <2>2, <1>1 DEF Unheard
<1>5. ASSUME store'[t] # "gone", NEW c \in Conn
      PROVE  InOrder(c, t)'
  <2>1. InOrder(c, t)
    BY <1>1, <1>5 DEF Ordered
  <2>2. ASSUME pub.conn = c, Waits(conns[c], t) \/ ShownOver(c, t)
        PROVE  Reads(t)'
    <3>1. Reads(t)
      BY <2>1, <2>2 DEF InOrder
    <3>2. store[t] # "unused"
      BY <2>2 DEF Ordered, Unheard, ShownOver
    <3>3. store[t] \in {"live", "displaced"}
      BY <3>2, <1>1, <1>5 DEF Inv, TypeOK, Status
    <3> QED
      BY <3>1, <3>3, <1>1, <1>2, <1>3 DEF Reads, NamedIn
  <2> QED
    BY <2>1, <2>2, <1>1 DEF InOrder, ShownOver
<1> QED
  BY <1>4, <1>5

\* An envelope joins the ones on its way.
LEMMA AppendInOrder ==
    ASSUME NEW conn \in Connection, NEW new \in Connection, NEW e \in Envelope, NEW t,
           new.queue \in {conn.queue, Append(conn.queue, e)},
           new.reader = conn.reader, new.held = conn.held
    PROVE  /\ Waits(new, t) => Waits(conn, t) \/ Names(e, t)
           /\ QueueInOrder(conn, t) /\ (Waits(conn, t) => Carries(e, t)) => QueueInOrder(new, t)
           /\ ShownFirst(conn, t) /\ Carries(e, t) => ShownFirst(new, t)
<1>1. CASE new.queue = conn.queue
  BY <1>1 DEF Waits, QueueInOrder, ShownFirst, Holds
<1>2. CASE new.queue = Append(conn.queue, e)
  <2>1. /\ Len(new.queue) = Len(conn.queue) + 1 /\ Len(conn.queue) \in Nat
        /\ \A n \in 1..Len(conn.queue) : new.queue[n] = conn.queue[n]
        /\ new.queue[Len(conn.queue) + 1] = e
    BY <1>2, AppendProperties, LenProperties DEF Connection
  <2>2. \A n \in 1..Len(new.queue) :
           \/ n \in 1..Len(conn.queue) /\ new.queue[n] = conn.queue[n]
           \/ n = Len(conn.queue) + 1 /\ new.queue[n] = e
    BY <2>1
  <2>3. Holds(new) = Holds(conn)
    BY DEF Holds
  <2>4. Names(e, t) => Carries(e, t)
    BY DEF Names, Carries
  <2>5. Waits(new, t) => Waits(conn, t) \/ Names(e, t)
    BY <2>2, <2>3 DEF Waits
  <2>6. ASSUME QueueInOrder(conn, t), Waits(conn, t) => Carries(e, t)
        PROVE  QueueInOrder(new, t)
    <3>1. ASSUME NEW n \in 1..Len(new.queue), NEW m \in 1..Len(new.queue), n <= m,
                 Names(new.queue[n], t)
          PROVE  Carries(new.queue[m], t)
      <4>1. CASE m = Len(conn.queue) + 1
        BY <3>1, <4>1, <2>1, <2>2, <2>4, <2>6 DEF Waits
      <4>2. CASE m # Len(conn.queue) + 1
        <5>1. /\ n \in 1..Len(conn.queue) /\ m \in 1..Len(conn.queue)
              /\ new.queue[n] = conn.queue[n] /\ new.queue[m] = conn.queue[m]
          BY <3>1, <4>2, <2>1, <2>2
        <5> QED
          BY <5>1, <3>1, <2>6 DEF QueueInOrder
      <4> QED
        BY <4>1, <4>2
    <3>2. ASSUME Holds(new), Names(new.held[1], t), NEW m \in 1..Len(new.queue)
          PROVE  Carries(new.queue[m], t)
      BY <3>2, <2>2, <2>3, <2>6 DEF QueueInOrder, Waits
    <3> QED
      BY <3>1, <3>2 DEF QueueInOrder
  <2>7. ShownFirst(conn, t) /\ Carries(e, t) => ShownFirst(new, t)
    BY <2>2, <2>3 DEF ShownFirst
  <2> QED
    BY <2>5, <2>6, <2>7
<1> QED
  BY <1>1, <1>2

LEMMA SendKeepsOrder ==
    ASSUME Inv, Ordered, Send
    PROVE  Ordered'
<1> DEFINE c == pub.conn
           e == Sealed("snapshot")
           new == Sent(c, "snapshot")
<1>1. /\ c \in Conn /\ pub.at = "send" /\ conns' = [conns EXCEPT ![c] = new]
      /\ UNCHANGED <<store, ipc>> /\ pub'.at = "wait" /\ pub'.view = Nothing
  BY DEF Send, Publishing, Inv, TypeOK
<1>2. /\ e \in Envelope /\ conns[c] \in Connection /\ new \in Connection
      /\ new.reader = conns[c].reader /\ new.held = conns[c].held
      /\ new.queue \in {conns[c].queue, Append(conns[c].queue, e)}
  BY <1>1, SentConnection DEF Inv, TypeOK
<1>3. e.kind = "snapshot" /\ e.view = pub.view
  BY DEF Sealed
<1>4. /\ conns'[c] = new /\ \A d \in Conn : d # c => conns'[d] = conns[d]
  BY <1>1 DEF Inv, TypeOK
<1> SUFFICES ASSUME NEW t \in Token
             PROVE  /\ store'[t] = "unused" => Unheard(t)'
                    /\ store'[t] # "gone" => \A d \in Conn : InOrder(d, t)'
  BY DEF Ordered
<1> HIDE DEF e, new
<1>5. /\ Waits(new, t) => Waits(conns[c], t) \/ Names(e, t)
      /\ QueueInOrder(conns[c], t) /\ (Waits(conns[c], t) => Carries(e, t))
         => QueueInOrder(new, t)
      /\ ShownFirst(conns[c], t) /\ Carries(e, t) => ShownFirst(new, t)
  BY <1>2, AppendInOrder
<1>6. (Names(e, t) <=> NamedIn(pub.view, t)) /\ (Carries(e, t) <=> NamedIn(pub.view, t))
  BY <1>3 DEF Names, Carries
<1>7. ASSUME store'[t] = "unused"
      PROVE  Unheard(t)'
  <2>1. Unheard(t)
    BY <1>1, <1>7 DEF Ordered
  <2>2. ~NamedIn(pub'.view, t)
    BY <1>1, NothingNames
  <2>3. \A d \in Conn : ~Waits(conns'[d], t)
    BY <2>1, <1>4, <1>5, <1>6 DEF Unheard
  <2> QED
    BY <2>1, <2>2, <2>3, <1>1 DEF Unheard
<1>8. ASSUME store'[t] # "gone", NEW d \in Conn
      PROVE  InOrder(d, t)'
  <2>1. InOrder(d, t)
    BY <1>1, <1>8 DEF Ordered
  <2>2. Reads(t)'
    BY <1>1 DEF Reads
  <2>3. CASE d # c
    BY <2>1, <2>2, <2>3, <1>1, <1>4 DEF InOrder, ShownOver
  <2>4. CASE d = c
    <3>1. Waits(conns[c], t) \/ ShownOver(c, t) => Carries(e, t)
      BY <2>1, <2>4, <1>1, <1>6 DEF InOrder, Reads
    <3> QED
      BY <2>1, <2>2, <2>4, <3>1, <1>1, <1>4, <1>5 DEF InOrder, ShownOver
  <2> QED
    BY <2>3, <2>4
<1> QED
  BY <1>7, <1>8

\* The envelope of a shutdown names nothing and takes nothing away.
LEMMA StopKeepsOrder ==
    ASSUME Inv, Ordered, Stop
    PROVE  Ordered'
<1>1. UNCHANGED <<store, ipc>> /\ pub'.at = "wait" /\ pub'.view = Nothing
  BY DEF Stop, IdlePublisher
<1>2. CASE pub.conn = None
  <2>1. \A d \in Conn : NoMoreThan(conns'[d], conns[d])
    BY <1>2 DEF Stop, NoMoreThan
  <2> QED
    BY <1>1, <2>1, NothingIsAdded
<1>3. CASE pub.conn # None
  <2> DEFINE c == pub.conn
             e == Sealed("shutdown")
             sent == IF Accepts(c) THEN Sent(c, "shutdown") ELSE conns[c]
             new == [sent EXCEPT !.open = FALSE]
  <2>1. c \in Conn /\ conns' = [conns EXCEPT ![c] = new]
    BY <1>3 DEF Stop, Publishing, Inv, TypeOK
  <2>2. /\ e \in Envelope /\ conns[c] \in Connection /\ sent \in Connection
        /\ sent.reader = conns[c].reader /\ sent.held = conns[c].held
        /\ sent.queue \in {conns[c].queue, Append(conns[c].queue, e)}
    BY <2>1, SentConnection DEF Inv, TypeOK
  <2> HIDE DEF sent
  <2>3. /\ new \in Connection
        /\ new.reader = conns[c].reader /\ new.held = conns[c].held
        /\ new.queue \in {conns[c].queue, Append(conns[c].queue, e)}
    <3> HIDE DEF e
    <3> QED
      BY <2>2 DEF Connection
  <2>4. /\ conns'[c] = new /\ \A d \in Conn : d # c => conns'[d] = conns[d]
    <3> HIDE DEF new
    <3> QED
      BY <2>1 DEF Inv, TypeOK
  <2>5. \A t : ~Names(e, t) /\ Carries(e, t)
    BY DEF Names, Carries, Sealed
  <2> HIDE DEF new, e
  <2> SUFFICES ASSUME NEW t \in Token
               PROVE  /\ store'[t] = "unused" => Unheard(t)'
                      /\ store'[t] # "gone" => \A d \in Conn : InOrder(d, t)'
    BY DEF Ordered
  <2>6. /\ Waits(new, t) => Waits(conns[c], t)
        /\ QueueInOrder(conns[c], t) => QueueInOrder(new, t)
        /\ ShownFirst(conns[c], t) => ShownFirst(new, t)
    BY <2>2, <2>3, <2>5, AppendInOrder
  <2>7. store'[t] = "unused" => Unheard(t)'
    BY <1>1, <2>4, <2>6, NothingNames DEF Ordered, Unheard
  <2>8. ASSUME store'[t] # "gone", NEW d \in Conn
        PROVE  InOrder(d, t)'
    <3>1. InOrder(d, t)
      BY <1>1, <2>8 DEF Ordered
    <3>2. Reads(t)'
      BY <1>1 DEF Reads
    <3> QED
      BY <3>1, <3>2, <1>1, <2>4, <2>6 DEF InOrder, ShownOver
  <2> QED
    BY <2>7, <2>8
<1> QED
  BY <1>2, <1>3

-----------------------------------------------------------------------------
(* What the Messenger's threads do with the envelopes.                     *)

\* Rebasing changes no envelope's content.
LEMMA RebasedContent ==
    ASSUME NEW s \in Seq(Envelope), NEW i \in Instance, NEW k \in Nat, NEW t
    PROVE  /\ Len(Rebased(s, i, k)) = Len(s)
           /\ \A n \in 1..Len(s) :
                 /\ Names(Rebased(s, i, k)[n], t) <=> Names(s[n], t)
                 /\ Carries(Rebased(s, i, k)[n], t) <=> Carries(s[n], t)
<1>1. Len(Rebased(s, i, k)) = Len(s)
  BY RebasedIsAQueue
<1>2. ASSUME NEW n \in 1..Len(s)
      PROVE  /\ Rebased(s, i, k)[n].kind = s[n].kind
             /\ Rebased(s, i, k)[n].view = s[n].view
  <2>1. DOMAIN s = 1..Len(s)
    BY LenProperties
  <2>2. s[n] \in Envelope
    BY ElementOfSeq
  <2>3. Rebased(s, i, k)[n] = IF s[n].instance # i THEN s[n]
                              ELSE [s[n] EXCEPT !.ahead = IF @ > k THEN @ - k ELSE 0]
    BY <2>1 DEF Rebased
  <2> QED
    BY <2>2, <2>3 DEF Envelope
<1> QED
  BY <1>1, <1>2 DEF Names, Carries

\* Two connections on which the same is on its way.
LEMMA SameContent ==
    ASSUME NEW conn, NEW new, NEW t, Len(new.queue) = Len(conn.queue),
           \A n \in 1..Len(conn.queue) :
              /\ Names(new.queue[n], t) <=> Names(conn.queue[n], t)
              /\ Carries(new.queue[n], t) <=> Carries(conn.queue[n], t),
           new.reader = conn.reader, new.held = conn.held
    PROVE  /\ Waits(new, t) => Waits(conn, t)
           /\ QueueInOrder(conn, t) => QueueInOrder(new, t)
           /\ ShownFirst(conn, t) => ShownFirst(new, t)
BY DEF Waits, QueueInOrder, ShownFirst, Holds

\* The first envelope in the queue becomes the one that is held.
LEMMA TakenInOrder ==
    ASSUME NEW conn, NEW new, NEW t, ~Holds(conn), NEW k \in Nat,
           Len(conn.queue) = k + 1, Len(new.queue) = k,
           \A n \in 1..k :
              /\ Names(new.queue[n], t) <=> Names(conn.queue[n + 1], t)
              /\ Carries(new.queue[n], t) <=> Carries(conn.queue[n + 1], t),
           Names(new.held[1], t) <=> Names(conn.queue[1], t),
           Carries(new.held[1], t) <=> Carries(conn.queue[1], t)
    PROVE  /\ Waits(new, t) => Waits(conn, t)
           /\ QueueInOrder(conn, t) => QueueInOrder(new, t)
           /\ ShownFirst(conn, t) => ShownFirst(new, t)
<1>1. 1 \in 1..(k + 1) /\ \A n \in 1..k : n + 1 \in 1..(k + 1) /\ 1 <= n + 1
  OBVIOUS
<1>2. \A n, m \in 1..k : n <= m => n + 1 <= m + 1
  OBVIOUS
<1>3. Waits(new, t) => Waits(conn, t)
  BY <1>1 DEF Waits
<1>4. ASSUME QueueInOrder(conn, t)
      PROVE  QueueInOrder(new, t)
  <2>1. \A n, m \in 1..(k + 1) :
           n <= m /\ Names(conn.queue[n], t) => Carries(conn.queue[m], t)
    BY <1>4 DEF QueueInOrder
  <2>2. \A n, m \in 1..k : n <= m /\ Names(new.queue[n], t) => Carries(new.queue[m], t)
    BY <2>1, <1>1, <1>2
  <2>3. Names(new.held[1], t) => \A m \in 1..k : Carries(new.queue[m], t)
    BY <2>1, <1>1
  <2> QED
    BY <2>2, <2>3 DEF QueueInOrder
<1>5. ShownFirst(conn, t) => ShownFirst(new, t)
  BY <1>1 DEF ShownFirst
<1> QED
  BY <1>3, <1>4, <1>5

LEMMA VerifyKeepsOrder ==
    ASSUME Inv, Ordered, NEW c \in Conn, Verify(c)
    PROVE  Ordered'
<1> DEFINE e == Head(conns[c].queue)
           rest(d) == IF d = c THEN Tail(conns[d].queue) ELSE conns[d].queue
           queue(d) == Rebased(rest(d), e.instance, e.ahead)
           taken == [e EXCEPT !.ahead = 0]
           new(d) == [conns[d] EXCEPT
                         !.queue = queue(d),
                         !.reader = IF d = c THEN "applying" ELSE @,
                         !.held = IF d = c THEN <<taken>> ELSE @]
<1>1. /\ conns[c].reader = "reading" /\ conns[c].queue # <<>>
      /\ conns' = [d \in Conn |-> new(d)] /\ UNCHANGED <<store, ipc>>
      /\ pub'.at = pub.at /\ pub'.conn = pub.conn /\ pub'.view = pub.view
  BY DEF Verify, Inv, TypeOK
<1>2. \A d \in Conn : conns[d] \in Connection /\ conns[d].queue \in Seq(Envelope)
  BY DEF Inv, TypeOK, Connection
<1>3. /\ Len(conns[c].queue) \in Nat \ {0}
      /\ e = conns[c].queue[1] /\ e \in Envelope
      /\ Tail(conns[c].queue) \in Seq(Envelope)
      /\ Len(Tail(conns[c].queue)) = Len(conns[c].queue) - 1
      /\ \A n \in 1..Len(Tail(conns[c].queue)) : Tail(conns[c].queue)[n] = conns[c].queue[n + 1]
  <2> DEFINE q == conns[c].queue
  <2> HIDE DEF q
  <2>1. q \in Seq(Envelope) /\ q # <<>>
    BY <1>1, <1>2 DEF q
  <2>2. Len(q) \in Nat \ {0} /\ Head(q) = q[1]
    BY <2>1, EmptySeq
  <2>3. /\ Head(q) \in Envelope /\ Tail(q) \in Seq(Envelope)
        /\ Len(Tail(q)) = Len(q) - 1
        /\ \A n \in 1..Len(Tail(q)) : Tail(q)[n] = q[n + 1]
    BY <2>1, HeadTailProperties
  <2> QED
    BY <2>2, <2>3 DEF q
<1> HIDE DEF e
<1>4. e.instance \in Instance /\ e.ahead \in Nat
  BY <1>3 DEF Envelope
<1>5. \A d \in Conn : rest(d) \in Seq(Envelope)
  BY <1>2, <1>3
<1>6. taken.kind = e.kind /\ taken.view = e.view
  BY <1>3 DEF Envelope
<1> HIDE DEF taken, queue
<1>7. ASSUME NEW d \in Conn
      PROVE  /\ new(d).queue = queue(d)
             /\ d = c => new(d).reader = "applying" /\ new(d).held = <<taken>>
             /\ d # c => new(d).reader = conns[d].reader /\ new(d).held = conns[d].held
  BY <1>2 DEF Connection
<1> HIDE DEF new, rest
<1>8. ASSUME NEW d \in Conn, NEW t
      PROVE  /\ Waits(new(d), t) => Waits(conns[d], t)
             /\ QueueInOrder(conns[d], t) => QueueInOrder(new(d), t)
             /\ ShownFirst(conns[d], t) => ShownFirst(new(d), t)
  <2>1. /\ Len(queue(d)) = Len(rest(d))
        /\ \A n \in 1..Len(rest(d)) :
              /\ Names(queue(d)[n], t) <=> Names(rest(d)[n], t)
              /\ Carries(queue(d)[n], t) <=> Carries(rest(d)[n], t)
    BY <1>4, <1>5, RebasedContent DEF queue
  <2>2. CASE d # c
    <3>1. rest(d) = conns[d].queue
      BY <2>2 DEF rest
    <3> QED
      BY <2>1, <2>2, <3>1, <1>7, SameContent
  <2>3. CASE d = c
    <3> DEFINE k == Len(conns[c].queue) - 1
    <3>1. rest(d) = Tail(conns[c].queue)
      BY <2>3 DEF rest
    <3>2. k \in Nat /\ Len(conns[d].queue) = k + 1 /\ Len(new(d).queue) = k
      BY <2>1, <2>3, <3>1, <1>3, <1>7
    <3>3. Len(rest(d)) = k /\ \A n \in 1..k : rest(d)[n] = conns[d].queue[n + 1]
      BY <2>3, <3>1, <1>3
    <3>4. \A n \in 1..k :
             /\ Names(new(d).queue[n], t) <=> Names(conns[d].queue[n + 1], t)
             /\ Carries(new(d).queue[n], t) <=> Carries(conns[d].queue[n + 1], t)
      BY <2>1, <3>3, <1>7
    <3>5. /\ Names(new(d).held[1], t) <=> Names(conns[d].queue[1], t)
          /\ Carries(new(d).held[1], t) <=> Carries(conns[d].queue[1], t)
      BY <2>3, <1>3, <1>6, <1>7 DEF Names, Carries
    <3>6. ~Holds(conns[d])
      BY <2>3, <1>1 DEF Holds
    <3> HIDE DEF k
    <3> QED
      BY <3>2, <3>4, <3>5, <3>6, TakenInOrder
  <2> QED
    BY <2>2, <2>3
<1>9. \A d \in Conn : conns'[d] = new(d)
  BY <1>1
<1> SUFFICES ASSUME NEW t \in Token
             PROVE  /\ store'[t] = "unused" => Unheard(t)'
                    /\ store'[t] # "gone" => \A d \in Conn : InOrder(d, t)'
  BY DEF Ordered
<1>10. store'[t] = "unused" => Unheard(t)'
  BY <1>1, <1>8, <1>9 DEF Ordered, Unheard
<1>11. ASSUME store'[t] # "gone", NEW d \in Conn
       PROVE  InOrder(d, t)'
  <2>1. InOrder(d, t)
    BY <1>1, <1>11 DEF Ordered
  <2>2. Reads(t)' = Reads(t)
    BY <1>1 DEF Reads
  <2> QED
    BY <2>1, <2>2, <1>1, <1>8, <1>9 DEF InOrder, ShownOver
<1> QED
  BY <1>10, <1>11

\* The view that was held is shown, and what follows it does not take away
\* what it names.
LEMMA ApplyKeepsOrder ==
    ASSUME Inv, Ordered, NEW c \in Conn, Apply(c)
    PROVE  Ordered'
<1> DEFINE new == [conns[c] EXCEPT !.reader = "reading", !.held = <<>>]
           e == conns[c].held[1]
<1>1. /\ ipc' = Applied(e, c) /\ conns' = [conns EXCEPT ![c] = new]
      /\ conns[c].reader = "applying" /\ UNCHANGED <<store, pub>>
  BY DEF Apply
<1>2. conns[c] \in Connection
  BY DEF Inv, TypeOK
<1>3. new.queue = conns[c].queue /\ ~Holds(new)
  BY <1>2 DEF Connection, Holds
<1>4. NoMoreThan(new, conns[c])
  BY <1>3 DEF NoMoreThan
<1> HIDE DEF new
<1>5. CASE e.kind # "snapshot"
  <2>1. ipc'.view = Nothing \/ ipc' = ipc
    BY <1>1, <1>5 DEF Applied, Inv, TypeOK
  <2> QED
    BY <2>1, <1>1, <1>4, OneLoses
<1>6. CASE e.kind = "snapshot"
  <2>1. ipc'.view = e.view /\ ipc'.from = c
    BY <1>1, <1>6 DEF Applied
  <2>2. /\ conns'[c] = new /\ \A d \in Conn : d # c => conns'[d] = conns[d]
    BY <1>1 DEF Inv, TypeOK
  <2> SUFFICES ASSUME NEW t \in Token
               PROVE  /\ store'[t] = "unused" => Unheard(t)'
                      /\ store'[t] # "gone" => \A d \in Conn : InOrder(d, t)'
    BY DEF Ordered
  <2>3. /\ Waits(new, t) => Waits(conns[c], t)
        /\ QueueInOrder(conns[c], t) => QueueInOrder(new, t)
    BY <1>4, LessIsInOrder
  <2>4. /\ NamedIn(e.view, t) => Waits(conns[c], t)
        /\ NamedIn(e.view, t) /\ QueueInOrder(conns[c], t) => ShownFirst(new, t)
    BY <1>1, <1>3, <1>6 DEF Waits, QueueInOrder, ShownFirst, Names, Holds
  <2> HIDE DEF e
  <2>5. store'[t] = "unused" => Unheard(t)'
    BY <1>1, <2>1, <2>2, <2>3, <2>4 DEF Ordered, Unheard
  <2>6. ASSUME store'[t] # "gone", NEW d \in Conn
        PROVE  InOrder(d, t)'
    <3>1. InOrder(d, t)
      BY <1>1, <2>6 DEF Ordered
    <3>2. Reads(t)' = Reads(t)
      BY <1>1 DEF Reads
    <3> QED
      BY <3>1, <3>2, <1>1, <2>1, <2>2, <2>3, <2>4 DEF InOrder, ShownOver
  <2> QED
    BY <2>5, <2>6
<1> QED
  BY <1>5, <1>6

LEMMA OrderedIsInvariant == Spec => []Ordered
<1>1. Init => Ordered
  <2> SUFFICES ASSUME Init
               PROVE  Ordered
    OBVIOUS
  <2>1. \A c \in Conn : conns[c] = Unconnected
    BY DEF Init
  <2>2. Len(Unconnected.queue) = 0 /\ ~Holds(Unconnected)
    BY EmptySeq DEF Unconnected, Holds
  <2>3. 1..Len(Unconnected.queue) = {}
    BY <2>2
  <2>4. pub.view = Nothing /\ ipc.view = Nothing /\ pub.at = "wait"
    BY DEF Init, IdlePublisher, NoState
  <2>5. \A t \in Token : ~NamedIn(Nothing, t)
    BY NothingNames
  <2> QED
    BY <2>1, <2>2, <2>3, <2>4, <2>5
       DEF Ordered, Unheard, InOrder, ShownOver, Waits, QueueInOrder, Reads
<1>2. Inv /\ Ordered /\ [Next]_vars => Ordered'
  <2> SUFFICES ASSUME Inv, Ordered, [Next]_vars
               PROVE  Ordered'
    OBVIOUS
  <2>1. CASE \/ \E t \in Token : Login(t) \/ Retire(t)
             \/ \E old, new \in Token : Displace(old, new)
    BY <2>1, StoreKeepsOrder
  <2>2. CASE \E c \in Conn : Connect(c) \/ Serve(c) \/ RejectLate(c) \/ Break(c)
    BY <2>2, LosingKeepsOrder, VerifyKeepsOrder, ApplyKeepsOrder DEF Serve
  <2>3. CASE Publish
    BY <2>3, ReadingKeepsOrder, SendKeepsOrder, EndingKeepsOrder DEF Publish
  <2>4. CASE Stop \/ Crash \/ Start \/ RestartMessenger \/ Tick
    BY <2>4, StopKeepsOrder, EndingKeepsOrder
  <2>5. CASE UNCHANGED vars
    <3>1. \A d \in Conn : NoMoreThan(conns'[d], conns[d])
      BY <2>5 DEF vars, NoMoreThan
    <3> QED
      BY <2>5, <3>1, NothingIsAdded DEF vars
  <2> QED
    BY <2>1, <2>2, <2>3, <2>4, <2>5 DEF Next
<1> QED
  BY <1>1, <1>2, Invariant, PTL DEF Spec

\* While snapshots keep coming over one connection, no token leaves the view of
\* the Messenger before the identity store has dropped it: not between the two
\* reads of a snapshot, and not by a snapshot that waited in a buffer.
THEOREM TokensStayUntilDropped == Spec => TokensLeaveOnlyWhenDropped
<1>1. Inv /\ Ordered /\ [Next]_vars
      => [\A t \in Token :
             /\ Shown(t) /\ ipc'.active /\ ipc'.from = ipc.from
             => Shown(t)' \/ store[t] = "gone"]_vars
  <2> SUFFICES ASSUME Inv, Ordered, Next, NEW t \in Token,
                      Shown(t), ipc'.active, ipc'.from = ipc.from, store[t] # "gone"
               PROVE  Shown(t)'
    OBVIOUS
  <2>1. CASE ipc'.view = ipc.view
    BY <2>1 DEF Shown
  <2>2. ASSUME NEW c \in Conn, Apply(c)
        PROVE  Shown(t)'
    <3> DEFINE e == conns[c].held[1]
    <3>1. conns[c].reader = "applying" /\ ipc' = Applied(e, c)
      BY <2>2 DEF Apply
    <3>2. CASE e.kind = "snapshot"
      <4>1. ipc'.view = e.view /\ ipc.from = c
        BY <3>1, <3>2 DEF Applied
      <4>2. InOrder(c, t)
        BY DEF Ordered
      <4>3. Carries(e, t)
        BY <3>1, <4>1, <4>2 DEF InOrder, ShownOver, NamedIn, Shown, ShownFirst, Holds
      <4> QED
        BY <3>2, <4>1, <4>3 DEF Carries, NamedIn, Shown
    <3>3. CASE e.kind # "snapshot"
      <4> HIDE DEF e
      <4>1. ipc' = ipc
        BY <3>1, <3>3 DEF Applied, Inv, TypeOK
      <4> QED
        BY <4>1, <2>1
    <3> QED
      BY <3>2, <3>3
  <2>3. ~RestartMessenger
    BY DEF RestartMessenger, NoState
  <2>4. ipc'.view = ipc.view \/ \E c \in Conn : Apply(c)
    <3>1. Tick => ipc'.view = ipc.view
      BY DEF Tick, Inv, TypeOK
    <3> QED
      BY <2>3, <3>1 DEF Next, Login, Retire, Displace, Connect, Serve, Verify, Reject,
         RejectLate, EndOfStream, Discard, Break, Publish, ReadFirst, ReadSecond, Skip, Send,
         SendFails, Stop, Crash, Start
  <2> QED
    BY <2>1, <2>2, <2>4
<1> QED
  BY <1>1, Invariant, OrderedIsInvariant, PTL DEF Spec, TokensLeaveOnlyWhenDropped
=============================================================================
