------------------------- MODULE AtpManager_proofs -------------------------
(***************************************************************************)
(* The books of the ATP manager match its sessions in every reachable      *)
(* state, and nothing is left of them when stop() has returned.            *)
(***************************************************************************)
EXTENDS AtpManager, FiniteSetTheorems, TLAPS

\* The types the argument needs.
BookTypes ==
  /\ servers \subseteq Endpoints
  /\ clients \subseteq Peers /\ sessionTasks \subseteq Peers /\ publishing \subseteq Peers
  /\ activePeers \in [Endpoints -> Int]
  /\ pc \in [Peers -> Registered \cup {"none", "closing"}]
  /\ endpoint \in [Peers -> Endpoints \cup {Other}]

\* Where a registered session was accepted, ...
EndpointsKnown == \A p \in Peers : pc[p] \in Registered => endpoint[p] \in Endpoints

\* ... and which phases follow the one that awaits the cancelled tasks.
Over == {"stopped", "failed"}
OverIsOver ==
  /\ phase \in Over => /\ \A p \in Peers : pc[p] = "none"
                       /\ publishing = {} /\ servers = {}
  /\ phase = "ending sessions" => servers = {}
  /\ ~coreRunning => phase = "stopped"

BookInv == BookTypes /\ BooksMatchSessions /\ EndpointsKnown /\ OverIsOver

-----------------------------------------------------------------------------
\* A session that is accepted raises the count of its endpoint by one and
\* leaves the others alone (_serve_peer).
LEMMA CountAccepted ==
  ASSUME AtpAssumption, NEW S \in SUBSET Peers, NEW p \in Peers, p \notin S,
         NEW f, NEW g, NEW e, NEW d, \A q \in S : g[q] = f[q], g[p] = e
  PROVE  Cardinality(PeersAt(S \cup {p}, g, d))
           = IF d = e THEN Cardinality(PeersAt(S, f, d)) + 1
                      ELSE Cardinality(PeersAt(S, f, d))
<1> DEFINE old == PeersAt(S, f, d)
<1>1. IsFiniteSet(old)
  BY FS_Subset DEF AtpAssumption, PeersAt
<1>2. CASE d = e
  <2>1. PeersAt(S \cup {p}, g, d) = old \cup {p}
    BY <1>2 DEF PeersAt
  <2>2. p \notin old
    BY DEF PeersAt
  <2>3. Cardinality(old \cup {p}) = Cardinality(old) + 1
    BY <1>1, <2>2, FS_AddElement
  <2> QED BY <1>2, <2>1, <2>3
<1>3. CASE d # e
  <2>1. PeersAt(S \cup {p}, g, d) = old
    BY <1>3 DEF PeersAt
  <2> QED BY <1>3, <2>1
<1> QED BY <1>2, <1>3

\* A session that is cleaned up lowers the count of its endpoint by one.
LEMMA CountCleaned ==
  ASSUME AtpAssumption, NEW S \in SUBSET Peers, NEW p \in S,
         NEW f \in [Peers -> Endpoints \cup {Other}], NEW d \in Endpoints
  PROVE  Cardinality(PeersAt(S \ {p}, f, d))
           = IF d = f[p] THEN Cardinality(PeersAt(S, f, d)) - 1
                         ELSE Cardinality(PeersAt(S, f, d))
<1> DEFINE old == PeersAt(S, f, d)
<1>1. IsFiniteSet(old)
  BY FS_Subset DEF AtpAssumption, PeersAt
<1>2. CASE d = f[p]
  <2>1. PeersAt(S \ {p}, f, d) = old \ {p} /\ p \in old
    BY <1>2 DEF PeersAt
  <2> HIDE DEF old
  <2>2. Cardinality(old \ {p}) = Cardinality(old) - 1
    BY <1>1, <2>1, FS_RemoveElement
  <2> QED BY <1>2, <2>1, <2>2 DEF old
<1>3. CASE d # f[p]
  <2>1. PeersAt(S \ {p}, f, d) = old
    BY <1>3 DEF PeersAt
  <2> QED BY <1>3, <2>1
<1> QED BY <1>2, <1>3

-----------------------------------------------------------------------------
\* Before start() the books are empty.
LEMMA InitBooks == AtpAssumption /\ Init => BookInv
  BY FS_EmptySet DEF Init, PeersAt, BookInv, BookTypes, BooksMatchSessions, EndpointsKnown, OverIsOver,
     Over, Registered

\* Steps that leave the books, the tasks and the phase alone.
LEMMA SameBooks ==
  ASSUME BookInv,
         UNCHANGED <<phase, servers, books, subscribers, pc, endpoint, publishing, coreRunning>>
  PROVE  BookInv'
  BY DEF BookInv, BookTypes, BooksMatchSessions, EndpointsKnown, OverIsOver, Over, books

\* _on_connect enters a new session in every book.
LEMMA AcceptBooks ==
  ASSUME AtpAssumption, BookInv, NEW p \in Peers, NEW e \in Endpoints, Accept(p, e)
  PROVE  BookInv'
<1> USE DEF BookInv
<1>1. p \notin clients
  BY DEF BooksMatchSessions, Accept, Registered
<1>2. BookTypes'
  BY DEF BookTypes, Accept, managerVars, Registered
<1>3. BooksMatchSessions'
  <2>1. clients' = {q \in Peers : pc'[q] \in Registered}
    BY DEF BooksMatchSessions, BookTypes, Accept, Registered
  <2>2. queues' = clients' /\ publishers' = clients' /\ subscribers' = clients'
    BY DEF BooksMatchSessions, Accept
  <2>3. sessionTasks' = {q \in Peers : pc'[q] # "none"}
    BY DEF BooksMatchSessions, BookTypes, Accept
  <2>4. ASSUME NEW d \in Endpoints
        PROVE  activePeers'[d] = Cardinality(PeersAt(clients', endpoint', d))
    <3>1. activePeers[d] = Cardinality(PeersAt(clients, endpoint, d))
      BY DEF BooksMatchSessions
    <3>2. Cardinality(PeersAt(clients', endpoint', d))
            = IF d = e THEN activePeers[d] + 1 ELSE activePeers[d]
      <4>1. clients' = clients \cup {p} /\ endpoint'[p] = e
        BY DEF BookTypes, Accept
      <4>2. \A q \in clients : endpoint'[q] = endpoint[q]
        BY <1>1 DEF BookTypes, Accept
      <4>3. clients \in SUBSET Peers
        BY DEF BookTypes
      <4> QED BY <1>1, <3>1, <4>1, <4>2, <4>3, CountAccepted
    <3>3. activePeers'[d] = IF d = e THEN activePeers[d] + 1 ELSE activePeers[d]
      BY DEF BookTypes, Accept
    <3> QED BY <3>2, <3>3
  <2> QED BY <2>1, <2>2, <2>3, <2>4 DEF BooksMatchSessions
<1>4. EndpointsKnown'
  BY DEF EndpointsKnown, BookTypes, Accept
<1>5. OverIsOver'
  BY DEF OverIsOver, Over, Accept, managerVars
<1> QED BY <1>2, <1>3, <1>4, <1>5

\* Submitting, reading on and unwinding change only where a session waits.
LEMMA MoveBooks ==
  ASSUME BookInv, NEW p \in Peers, pc[p] \in Registered, NEW to \in Registered,
         pc' = [pc EXCEPT ![p] = to],
         UNCHANGED <<phase, servers, books, subscribers, endpoint, publishing, coreRunning>>
  PROVE  BookInv'
<1> USE DEF BookInv, books
<1>1. BookTypes' /\ EndpointsKnown'
  BY DEF BookTypes, EndpointsKnown
<1>2. BooksMatchSessions'
  BY DEF BookTypes, BooksMatchSessions, Registered
<1>3. OverIsOver'
  BY DEF BookTypes, OverIsOver, Registered
<1> QED BY <1>1, <1>2, <1>3

\* A session's finally takes it out of every book.
LEMMA CleanUpBooks ==
  ASSUME AtpAssumption, BookInv, NEW p \in Peers, CleanUp(p)
  PROVE  BookInv'
<1> USE DEF BookInv
<1>1. p \in clients /\ endpoint[p] \in Endpoints
  BY DEF BooksMatchSessions, EndpointsKnown, CleanUp, Registered
<1>2. BookTypes' /\ EndpointsKnown'
  BY DEF BookTypes, EndpointsKnown, CleanUp, managerVars, Registered
<1>3. BooksMatchSessions'
  <2>1. clients' = {q \in Peers : pc'[q] \in Registered}
    BY DEF BooksMatchSessions, BookTypes, CleanUp, Registered
  <2>2. queues' = clients' /\ publishers' = clients' /\ subscribers' = clients'
    BY DEF BooksMatchSessions, CleanUp
  <2>3. sessionTasks' = {q \in Peers : pc'[q] # "none"}
    BY DEF BooksMatchSessions, BookTypes, CleanUp
  <2>4. ASSUME NEW d \in Endpoints
        PROVE  activePeers'[d] = Cardinality(PeersAt(clients', endpoint', d))
    <3>1. activePeers[d] = Cardinality(PeersAt(clients, endpoint, d))
      BY DEF BooksMatchSessions
    <3>2. Cardinality(PeersAt(clients', endpoint', d))
            = IF d = endpoint[p] THEN activePeers[d] - 1 ELSE activePeers[d]
      BY <1>1, <3>1, CountCleaned DEF BookTypes, CleanUp
    <3>3. activePeers'[d] = IF d = endpoint[p] THEN activePeers[d] - 1 ELSE activePeers[d]
      BY <1>1 DEF BookTypes, CleanUp
    <3> QED BY <3>2, <3>3
  <2> QED BY <2>1, <2>2, <2>3, <2>4 DEF BooksMatchSessions
<1>4. OverIsOver'
  BY DEF BookTypes, OverIsOver, CleanUp, managerVars
<1> QED BY <1>2, <1>3, <1>4

\* A session task that ends has left the lists in its finally already.
LEMMA SessionEndsBooks ==
  ASSUME BookInv, NEW p \in Peers, SessionEnds(p)
  PROVE  BookInv'
<1> USE DEF BookInv
<1>1. BookTypes' /\ EndpointsKnown'
  BY DEF BookTypes, EndpointsKnown, SessionEnds, managerVars, Registered
<1>2. BooksMatchSessions'
  <2>1. clients' = {q \in Peers : pc'[q] \in Registered}
    BY DEF BooksMatchSessions, BookTypes, SessionEnds, Registered
  <2>2. queues' = clients' /\ publishers' = clients' /\ subscribers' = clients'
    BY DEF BooksMatchSessions, SessionEnds, coreVars
  <2>3. sessionTasks' = {q \in Peers : pc'[q] # "none"}
    BY DEF BooksMatchSessions, BookTypes, SessionEnds
  <2>4. ASSUME NEW d \in Endpoints
        PROVE  activePeers'[d] = Cardinality(PeersAt(clients', endpoint', d))
    <3>1. PeersAt(clients', endpoint', d) = PeersAt(clients, endpoint, d)
      BY DEF BooksMatchSessions, BookTypes, SessionEnds, Registered, PeersAt
    <3> QED BY <3>1 DEF BooksMatchSessions, SessionEnds
  <2> QED BY <2>1, <2>2, <2>3, <2>4 DEF BooksMatchSessions
<1>3. OverIsOver'
  BY DEF BookTypes, OverIsOver, SessionEnds, managerVars, coreVars
<1> QED BY <1>1, <1>2, <1>3

\* Everything that is left is cleared: by then nothing is.
LEMMA StoppedBooks ==
  ASSUME AtpAssumption, BookInv, Stopped
  PROVE  BookInv'
<1> USE DEF BookInv
<1>1. \A p \in Peers : pc[p] = "none"
  BY DEF BooksMatchSessions, Stopped
<1>2. clients = {} /\ subscribers = {}
  BY <1>1 DEF BooksMatchSessions, Registered
<1>3. BookTypes' /\ EndpointsKnown'
  <2>1. activePeers' \in [Endpoints -> Int]
    <3>1. activePeers' = [e \in Endpoints |-> 0]
      BY DEF Stopped
    <3> QED BY <3>1
  <2>2. clients' = {} /\ sessionTasks' = {} /\ UNCHANGED <<servers, pc, endpoint, publishing>>
    BY DEF Stopped, sessionVars
  <2> QED BY <2>1, <2>2 DEF BookTypes, EndpointsKnown
<1>4. BooksMatchSessions'
  BY <1>1, <1>2, FS_EmptySet DEF BooksMatchSessions, PeersAt, Stopped, sessionVars, Registered
<1>5. OverIsOver'
  BY <1>1 DEF OverIsOver, Over, Stopped, sessionVars
<1> QED BY <1>3, <1>4, <1>5

-----------------------------------------------------------------------------
\* One step of any task.
LEMMA NextBooks == AtpAssumption /\ BookInv /\ [Next]_vars => BookInv'
<1> SUFFICES ASSUME AtpAssumption, BookInv, [Next]_vars
             PROVE  BookInv'
  OBVIOUS
<1> USE DEF managerVars, wireVars, coreVars
<1>1. CASE Apply \/ AskReset
  BY <1>1, SameBooks DEF Apply, AskReset, sessionVars
<1>2. ASSUME NEW p \in Peers
      PROVE  /\ \A e \in Endpoints : Accept(p, e) => BookInv'
             /\ \A m \in Messages : Receive(p, m) => BookInv'
             /\ Resume(p) \/ ReadEnds(p) \/ Cancelled(p) => BookInv'
             /\ PublisherEnds(p) => BookInv'
             /\ CleanUp(p) \/ SessionEnds(p) => BookInv'
             /\ TransportLost(p) => BookInv'
             /\ \A to \in {"attentive", "stalled", "left"} : PeerActs(p, to) => BookInv'
  <2>1. \A e \in Endpoints : Accept(p, e) => BookInv'
    BY AcceptBooks
  <2>2. \A m \in Messages : Receive(p, m) => BookInv'
    BY MoveBooks DEF Receive, Submit, Registered
  <2>3. Resume(p) => BookInv'
    BY MoveBooks DEF Resume, Submit, Registered
  <2>4. ReadEnds(p) \/ Cancelled(p) => BookInv'
    BY MoveBooks DEF ReadEnds, Cancelled, Unwind, Registered
  <2>5. PublisherEnds(p) => BookInv'
    <3>1. SUFFICES ASSUME PublisherEnds(p)
                   PROVE  BookInv'
      OBVIOUS
    <3>2. /\ publishing' = publishing \ {p}
          /\ UNCHANGED <<phase, servers, books, subscribers, pc, endpoint, coreRunning>>
      BY <3>1 DEF PublisherEnds
    <3>3. BookTypes' /\ BooksMatchSessions' /\ EndpointsKnown'
      BY <3>2 DEF BookInv, BookTypes, BooksMatchSessions, EndpointsKnown, books
    <3>4. OverIsOver'
      BY <3>2 DEF BookInv, OverIsOver
    <3> QED BY <3>3, <3>4 DEF BookInv
  <2>6. CleanUp(p) \/ SessionEnds(p) => BookInv'
    BY CleanUpBooks, SessionEndsBooks
  <2>7. TransportLost(p) => BookInv'
    BY SameBooks DEF TransportLost, sessionVars
  <2>8. \A to \in {"attentive", "stalled", "left"} : PeerActs(p, to) => BookInv'
    BY SameBooks DEF PeerActs, sessionVars
  <2> QED BY <2>1, <2>2, <2>3, <2>4, <2>5, <2>6, <2>7, <2>8
<1>3. ASSUME NEW e \in Endpoints, OpenServer(e)
      PROVE  BookInv'
  BY <1>3 DEF OpenServer, BookInv, BookTypes, BooksMatchSessions, EndpointsKnown, OverIsOver,
     Over, books, sessionVars
<1>4. CASE Started \/ Stop \/ ServersClosed \/ StopCore
  <2>1. /\ UNCHANGED <<books, pc, endpoint, publishing, subscribers>>
        /\ servers' \in {servers, {}}
    BY <1>4 DEF Started, Stop, ServersClosed, StopCore, sessionVars, coreVars, managerVars
  <2>2. BookTypes' /\ BooksMatchSessions' /\ EndpointsKnown'
    BY <2>1 DEF BookInv, BookTypes, BooksMatchSessions, EndpointsKnown, books
  <2>3. OverIsOver'
    <3>1. CASE Started \/ Stop
      BY <2>1, <3>1 DEF Started, Stop, coreVars, BookInv, OverIsOver, Over
    <3>2. CASE ServersClosed
      BY <2>1, <3>2 DEF ServersClosed, coreVars, BookInv, OverIsOver, Over
    <3>3. CASE StopCore
      BY <2>1, <3>3 DEF StopCore, managerVars, BookInv, OverIsOver, Over
    <3> QED BY <1>4, <3>1, <3>2, <3>3
  <2> QED BY <2>2, <2>3 DEF BookInv
<1>5. CASE Stopped
  BY <1>5, StoppedBooks
<1>6. CASE UNCHANGED vars
  BY <1>6, SameBooks DEF vars, sessionVars
<1> QED BY <1>1, <1>2, <1>3, <1>4, <1>5, <1>6 DEF Next

\* In every reachable state the client list, the queues, the publishers, the
\* peer counts and the core's subscribers agree on which sessions exist, for
\* any number of connections and listeners.
THEOREM BooksAreExact == Spec => []BooksMatchSessions
<1>1. Init => BookInv
  BY AtpAssumption, InitBooks
<1>2. BookInv /\ [Next]_vars => BookInv'
  BY AtpAssumption, NextBooks
<1>3. BookInv => BooksMatchSessions
  BY DEF BookInv
<1> QED BY <1>1, <1>2, <1>3, PTL DEF Spec

\* When stop() has returned no task of the adapter is left, and the core has
\* outlived them all.
THEOREM StopLeavesNothing == Spec => []NothingLeftBehind
<1>1. Init => BookInv
  BY AtpAssumption, InitBooks
<1>2. BookInv /\ [Next]_vars => BookInv'
  BY AtpAssumption, NextBooks
<1>3. BookInv => NothingLeftBehind
  BY DEF BookInv, OverIsOver, Over, BooksMatchSessions, NothingLeftBehind, Registered
<1> QED BY <1>1, <1>2, <1>3, PTL DEF Spec

=============================================================================
