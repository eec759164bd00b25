-------------------------- MODULE SensorServerProofs --------------------------
(***************************************************************************)
(* For every number of clients, and however many processes are killed: the *)
(* mutex is with whom it should be, an event that is set means a server    *)
(* that listens, a server that runs can be found, and sessions are kept.   *)
(***************************************************************************)
EXTENDS SensorServer, TLAPS

-----------------------------------------------------------------------------
(* Types and the mutex.                                                    *)

\* Clients and servers are processes, all different.
LEMMA Names ==
  /\ \A c \in Clients : {C(c), S(c)} \subseteq Processes \ {Nobody}
  /\ \A c, d \in Clients : C(c) # S(d)
  /\ \A c, d \in Clients : c # d => C(c) # C(d) /\ S(c) # S(d)
  BY ClientsAssumption DEF ClientsAssumption, C, S, Processes

\* What processes do to the event leaves it an event.
LEMMA EventTypes ==
  ASSUME NEW e \in [set : BOOLEAN, users : SUBSET Processes, undo : SUBSET Processes],
         NEW p \in Processes
  PROVE  {Opened(e, p), Closed(e, p), Set(e, p), Reset(e), Ended(e, p)} \subseteq
           [set : BOOLEAN, users : SUBSET Processes, undo : SUBSET Processes]
<1> DEFINE Events == [set : BOOLEAN, users : SUBSET Processes, undo : SUBSET Processes]
<1>1. e.set \in BOOLEAN /\ e.users \subseteq Processes /\ e.undo \subseteq Processes
  OBVIOUS
<1>2. (e.set /\ e.users # {}) \in BOOLEAN /\ (e.set /\ p \notin e.undo) \in BOOLEAN
  BY Zenon
<1>3. ASSUME NEW b \in BOOLEAN, NEW U \in SUBSET Processes, NEW V \in SUBSET Processes
      PROVE  [set |-> b, users |-> U, undo |-> V] \in Events
  OBVIOUS
<1>4. Opened(e, p) \in Events /\ Ended(e, p) \in Events
  <2> HIDE DEF Events
  <2> QED
    BY <1>1, <1>2, <1>3, Zenon DEF Opened, Ended
<1>5. Closed(e, p) \in Events /\ Set(e, p) \in Events /\ Reset(e) \in Events
  BY <1>1 DEF Closed, Set, Reset
<1> QED
  BY <1>4, <1>5

\* A client that has not started its server has none.
NotYet == \A c \in Clients : client[c] \in {"init", "ask", "start"} => server[c] = "none"

LEMMA TypeInit == Init => TypeOK /\ NotYet
<1> SUFFICES ASSUME Init PROVE TypeOK /\ NotYet
  OBVIOUS
<1>1. 0 \in 0 .. MaxCrashes /\ 0 \in 0 .. MaxAgain
  BY BoundsAssumption DEF BoundsAssumption
<1>2. \A c \in Clients :
        client[c] = "init" /\ server[c] = "none" /\ mutex # C(c) /\ mutex # S(c)
  BY Names DEF Init
<1> QED
  BY <1>1, <1>2 DEF Init, TypeOK, NotYet

\* The steps of the clients, and of the servers.
LEMMA TypeClient ==
  ASSUME TypeOK, NotYet, NEW c \in Clients, Client(c) \/ Bye(c) \/ Again(c)
  PROVE  TypeOK' /\ NotYet'
<1> USE Names DEF TypeOK, NotYet, netVars
<1>1. CASE ClientLock(c)
  <2>1. event' \in [set : BOOLEAN, users : SUBSET Processes, undo : SUBSET Processes]
    BY <1>1, EventTypes DEF ClientLock
  <2>2. CASE Lock(C(c)) /\ Goes(c, "ask")
    BY <1>1, <2>1, <2>2 DEF ClientLock, Lock, Goes
  <2>3. CASE mutex # Nobody /\ UNCHANGED mutex /\ Goes(c, "giveup")
    BY <1>1, <2>1, <2>3 DEF ClientLock, Goes
  <2> QED
    BY <1>1, <2>2, <2>3 DEF ClientLock
<1>2. CASE Ask(c)
  BY <1>2 DEF Ask, Unlock, Goes
<1>3. CASE StartServerProcess(c)
  BY <1>3 DEF StartServerProcess, Goes
<1>4. CASE Wait(c)
  BY <1>4 DEF Wait, Goes
<1>5. CASE Connect(c)
  BY <1>5 DEF Connect, Goes
<1>6. CASE Return(c)
  BY <1>6, EventTypes DEF Return, Goes
<1>7. CASE Bye(c)
  BY <1>7 DEF Bye, Goes
<1>8. CASE Again(c)
  BY <1>8, BoundsAssumption DEF Again, Goes, BoundsAssumption
<1> QED
  BY <1>1, <1>2, <1>3, <1>4, <1>5, <1>6, <1>7, <1>8 DEF Client

LEMMA TypeServer ==
  ASSUME TypeOK, NotYet, NEW c \in Clients, Server(c)
  PROVE  TypeOK' /\ NotYet'
<1> USE Names, EventTypes DEF TypeOK, NotYet, netVars
<1>1. CASE ServerLock(c)
  BY <1>1 DEF ServerLock, Lock, Turns
<1>2. CASE AlreadyRunning(c)
  BY <1>2 DEF AlreadyRunning, Unlock, Turns
<1>3. CASE Listen(c)
  BY <1>3 DEF Listen, Unlock, Turns
<1>4. CASE Announce(c)
  BY <1>4 DEF Announce, Unlock, Turns
<1>5. CASE Accept(c)
  BY <1>5 DEF Accept
<1>6. CASE CheckShutdown(c)
  BY <1>6 DEF CheckShutdown, Lock, Turns
<1>7. CASE GoOn(c)
  BY <1>7 DEF GoOn, Unlock, Turns
<1>8. CASE ShutDown(c)
  BY <1>8 DEF ShutDown, Turns
<1>9. CASE CloseSocket(c)
  BY <1>9 DEF CloseSocket, Unlock, Turns
<1>10. CASE Free(c)
  BY <1>10 DEF Free, Turns
<1>11. CASE Exit(c)
  BY <1>11 DEF Exit, Turns
<1> QED
  BY <1>1, <1>2, <1>3, <1>4, <1>5, <1>6, <1>7, <1>8, <1>9, <1>10, <1>11 DEF Server

\* A process that is killed does not keep the mutex.
LEMMA TypeKill ==
  ASSUME TypeOK, NotYet, NEW c \in Clients, KillServer(c) \/ KillClient(c)
  PROVE  TypeOK' /\ NotYet'
<1> USE Names, EventTypes, BoundsAssumption DEF TypeOK, NotYet, netVars, BoundsAssumption
<1>1. CASE KillServer(c)
  BY <1>1 DEF KillServer, Released, Turns
<1>2. CASE KillClient(c)
  BY <1>2 DEF KillClient, Released, Goes
<1> QED
  BY <1>1, <1>2

LEMMA TypeStep == TypeOK /\ NotYet /\ [Next]_vars => TypeOK' /\ NotYet'
<1> SUFFICES ASSUME TypeOK, NotYet, [Next]_vars PROVE TypeOK' /\ NotYet'
  OBVIOUS
<1>1. CASE Next
  BY <1>1, TypeClient, TypeServer, TypeKill DEF Next
<1>2. CASE UNCHANGED vars
  BY <1>2 DEF vars, netVars, TypeOK, NotYet
<1> QED
  BY <1>1, <1>2

\* All variables keep their types; a process has the mutex exactly while
\* InitImpl, InitServer and ShutdownIfPossible need it, killed or not.
THEOREM TypeCorrect == Spec => []TypeOK
<1> QED
  BY TypeInit, TypeStep, PTL DEF Spec

-----------------------------------------------------------------------------
(* The server that listens.                                                *)

Listening == {"listening", "run", "check", "close"}

\* One server listens at a time, and has the event open, as every server has
\* while it is up.  An event that is set was set by the one that listens, and
\* the kernel takes it back from none but servers.
ServerInv ==
  /\ \A c \in Clients : server[c] \in Listening <=> port = S(c)
  /\ \A c \in Clients :
       server[c] \in Listening \cup {"starting", "leaving"} => S(c) \in event.users
  /\ \A c \in Clients : C(c) \notin event.undo
  /\ event.set => \E c \in Clients :
       port = S(c) /\ server[c] \in {"run", "check"} /\ S(c) \in event.undo
  /\ \A c \in Clients : server[c] \in {"run", "check"} => event.set \/ stolen
  /\ \A c \in Clients : server[c] = "close" => sessions = {}

\* A step of a client opens or closes the event, and does not come near the
\* servers.
LEMMA ServerInvClient ==
  ASSUME TypeOK, NotYet, ServerInv, NEW c \in Clients, Client(c) \/ Bye(c) \/ Again(c)
  PROVE  ServerInv'
<1> USE Names DEF TypeOK, ServerInv, netVars, Listening
<1>1. CASE ClientLock(c)
  BY <1>1 DEF ClientLock, Opened
<1>2. CASE Ask(c)
  BY <1>2 DEF Ask
<1>3. CASE StartServerProcess(c)
  BY <1>3 DEF StartServerProcess, NotYet
<1>4. CASE Wait(c)
  BY <1>4 DEF Wait
<1>5. CASE Connect(c)
  BY <1>5 DEF Connect
<1>6. CASE Return(c)
  BY <1>6 DEF Return, Closed
<1>7. CASE Bye(c)
  BY <1>7 DEF Bye
<1>8. CASE Again(c)
  BY <1>8 DEF Again
<1> QED
  BY <1>1, <1>2, <1>3, <1>4, <1>5, <1>6, <1>7, <1>8 DEF Client

LEMMA ServerInvServer ==
  ASSUME TypeOK, ServerInv, NEW c \in Clients, Server(c)
  PROVE  ServerInv'
<1> USE Names DEF TypeOK, ServerInv, netVars, Listening
<1>1. CASE ServerLock(c)
  BY <1>1 DEF ServerLock, Turns, Opened
<1>2. CASE AlreadyRunning(c)
  BY <1>2 DEF AlreadyRunning, Turns, Closed
<1>3. CASE Listen(c)
  BY <1>3 DEF Listen, Turns
<1>4. CASE Announce(c)
  BY <1>4 DEF Announce, Turns, Set
<1>5. CASE Accept(c)
  BY <1>5 DEF Accept
<1>6. CASE CheckShutdown(c)
  BY <1>6 DEF CheckShutdown, Turns
<1>7. CASE GoOn(c)
  BY <1>7 DEF GoOn, Turns
<1>8. CASE ShutDown(c)
  BY <1>8 DEF ShutDown, Turns, Reset
<1>9. CASE CloseSocket(c)
  BY <1>9 DEF CloseSocket, Turns
<1>10. CASE Free(c)
  BY <1>10 DEF Free, Turns, Closed
<1>11. CASE Exit(c)
  BY <1>11 DEF Exit, Turns, Ended
<1> QED
  BY <1>1, <1>2, <1>3, <1>4, <1>5, <1>6, <1>7, <1>8, <1>9, <1>10, <1>11 DEF Server

LEMMA ServerInvKill ==
  ASSUME TypeOK, ServerInv, NEW c \in Clients, KillServer(c) \/ KillClient(c)
  PROVE  ServerInv'
<1> USE Names DEF TypeOK, ServerInv, netVars, Listening
<1>1. CASE KillServer(c)
  <2>1. \A d \in Clients : server'[d] = IF d = c THEN "none" ELSE server[d]
    BY <1>1 DEF KillServer, Turns
  <2>2. /\ event'.users = event.users \ {S(c)} /\ event'.undo = event.undo \ {S(c)}
        /\ event'.set => event.set /\ S(c) \notin event.undo
    BY <1>1 DEF KillServer, Ended
  <2>3. CASE port = S(c)
    <3>1. port' = Nobody /\ ~event'.set /\ sessions' = {}
      BY <1>1, <2>2, <2>3 DEF KillServer
    <3> QED
      BY <2>1, <2>2, <2>3, <3>1
  <2>4. CASE port # S(c)
    <3>1. /\ UNCHANGED netVars
          /\ event'.set # event.set => stolen'
          /\ stolen => stolen'
      BY <1>1, <2>4 DEF KillServer
    <3> QED
      BY <2>1, <2>2, <2>4, <3>1
  <2> QED
    BY <2>3, <2>4
<1>2. CASE KillClient(c)
  BY <1>2 DEF KillClient, Ended
<1> QED
  BY <1>1, <1>2

LEMMA ServerInvInit == Init => ServerInv
  BY Names DEF Init, ServerInv, Listening

LEMMA ServerInvStep == TypeOK /\ NotYet /\ ServerInv /\ [Next]_vars => ServerInv'
<1> SUFFICES ASSUME TypeOK, NotYet, ServerInv, [Next]_vars PROVE ServerInv'
  OBVIOUS
<1>1. CASE Next
  BY <1>1, ServerInvClient, ServerInvServer, ServerInvKill DEF Next
<1>2. CASE UNCHANGED vars
  BY <1>2 DEF vars, netVars, ServerInv
<1> QED
  BY <1>1, <1>2

LEMMA ServerInvariant == Spec => [](TypeOK /\ NotYet /\ ServerInv)
  BY TypeInit, TypeStep, ServerInvInit, ServerInvStep, PTL DEF Spec

-----------------------------------------------------------------------------
(* What follows.                                                           *)

\* Whoever finds the event set finds a server that listens, whichever processes
\* were killed at whatever moments.
THEOREM EventTellsOfServer == Spec => []EventMeansServer
<1>1. ServerInv => EventMeansServer
  BY Names DEF ServerInv, EventMeansServer
<1> QED
  BY <1>1, ServerInvariant, PTL

\* A server that runs can be found, unless the end of an earlier one has reset
\* the event.
THEOREM RunningServerIsFound == Spec => []ServerCanBeFound
<1>1. ServerInv => ServerCanBeFound
  BY DEF ServerInv, ServerCanBeFound
<1> QED
  BY <1>1, ServerInvariant, PTL

\* No server that shuts down leaves a client that it has accepted, although
\* clients connect without the mutex.
THEOREM SessionsSurvive == Spec => SessionsAreKept
<1>1. TypeOK /\ ServerInv /\ [Next]_vars =>
        [\A c \in Clients : c \in sessions /\ c \notin sessions' =>
           \/ client'[c] = "ended"
           \/ crashes' > crashes]_vars
  <2> SUFFICES ASSUME TypeOK, ServerInv, Next, NEW c \in Clients,
                      c \in sessions, c \notin sessions'
               PROVE  client'[c] = "ended" \/ crashes' > crashes
    OBVIOUS
  <2>1. PICK d \in Clients :
          Client(d) \/ Bye(d) \/ Again(d) \/ Server(d) \/ KillServer(d) \/ KillClient(d)
    BY DEF Next
  <2>2. ~(Client(d) \/ Again(d))
    BY DEF Client, Again, ClientLock, Ask, StartServerProcess, Wait, Connect,
           Return, netVars
  <2>3. ASSUME Bye(d) PROVE client'[c] = "ended"
    BY <2>3 DEF Bye, Goes, TypeOK
  <2>4. ~Server(d)
    BY DEF ServerInv, Server, ServerLock, AlreadyRunning, Listen, Announce, Accept,
           CheckShutdown, GoOn, ShutDown, CloseSocket, Free, Exit, netVars
  <2>5. ASSUME KillServer(d) \/ KillClient(d) PROVE crashes' > crashes
    <3>1. crashes' = crashes + 1 /\ crashes \in Nat
      BY <2>5, BoundsAssumption DEF KillServer, KillClient, TypeOK, BoundsAssumption
    <3> QED
      BY <3>1
  <2> QED
    BY <2>1, <2>2, <2>3, <2>4, <2>5
<1> QED
  BY <1>1, ServerInvariant, PTL DEF Spec, SessionsAreKept
=============================================================================
