---------------------------- MODULE SensorServer ----------------------------
(***************************************************************************)
(* How applications come to share one sensor server process, and how it    *)
(* goes when it is not needed (XnSensorClient::InitImpl, XnSensorServer).  *)
(* A client asks a named event whether a server runs, starts one if not,   *)
(* waits for the event, and connects.  A named mutex keeps the questions   *)
(* apart from servers that start or shut down.  Both are System V          *)
(* semaphores, whose changes the kernel can undo when a process ends.      *)
(*                                                                         *)
(* A server bears the name of the client that starts it; a client that     *)
(* initialises again does so when its earlier server is gone.  Opening and *)
(* closing the event are atomic here.  The idle time after which a server  *)
(* may shut down passes at any time.                                       *)
(***************************************************************************)
EXTENDS Naturals, FiniteSets

CONSTANTS
  Clients,
  Nobody,
  MaxCrashes, (* bound: processes that are killed                           *)
  MaxAgain    (* bound: times a client initialises again                    *)

ASSUME ClientsAssumption == Nobody \notin {"client", "server"} \X Clients
ASSUME BoundsAssumption == MaxCrashes \in Nat /\ MaxAgain \in Nat

C(c) == <<"client", c>>
S(c) == <<"server", c>>
Processes == {"client", "server"} \X Clients

VARIABLES
  mutex,     (* XN_SENSOR_SERVER_RUNNING_MUTEX_NAME                         *)
  event,     (* XN_SENSOR_SERVER_RUNNING_EVENT_NAME: is it set, who has it  *)
             (* open, and at whose end the kernel takes one from it         *)
  port,      (* the server that listens                                     *)
  backlog,   (* the clients connected and not yet accepted                  *)
  sessions,  (* the clients accepted                                        *)
  client, server,  (* where each process is                                 *)
  crashes, again,
  stolen     (* history: did the end of a server reset another's event?     *)

netVars == <<port, backlog, sessions>>
vars == <<mutex, event, netVars, client, server, crashes, again, stolen>>

Init ==
  /\ mutex = Nobody
  /\ event = [set |-> FALSE, users |-> {}, undo |-> {}]
  /\ port = Nobody /\ backlog = {} /\ sessions = {}
  /\ client = [c \in Clients |-> "init"] /\ server = [c \in Clients |-> "none"]
  /\ crashes = 0 /\ again = 0 /\ stolen = FALSE

-----------------------------------------------------------------------------
(* The named event (XnLinuxSysVNamedEvent).                                *)

\* OpenNamed, or else CreateNamed: an event that nobody has open is reset.
Opened(e, p) ==
  [set |-> e.set /\ e.users # {}, users |-> e.users \cup {p}, undo |-> e.undo]

ClosedAlways(e, p) ==  \* mutant: users are not counted
  [set |-> FALSE, users |-> e.users \ {p}, undo |-> {}]

\* Destroy: the semaphores go with the last user, and what was to be undone.
Closed(e, p) ==
  IF e.users = {p} THEN [set |-> FALSE, users |-> {}, undo |-> {}]
  ELSE [e EXCEPT !.users = @ \ {p}]

SetForGood(e, p) == [e EXCEPT !.set = TRUE]  \* mutant: set without SEM_UNDO

\* Set, with SEM_UNDO; nothing if it is set.
Set(e, p) ==
  IF e.set THEN e ELSE [e EXCEPT !.set = TRUE, !.undo = @ \cup {p}]

\* Reset: what is to be undone at the end of the process stays so.
Reset(e) == [e EXCEPT !.set = FALSE]

\* The process ends: the kernel undoes its changes.
Ended(e, p) ==
  [set |-> e.set /\ p \notin e.undo, users |-> e.users \ {p}, undo |-> e.undo \ {p}]

-----------------------------------------------------------------------------
(* XnSensorClient::InitImpl.                                               *)

Lock(p)   == mutex = Nobody /\ mutex' = p
Unlock(p) == mutex = p /\ mutex' = Nobody

Goes(c, pc) == client' = [client EXCEPT ![c] = pc]

\* The event is opened, and the mutex locked, for 15 seconds at most.
ClientLock(c) ==
  /\ client[c] = "init" /\ event' = Opened(event, C(c))
  /\ \/ Lock(C(c)) /\ Goes(c, "ask")
     \/ mutex # Nobody /\ UNCHANGED mutex /\ Goes(c, "giveup")
  /\ UNCHANGED <<netVars, server, crashes, again, stolen>>

\* bServerRunning.
Ask(c) ==
  /\ client[c] = "ask" /\ Unlock(C(c))
  /\ Goes(c, IF event.set THEN "wait" ELSE "start")
  /\ UNCHANGED <<event, netVars, server, crashes, again, stolen>>

StartServerProcess(c) ==
  /\ client[c] = "start" /\ Goes(c, "wait")
  /\ server' = [server EXCEPT ![c] = "init"]
  /\ UNCHANGED <<mutex, event, netVars, crashes, again, stolen>>

WaitForever(c) ==  \* mutant: XN_WAIT_INFINITE
  /\ client[c] = "wait" /\ event.set /\ Goes(c, "connect")
  /\ UNCHANGED <<mutex, event, netVars, server, crashes, again, stolen>>

\* Wait for the event, for 5 seconds at most.
Wait(c) ==
  /\ client[c] = "wait"
  /\ Goes(c, IF event.set THEN "connect" ELSE "giveup")
  /\ UNCHANGED <<mutex, event, netVars, server, crashes, again, stolen>>

\* CreateIOStreamImpl: connect to the port, if somebody listens.
Connect(c) ==
  /\ client[c] = "connect"
  /\ IF port # Nobody
     THEN backlog' = backlog \cup {c} /\ Goes(c, "connected")
     ELSE UNCHANGED backlog /\ Goes(c, "giveup")
  /\ UNCHANGED <<mutex, event, port, sessions, server, crashes, again, stolen>>

\* InitImpl returns: done, when the server has sent the initial state, or with
\* an error.  The event is closed.
Return(c) ==
  /\ \/ client[c] = "connected" /\ c \in sessions /\ Goes(c, "done")
     \/ client[c] = "connected" /\ c \notin sessions \cup backlog /\ Goes(c, "failed")
     \/ client[c] = "giveup" /\ Goes(c, "failed")
  /\ event' = Closed(event, C(c))
  /\ UNCHANGED <<mutex, netVars, server, crashes, again, stolen>>

\* The application ends: BYE, or its session sees the socket closed.
Bye(c) ==
  /\ client[c] = "done" /\ Goes(c, "ended")
  /\ sessions' = sessions \ {c}
  /\ UNCHANGED <<mutex, event, port, backlog, server, crashes, again, stolen>>

\* It is run again.
Again(c) ==
  /\ client[c] \in {"ended", "failed"} /\ server[c] = "none" /\ Goes(c, "init")
  /\ again < MaxAgain /\ again' = again + 1
  /\ UNCHANGED <<mutex, event, netVars, server, crashes, stolen>>

-----------------------------------------------------------------------------
(* XnSensorServer::Run.                                                    *)

Turns(c, pc) == server' = [server EXCEPT ![c] = pc]

\* InitServer: the mutex, for 15 seconds at most, then the event.
ServerLock(c) ==
  /\ server[c] = "init"
  /\ \/ Lock(S(c)) /\ event' = Opened(event, S(c)) /\ Turns(c, "starting")
     \/ mutex # Nobody /\ Turns(c, "exit") /\ UNCHANGED <<mutex, event>>
  /\ UNCHANGED <<netVars, client, crashes, again, stolen>>

\* "Another server is already running."
AlreadyRunning(c) ==
  /\ server[c] = "starting" /\ event.set
  /\ event' = Closed(event, S(c)) /\ Unlock(S(c)) /\ Turns(c, "exit")
  /\ UNCHANGED <<netVars, client, crashes, again, stolen>>

ListenLocked(c) ==  \* mutant: the mutex is kept when the port is in use
  /\ server[c] = "starting" /\ ~event.set
  /\ IF port = Nobody
     THEN port' = S(c) /\ Turns(c, "listening")
     ELSE UNCHANGED port /\ Turns(c, "leaving")
  /\ UNCHANGED <<mutex, event, backlog, sessions, client, crashes, again, stolen>>

\* The socket is bound, unless the port is in use, and listened to.
Listen(c) ==
  /\ server[c] = "starting" /\ ~event.set
  /\ IF port = Nobody
     THEN port' = S(c) /\ Turns(c, "listening") /\ UNCHANGED mutex
     ELSE UNCHANGED port /\ Turns(c, "leaving") /\ Unlock(S(c))
  /\ UNCHANGED <<event, backlog, sessions, client, crashes, again, stolen>>

\* "We do this AFTER we start listening".
Announce(c) ==
  /\ server[c] = "listening" /\ Turns(c, "run")
  /\ event' = Set(event, S(c)) /\ Unlock(S(c))
  /\ UNCHANGED <<netVars, client, crashes, again, stolen>>

\* CheckForNewClients.
Accept(c) ==
  /\ server[c] = "run" /\ backlog # {}
  /\ sessions' = sessions \cup backlog /\ backlog' = {}
  /\ UNCHANGED <<mutex, event, port, client, server, crashes, again, stolen>>

\* ShutdownIfPossible: the mutex is locked (or else another time), and new
\* clients are accepted.
CheckShutdown(c) ==
  /\ server[c] = "run" /\ sessions = {} /\ Lock(S(c))
  /\ sessions' = backlog /\ backlog' = {} /\ Turns(c, "check")
  /\ UNCHANGED <<event, port, client, crashes, again, stolen>>

\* "re-check shutdown condition": there is somebody.
GoOn(c) ==
  /\ server[c] = "check" /\ sessions # {}
  /\ Unlock(S(c)) /\ Turns(c, "run")
  /\ UNCHANGED <<event, netVars, client, crashes, again, stolen>>

ShutDownUnchecked(c) ==  \* mutant: the condition is not checked again
  /\ server[c] = "check"
  /\ event' = Reset(event) /\ Turns(c, "close")
  /\ UNCHANGED <<mutex, netVars, client, crashes, again, stolen>>

\* There is nobody: "reset the event (to notify server is no longer up)".
ShutDown(c) ==
  /\ server[c] = "check" /\ sessions = {}
  /\ event' = Reset(event) /\ Turns(c, "close")
  /\ UNCHANGED <<mutex, netVars, client, crashes, again, stolen>>

\* "and close the socket".  Clients that have connected since are cut off.
CloseSocket(c) ==
  /\ server[c] = "close" /\ Turns(c, "leaving")
  /\ port' = Nobody /\ backlog' = {} /\ sessions' = {} /\ Unlock(S(c))
  /\ UNCHANGED <<event, client, crashes, again, stolen>>

\* Free.
Free(c) ==
  /\ server[c] = "leaving" /\ Turns(c, "exit")
  /\ event' = Closed(event, S(c))
  /\ UNCHANGED <<mutex, netVars, client, crashes, again, stolen>>

\* The process ends, and the kernel undoes what it set.
Exit(c) ==
  /\ server[c] = "exit" /\ Turns(c, "none")
  /\ event' = Ended(event, S(c))
  /\ stolen' = (stolen \/ event'.set # event.set)
  /\ UNCHANGED <<mutex, netVars, client, crashes, again>>

-----------------------------------------------------------------------------
(* Processes are killed.                                                   *)

Kept(p) == mutex                                    \* mutant: no SEM_UNDO
Released(p) == IF mutex = p THEN Nobody ELSE mutex  \* SEM_UNDO of the lock

KillServer(c) ==
  /\ server[c] # "none" /\ crashes < MaxCrashes /\ crashes' = crashes + 1
  /\ Turns(c, "none")
  /\ mutex' = Released(S(c)) /\ event' = Ended(event, S(c))
  /\ stolen' = (stolen \/ (event'.set # event.set /\ port # S(c)))
  /\ IF port = S(c) THEN port' = Nobody /\ backlog' = {} /\ sessions' = {}
     ELSE UNCHANGED netVars
  /\ UNCHANGED <<client, again>>

KillClient(c) ==
  /\ client[c] \notin {"ended", "failed"}
  /\ crashes < MaxCrashes /\ crashes' = crashes + 1
  /\ Goes(c, "ended")
  /\ mutex' = Released(C(c)) /\ event' = Ended(event, C(c))
  /\ backlog' = backlog \ {c} /\ sessions' = sessions \ {c}
  /\ UNCHANGED <<port, server, again, stolen>>

Client(c) ==
  \/ ClientLock(c) \/ Ask(c) \/ StartServerProcess(c) \/ Wait(c) \/ Connect(c)
  \/ Return(c)

Server(c) ==
  \/ ServerLock(c) \/ AlreadyRunning(c) \/ Listen(c) \/ Announce(c) \/ Accept(c)
  \/ CheckShutdown(c) \/ GoOn(c) \/ ShutDown(c) \/ CloseSocket(c) \/ Free(c)
  \/ Exit(c)

Next ==
  \E c \in Clients :
    Client(c) \/ Bye(c) \/ Again(c) \/ Server(c) \/ KillServer(c) \/ KillClient(c)

Spec == Init /\ [][Next]_vars

\* Processes run while they can, and applications end at some time.
FairSpec ==
  Spec /\ \A c \in Clients : WF_vars(Client(c)) /\ WF_vars(Server(c)) /\ WF_vars(Bye(c))

-----------------------------------------------------------------------------
(* Properties.                                                             *)

\* Type correctness; and the mutex is with whom it is where InitImpl, InitServer
\* and ShutdownIfPossible need it.
TypeOK ==
  /\ mutex \in Processes \cup {Nobody} /\ port \in Processes \cup {Nobody}
  /\ event \in [set : BOOLEAN, users : SUBSET Processes, undo : SUBSET Processes]
  /\ backlog \subseteq Clients /\ sessions \subseteq Clients
  /\ client \in [Clients -> {"init", "ask", "start", "wait", "connect", "connected",
                             "giveup", "done", "failed", "ended"}]
  /\ server \in [Clients -> {"none", "init", "starting", "listening", "run", "check",
                             "close", "leaving", "exit"}]
  /\ crashes \in 0 .. MaxCrashes /\ again \in 0 .. MaxAgain /\ stolen \in BOOLEAN
  /\ \A c \in Clients :
       /\ mutex = C(c) <=> client[c] = "ask"
       /\ mutex = S(c) <=> server[c] \in {"starting", "listening", "check", "close"}

\* Whoever finds the event set finds a server that listens, whichever process
\* was killed at whatever moment.
EventMeansServer == event.set => port # Nobody

\* A server that runs can be found, unless the end of an earlier one has reset
\* the event.
ServerCanBeFound ==
  \A c \in Clients : server[c] = "run" => event.set \/ stolen

\* A server that shuts down leaves no client it has accepted.
SessionsAreKept ==
  [][\A c \in Clients : c \in sessions /\ c \notin sessions' =>
       \/ client'[c] = "ended"
       \/ crashes' > crashes]_vars

\* InitImpl returns, and a server nobody needs is gone in the end, also if
\* processes are killed that have the mutex.
InitReturns == \A c \in Clients : client[c] = "init" ~> client[c] \in {"done", "failed", "ended"}
ServersLeave == <>[](\A c \in Clients : server[c] = "none")
=============================================================================
