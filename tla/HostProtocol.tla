---------------------------- MODULE HostProtocol ----------------------------
(***************************************************************************)
(* Requests of the host to the sensor (XnHostProtocol).  Each process that *)
(* has the device open runs one call at a time; a named mutex keeps the    *)
(* processes from sending into each other's exchanges.  The device answers *)
(* requests in order, each in its time or never, and the host may give up  *)
(* before; a request whose transfer seems to fail is sent again, although  *)
(* the device may have it.                                                 *)
(*                                                                         *)
(* A packet tells of what kind it is and of which request it is part.  The *)
(* id of a request is the process and the number of its call: the counter  *)
(* of 16 bits does not come round, and the ids of two processes are apart  *)
(* (each counts from 0 when it starts; see the README).                    *)
(***************************************************************************)
EXTENDS Naturals, Sequences

CONSTANTS
  Hosts,        (* the processes                                            *)
  Nobody,
  Ops(_),       (* the calls of a process: "get" calls for data, "set" is   *)
                (* XnHostProtocolSetParam                                   *)
  Attempts,     (* XN_HOST_PROTOCOL_NOT_READY_RETRIES                       *)
  SetAttempts,  (* nTimesLeft                                               *)
  MaxCalls,     (* bound: calls of each process                             *)
  MaxCopies,    (* XN_USB_HOST_PROTOCOL_SEND_RETRIES                        *)
  MaxStrays     (* bound: packets that the device has and the host does not *)
                (* know of                                                  *)

ASSUME HostAssumption == Nobody \notin Hosts /\ (\A u \in Hosts : Ops(u) \subseteq {"get", "set"})
ASSUME CountAssumption ==
  /\ Attempts \in Nat \ {0} /\ SetAttempts \in Nat \ {0}
  /\ MaxCalls \in Nat /\ MaxCopies \in Nat \ {0} /\ MaxStrays \in Nat

VARIABLES
  mutex,     (* hExecuteMutex                                               *)
  out, in,   (* the packets on the way to the device and from it            *)
  host,      (* the state of each process                                   *)
  executed,  (* history: the requests the device has executed               *)
  strays,    (* history: copies of requests that the host thinks not sent   *)
  robbed     (* history: the processes that wait for the rest of a reply    *)
             (* while another has read from the device                      *)

vars == <<mutex, out, in, host, executed, strays, robbed>>

\* A request; or a reply: "ok" if it is complete, "more" if its data go on in
\* the next packet, "rest"; "not_ready", "nack", or "refused" if the NACK is
\* BAD_PARAMS or INVALID_COMMAND.
Packet(kind, id) == [kind |-> kind, id |-> id]

\* Of a call: where it is, its number, the request it is about, the caller's
\* buffer (in it the request goes out and the reply comes in), the copy of the
\* request that Execute sends, the attempts left to Execute and to SetParam,
\* and the packets taken for the reply.
NoPacket == Packet("request", <<Nobody, 0, "get">>)

Idle(n) ==
  [pc |-> "idle", calls |-> n, call |-> NoPacket, buffer |-> NoPacket,
   request |-> NoPacket, left |-> 0, tries |-> 0, answer |-> <<>>]

Init ==
  /\ mutex = Nobody /\ out = <<>> /\ in = <<>> /\ executed = {} /\ strays = 0 /\ robbed = {}
  /\ host = [u \in Hosts |-> Idle(0)]

-----------------------------------------------------------------------------
(* Execute.                                                                *)

\* Execute keeps a copy of the request, whatever the buffer holds.
Executing(h) ==
  [h EXCEPT !.pc = "lock", !.request = h.buffer, !.left = Attempts]

\* A request is made and executed.
Call(u, op) ==
  LET n == host[u].calls + 1
      p == Packet("request", <<u, n, op>>)
  IN  /\ host[u].pc = "idle" /\ n <= MaxCalls
      /\ host' = [host EXCEPT ![u] =
           Executing([Idle(n) EXCEPT
             !.call = p, !.buffer = p,
             !.tries = IF op = "set" THEN SetAttempts - 1 ELSE 0])]
      /\ robbed' = robbed \ {u}
      /\ UNCHANGED <<mutex, out, in, executed, strays>>

\* Execute returns: SetParam tries again unless there is no point in it.
Returned(h, rc) ==
  IF h.tries > 0 /\ rc \notin {"ok", "refused"}
  THEN Executing([h EXCEPT !.tries = @ - 1, !.answer = <<>>])
  ELSE [h EXCEPT !.pc = IF rc = "ok" THEN "done" ELSE "failed"]

Lock(u) ==
  /\ host[u].pc = "lock" /\ mutex = Nobody /\ mutex' = u
  /\ host' = [host EXCEPT ![u].pc = "send", ![u].left = @ - 1]
  /\ UNCHANGED <<out, in, executed, strays, robbed>>

CopiesOfBuffer(u, n, known) ==  \* mutant: no copy of the request is kept
  /\ strays' = strays + n - known /\ strays' <= MaxStrays
  /\ out' = out \o [i \in 1 .. n |-> host[u].buffer]

\* The request goes out n times, although the host knows of one or none.
Copies(u, n, known) ==
  /\ strays' = strays + n - known /\ strays' <= MaxStrays
  /\ out' = out \o [i \in 1 .. n |-> host[u].request]

\* USBSend: sent again until a transfer succeeds.
Send(u) ==
  /\ host[u].pc = "send"
  /\ \E n \in 1 .. MaxCopies : Copies(u, n, 1)
  /\ host' = [host EXCEPT ![u].pc = "receive"]
  /\ UNCHANGED <<mutex, in, executed, robbed>>

SendFailsLocked(u) ==  \* mutant: the mutex is not unlocked
  /\ host[u].pc = "send"
  /\ \E n \in 0 .. MaxCopies : Copies(u, n, 0)
  /\ host' = [host EXCEPT ![u] = Returned(@, "error")]
  /\ UNCHANGED <<mutex, in, executed, robbed>>

\* USBSend: none succeeds, whatever the device got.
SendFails(u) ==
  /\ host[u].pc = "send" /\ mutex' = Nobody
  /\ \E n \in 0 .. MaxCopies : Copies(u, n, 0)
  /\ host' = [host EXCEPT ![u] = Returned(@, "error")]
  /\ UNCHANGED <<in, executed, robbed>>

\* A packet is read into the buffer.
Reads(u, pc) ==
  /\ host[u].pc = pc /\ in # <<>> /\ in' = Tail(in)
  /\ robbed' = robbed \cup {v \in Hosts \ {u} : host[v].pc = "rest"}
  /\ UNCHANGED <<out, executed, strays>>

With(u) == [host[u] EXCEPT !.buffer = Head(in)]

OwnAny(u) ==  \* mutant: the id of a reply is not looked at
  Head(in).kind # "rest"

\* ValidateReply finds a header, and the id is the request's.
Own(u) == Head(in).kind # "rest" /\ Head(in).id = host[u].request.id

\* WRONG_ID, or BAD_MAGIC: on to the next packet.
Skip(u) ==
  /\ Reads(u, "receive") /\ ~Own(u)
  /\ host' = [host EXCEPT ![u] = With(u)]
  /\ UNCHANGED mutex

\* BAD_MAGIC, for too long.
GiveUp(u) ==
  /\ Reads(u, "receive") /\ Head(in).kind = "rest"
  /\ mutex' = Nobody
  /\ host' = [host EXCEPT ![u] = Returned(With(u), "error")]

AcceptReadsOn(u) ==  \* mutant: one packet too many is read
  /\ Reads(u, "receive") /\ Own(u) /\ Head(in).kind \in {"ok", "more"}
  /\ mutex' = Nobody
  /\ host' = [host EXCEPT ![u] =
       [With(u) EXCEPT !.answer = <<Head(in)>>, !.pc = "rest"]]

\* The reply is good; if it asked for data, the rest of them is read without
\* the mutex.
Accept(u) ==
  LET h == [With(u) EXCEPT !.answer = <<Head(in)>>]
  IN  /\ Reads(u, "receive") /\ Own(u) /\ Head(in).kind \in {"ok", "more"}
      /\ mutex' = Nobody
      /\ host' = [host EXCEPT ![u] =
           IF Head(in).kind = "more" THEN [h EXCEPT !.pc = "rest"]
           ELSE Returned(h, "ok")]

\* NOT_READY: the same request again, if attempts are left.
NotReady(u) ==
  /\ Reads(u, "receive") /\ Own(u) /\ Head(in).kind = "not_ready"
  /\ mutex' = Nobody
  /\ host' = [host EXCEPT ![u] =
       IF host[u].left > 0 THEN [With(u) EXCEPT !.pc = "lock"]
       ELSE Returned(With(u), "not_ready")]

\* Any other NACK.
Nack(u) ==
  /\ Reads(u, "receive") /\ Own(u) /\ Head(in).kind \in {"nack", "refused"}
  /\ mutex' = Nobody
  /\ host' = [host EXCEPT ![u] = Returned(With(u), Head(in).kind)]

\* Nothing to read for nTimeOut.
Timeout(u) ==
  /\ host[u].pc = "receive" /\ in = <<>> /\ mutex' = Nobody
  /\ host' = [host EXCEPT ![u] = Returned(@, "error")]
  /\ UNCHANGED <<out, in, executed, strays, robbed>>

\* "Get rest of data": the next packet, whatever it is.
ReadRest(u) ==
  /\ Reads(u, "rest")
  /\ host' = [host EXCEPT ![u] =
       Returned([With(u) EXCEPT !.answer = Append(@, Head(in))], "ok")]
  /\ UNCHANGED mutex

RestTimeout(u) ==
  /\ host[u].pc = "rest" /\ in = <<>>
  /\ host' = [host EXCEPT ![u] = Returned(@, "error")]
  /\ UNCHANGED <<mutex, out, in, executed, strays, robbed>>

\* The caller takes the result.
Return(u) ==
  /\ host[u].pc \in {"done", "failed"}
  /\ host' = [host EXCEPT ![u] = Idle(@.calls)]
  /\ UNCHANGED <<mutex, out, in, executed, strays, robbed>>

-----------------------------------------------------------------------------
(* The device.                                                             *)

\* The device takes a request, and executes it or not; it makes nothing of a
\* packet that is not a request.
Answer ==
  LET r == Head(out)
      Reply(kinds) == [i \in 1 .. Len(kinds) |-> Packet(kinds[i], r.id)]
  IN  /\ out # <<>> /\ out' = Tail(out)
      /\ \/ \E kind \in IF r.id[3] = "get" THEN {"not_ready", "nack"}
                       ELSE {"not_ready", "nack", "refused"} :
              in' = in \o Reply(<<kind>>) /\ UNCHANGED executed
         \/ UNCHANGED <<in, executed>>
         \/ r.kind = "request" /\ executed' = executed \cup {r.id}
            /\ in' \in {in \o Reply(<<"ok">>)} \cup
                  (IF r.id[3] = "get" THEN {in \o Reply(<<"more", "rest">>)} ELSE {})
      /\ UNCHANGED <<mutex, host, strays, robbed>>

Host(u) ==
  \/ Lock(u) \/ Send(u) \/ SendFails(u)
  \/ Skip(u) \/ GiveUp(u) \/ Accept(u) \/ NotReady(u) \/ Nack(u) \/ Timeout(u)
  \/ ReadRest(u) \/ RestTimeout(u) \/ Return(u)

Next ==
  \/ \E u \in Hosts : Host(u) \/ \E op \in Ops(u) : Call(u, op)
  \/ Answer

Spec == Init /\ [][Next]_vars

\* A call goes on while it can.  The device owes nothing.
FairSpec == Spec /\ \A u \in Hosts : WF_vars(Host(u))

-----------------------------------------------------------------------------
(* Properties.                                                             *)

\* What Execute sends is what SetParam or another caller has asked for.
Intact(u) == host[u].request = host[u].call

\* A call that succeeds was executed by the device, however many replies to
\* earlier requests are on their way: unless SetParam retries with a buffer
\* that holds a reply by now.
SuccessIsReal ==
  \A u \in Hosts :
    host[u].pc = "done" /\ Intact(u) => host[u].call.id \in executed

\* The data of a call come from one reply to its request: the rest is read
\* without the mutex, so that holds unless another process has read from the
\* device in between.
DataOfOneReply ==
  \A u \in Hosts :
    LET id == host[u].request.id
    IN  host[u].pc = "done" /\ u \notin robbed =>
          host[u].answer \in {<<Packet("ok", id)>>,
                             <<Packet("more", id), Packet("rest", id)>>}

\* Execute sends the request again, and not the reply that told it to ("store
\* request (in case we need to retry it)"); SetParam tells the two apart only
\* in its first attempt.
RequestsAreSent ==
  [][Len(out') > Len(out) =>
       \/ out'[Len(out')] = host[mutex].call
       \/ host[mutex].call.id[3] = "set" /\ host[mutex].tries < SetAttempts - 1]_vars

\* SetParam tries again to set the parameter: all it sends are requests.
SetParamRetries == \A i \in 1 .. Len(out) : out[i].kind = "request"

\* Every call returns, whoever has the mutex and whatever the device does: no
\* way out of an exchange leaves the mutex locked.
EveryCallReturns ==
  \A u \in Hosts : host[u].pc # "idle" ~> host[u].pc = "idle"
=============================================================================
