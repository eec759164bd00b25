-------------------------- MODULE HostProtocolProofs --------------------------
(***************************************************************************)
(* For any number of processes, calls, attempts, copies and strays: a call *)
(* that succeeds was executed, its data are of one reply, and what Execute *)
(* sends is the request.                                                   *)
(***************************************************************************)
EXTENDS Integers, HostProtocol, TLAPS

-----------------------------------------------------------------------------
(* Types.                                                                  *)

Ids     == (Hosts \cup {Nobody}) \X Nat \X {"get", "set"}
Packets ==
  [kind : {"request", "ok", "more", "rest", "not_ready", "nack", "refused"}, id : Ids]

Places == {"idle", "lock", "send", "receive", "rest", "done", "failed"}

HostStates ==
  [pc : Places,
   calls : Nat, call : Packets, buffer : Packets, request : Packets,
   left : Int, tries : Nat, answer : Seq(Packets)]

Types ==
  /\ host \in [Hosts -> HostStates]
  /\ out \in Seq(Packets) /\ in \in Seq(Packets) /\ robbed \subseteq Hosts

LEMMA PacketTypes ==
  /\ \A id \in Ids : \A kind \in {"request", "ok", "more", "rest", "not_ready", "nack", "refused"} :
       Packet(kind, id) \in Packets
  /\ NoPacket \in Packets
  BY DEF Packet, Packets, NoPacket, Ids

LEMMA FieldTypes ==
  ASSUME NEW h \in HostStates
  PROVE  /\ \A x \in Places : [h EXCEPT !.pc = x] \in HostStates
         /\ \A x \in Packets : [h EXCEPT !.call = x] \in HostStates
         /\ \A x \in Packets : [h EXCEPT !.buffer = x] \in HostStates
         /\ \A x \in Packets : [h EXCEPT !.request = x] \in HostStates
         /\ \A x \in Int : [h EXCEPT !.left = x] \in HostStates
         /\ \A x \in Nat : [h EXCEPT !.tries = x] \in HostStates
         /\ \A x \in Seq(Packets) : [h EXCEPT !.answer = x] \in HostStates
  BY DEF HostStates

\* Execute begins, with the buffer for its request.
LEMMA ExecutingFields ==
  ASSUME NEW h \in HostStates
  PROVE  /\ Executing(h) \in HostStates
         /\ Executing(h).pc = "lock" /\ Executing(h).request = h.buffer
         /\ Executing(h).call = h.call /\ Executing(h).tries = h.tries
<1> DEFINE g == [h EXCEPT !.pc = "lock"]
           k == [g EXCEPT !.request = h.buffer]
<1>1. g \in HostStates /\ h.buffer \in Packets
  BY FieldTypes DEF HostStates, Places
<1>2. g.pc = "lock" /\ g.call = h.call /\ g.tries = h.tries
  BY DEF HostStates
<1> HIDE DEF g
<1>3. k \in HostStates
  BY <1>1, FieldTypes
<1>4. k.pc = "lock" /\ k.request = h.buffer /\ k.call = h.call /\ k.tries = h.tries
  BY <1>1, <1>2 DEF HostStates
<1> HIDE DEF k
<1>5. Executing(h) = [k EXCEPT !.left = Attempts]
  BY DEF Executing, g, k
<1>6. Attempts \in Int
  BY CountAssumption DEF CountAssumption
<1> QED
  BY <1>3, <1>4, <1>5, <1>6, FieldTypes DEF HostStates

\* Execute returns, and is called again or not.
Retries(h, rc) == h.tries > 0 /\ rc \notin {"ok", "refused"}

LEMMA ReturnedFields ==
  ASSUME NEW h \in HostStates, NEW rc
  PROVE  /\ Returned(h, rc) \in HostStates
         /\ Returned(h, rc).call = h.call
         /\ Retries(h, rc) => /\ Returned(h, rc).pc = "lock"
                             /\ Returned(h, rc).request = h.buffer
                             /\ Returned(h, rc).tries = h.tries - 1
         /\ ~Retries(h, rc) =>
              /\ Returned(h, rc).pc = IF rc = "ok" THEN "done" ELSE "failed"
              /\ Returned(h, rc).request = h.request
              /\ Returned(h, rc).tries = h.tries
              /\ Returned(h, rc).answer = h.answer
<1>1. CASE Retries(h, rc)
  <2> DEFINE g == [h EXCEPT !.tries = h.tries - 1]
             none == <<>>
             k == [g EXCEPT !.answer = none]
  <2>1. h.tries - 1 \in Nat /\ none \in Seq(Packets)
    BY <1>1 DEF HostStates, Retries
  <2>2. g \in HostStates
    BY <2>1, FieldTypes
  <2>3. g.tries = h.tries - 1 /\ g.buffer = h.buffer /\ g.call = h.call
    BY DEF HostStates
  <2> HIDE DEF g, none
  <2>4. k \in HostStates
    BY <2>1, <2>2, FieldTypes
  <2>5. k.tries = h.tries - 1 /\ k.buffer = h.buffer /\ k.call = h.call
    BY <2>2, <2>3 DEF HostStates
  <2>6. Returned(h, rc) = Executing(k)
    BY <1>1 DEF Returned, Retries, g, none
  <2> QED
    BY <1>1, <2>4, <2>5, <2>6, ExecutingFields
<1>2. CASE ~Retries(h, rc)
  <2> DEFINE x == IF rc = "ok" THEN "done" ELSE "failed"
             g == [h EXCEPT !.pc = x]
  <2>1. x \in Places /\ Returned(h, rc) = g
    BY <1>2 DEF Returned, Retries, Places
  <2> HIDE DEF x
  <2>2. /\ g \in HostStates /\ g.pc = x /\ g.call = h.call
        /\ g.request = h.request /\ g.tries = h.tries /\ g.answer = h.answer
    BY <2>1, FieldTypes DEF HostStates
  <2> HIDE DEF g
  <2> QED
    BY <1>2, <2>1, <2>2 DEF x
<1> QED
  BY <1>1, <1>2

LEMMA IdleType == \A n \in Nat : Idle(n) \in HostStates
  BY PacketTypes DEF Idle, HostStates, Places

LEMMA TypesInit == Init => Types
  BY IdleType DEF Init, Types

\* What is read, and what is left.
LEMMA Reading ==
  ASSUME NEW s \in Seq(Packets), s # <<>>
  PROVE  /\ Head(s) \in Packets /\ Tail(s) \in Seq(Packets)
         /\ Len(s) \in Nat \ {0} /\ Len(Tail(s)) = Len(s) - 1
         /\ Head(s) = s[1] /\ \A i \in 1 .. Len(Tail(s)) : Tail(s)[i] = s[i + 1]
  OBVIOUS

\* The packets the device may answer a request with.
IsReply(R, id) ==
  \/ R = <<>>
  \/ \E k \in {"ok", "not_ready", "nack", "refused"} : R = <<Packet(k, id)>>
  \/ R = <<Packet("more", id), Packet("rest", id)>>

LEMMA ReplyTypes ==
  ASSUME NEW id \in Ids, NEW R, IsReply(R, id)
  PROVE  R \in Seq(Packets)
<1>1. CASE R = <<>>
  BY <1>1
<1>2. ASSUME NEW k \in {"ok", "not_ready", "nack", "refused"}, R = <<Packet(k, id)>>
      PROVE  R \in Seq(Packets)
  BY <1>2, PacketTypes
<1>3. CASE R = <<Packet("more", id), Packet("rest", id)>>
  BY <1>3, PacketTypes
<1> QED
  BY <1>1, <1>2, <1>3 DEF IsReply

LEMMA AnswerReplies ==
  ASSUME Types, Answer
  PROVE  LET id == Head(out).id
         IN  /\ id \in Ids /\ out' \in Seq(Packets)
             /\ UNCHANGED <<mutex, host, robbed>>
             /\ executed \subseteq executed'
             /\ Len(out') < Len(out)
             /\ \E R : /\ IsReply(R, id) /\ in' = in \o R
                       /\ \A i \in 1 .. Len(R) : R[i].kind \in {"ok", "more"} => id \in executed'
<1> DEFINE id == Head(out).id
           Reply(kinds) == [i \in 1 .. Len(kinds) |-> Packet(kinds[i], id)]
           Answered == \E R :
             /\ IsReply(R, id) /\ in' = in \o R
             /\ \A i \in 1 .. Len(R) : R[i].kind \in {"ok", "more"} => id \in executed'
<1>1. Head(out) \in Packets /\ out' \in Seq(Packets) /\ Len(out') < Len(out)
  BY Reading DEF Answer, Types
<1>2. id \in Ids
  BY <1>1 DEF Packets
<1>3. \A k : Reply(<<k>>) = <<Packet(k, id)>>
  OBVIOUS
<1>4. Reply(<<"more", "rest">>) = <<Packet("more", id), Packet("rest", id)>>
  OBVIOUS
<1>5. in = in \o <<>>
  BY DEF Types
<1>6. \A k \in {"not_ready", "nack", "refused"} : k \notin {"ok", "more"}
  OBVIOUS
<1>7. Answered
  <2>1. CASE UNCHANGED <<in, executed>>
    <3>1. IsReply(<<>>, id)
      BY DEF IsReply
    <3>2. 1 .. Len(<<>>) = {}
      OBVIOUS
    <3> QED
      BY <2>1, <3>1, <3>2, <1>5
  <2>2. ASSUME NEW k \in {"not_ready", "nack", "refused"}, in' = in \o Reply(<<k>>)
        PROVE  Answered
    <3>1. IsReply(<<Packet(k, id)>>, id)
      BY DEF IsReply
    <3>2. \A i \in 1 .. Len(<<Packet(k, id)>>) :
            <<Packet(k, id)>>[i].kind \notin {"ok", "more"}
      BY <1>6 DEF Packet
    <3> QED
      BY <2>2, <3>1, <3>2, <1>3
  <2>3. ASSUME NEW kinds \in {<<"ok">>, <<"more", "rest">>}, in' = in \o Reply(kinds),
               id \in executed'
        PROVE  Answered
    <3>1. IsReply(Reply(kinds), id)
      BY <1>3, <1>4 DEF IsReply
    <3> QED
      BY <2>3, <3>1
  <2> QED
    BY <2>1, <2>2, <2>3 DEF Answer
<1> QED
  BY <1>1, <1>2, <1>7 DEF Answer

-----------------------------------------------------------------------------
(* What a step of a process does to its call.                              *)

\* It is at another place of the same execution.
Kept(s, h) ==
  h.call = s.call /\ h.request = s.request /\ h.tries = s.tries /\ h.answer = s.answer

\* The execution has failed, and SetParam begins another or not.
GaveUp(s, h) ==
  /\ h.call = s.call
  /\ \/ h.pc = "lock" /\ s.tries > 0 /\ h.tries = s.tries - 1
     \/ h.pc = "failed" /\ h.request = s.request /\ h.tries = s.tries

\* It has a packet of a reply.
Got(s, h, pc, answer) ==
  /\ h.pc = pc /\ h.call = s.call /\ h.request = s.request /\ h.tries = s.tries
  /\ h.answer = answer

LEMMA UpdateFields ==
  ASSUME NEW s \in HostStates, NEW x
  PROVE  /\ x \in Places => LET h == [s EXCEPT !.pc = x]
                            IN  h \in HostStates /\ h.pc = x /\ Kept(s, h)
         /\ x \in Int => LET h == [s EXCEPT !.left = x]
                         IN  h \in HostStates /\ h.pc = s.pc /\ Kept(s, h)
         /\ x \in Packets => LET h == [s EXCEPT !.buffer = x]
                             IN  h \in HostStates /\ h.pc = s.pc /\ Kept(s, h)
         /\ x \in Seq(Packets) => LET h == [s EXCEPT !.answer = x]
                                  IN  h \in HostStates /\ Got(s, h, s.pc, x)
<1>1. ASSUME x \in Places
      PROVE  LET h == [s EXCEPT !.pc = x] IN h \in HostStates /\ h.pc = x /\ Kept(s, h)
  BY <1>1 DEF HostStates, Kept
<1>2. ASSUME x \in Int
      PROVE  LET h == [s EXCEPT !.left = x] IN h \in HostStates /\ h.pc = s.pc /\ Kept(s, h)
  BY <1>2 DEF HostStates, Kept
<1>3. ASSUME x \in Packets
      PROVE  LET h == [s EXCEPT !.buffer = x] IN h \in HostStates /\ h.pc = s.pc /\ Kept(s, h)
  BY <1>3 DEF HostStates, Kept
<1>4. ASSUME x \in Seq(Packets)
      PROVE  LET h == [s EXCEPT !.answer = x] IN h \in HostStates /\ Got(s, h, s.pc, x)
  BY <1>4 DEF HostStates, Got
<1> QED
  BY <1>1, <1>2, <1>3, <1>4

SentCopies(u) ==
  \E n \in Nat : out' = out \o [i \in 1 .. n |-> host[u].request]

LEMMA GaveUpFields ==
  ASSUME NEW h \in HostStates, NEW rc, rc # "ok"
  PROVE  Returned(h, rc) \in HostStates /\ GaveUp(h, Returned(h, rc))
  BY ReturnedFields DEF GaveUp, Retries

LEMMA WithFields ==
  ASSUME Types, NEW u \in Hosts, in # <<>>
  PROVE  /\ With(u) \in HostStates /\ Head(in) \in Packets
         /\ Kept(host[u], With(u)) /\ With(u).pc = host[u].pc
<1>1. Head(in) \in Packets /\ host[u] \in HostStates
  BY Reading DEF Types
<1> QED
  BY <1>1, UpdateFields DEF With

\* The steps that do not read from the device.
Quiet(u) ==
  LET s == host[u]
      h == host'[u]
  IN  \/ s.pc = "lock" /\ h.pc = "send" /\ Kept(s, h)
           /\ mutex = Nobody /\ mutex' = u /\ out' = out
      \/ s.pc = "send" /\ h.pc = "receive" /\ Kept(s, h)
           /\ mutex' = mutex /\ SentCopies(u)
      \/ s.pc = "send" /\ GaveUp(s, h) /\ mutex' = Nobody /\ SentCopies(u)
      \/ s.pc = "receive" /\ GaveUp(s, h) /\ mutex' = Nobody /\ out' = out
      \/ s.pc = "rest" /\ GaveUp(s, h) /\ mutex' = mutex /\ out' = out
      \/ s.pc \in {"done", "failed"} /\ h.pc = "idle" /\ mutex' = mutex /\ out' = out

\* Those that do.
Heard(u) ==
  LET s == host[u]
      h == host'[u]
  IN  \/ s.pc = "receive" /\ h.pc = "receive" /\ Kept(s, h) /\ mutex' = mutex
      \/ s.pc = "receive" /\ h.pc = "lock" /\ Kept(s, h) /\ mutex' = Nobody
      \/ s.pc = "receive" /\ GaveUp(s, h) /\ mutex' = Nobody
      \/ s.pc = "receive" /\ Head(in).kind \in {"ok", "more"}
           /\ Head(in).id = s.request.id
           /\ Got(s, h, IF Head(in).kind = "ok" THEN "done" ELSE "rest", <<Head(in)>>)
           /\ mutex' = Nobody
      \/ s.pc = "rest" /\ Got(s, h, "done", Append(s.answer, Head(in))) /\ mutex' = mutex

LEMMA QuietSteps ==
  ASSUME Types, NEW u \in Hosts,
         Lock(u) \/ Send(u) \/ SendFails(u) \/ Timeout(u) \/ RestTimeout(u) \/ Return(u)
  PROVE  /\ host' = [host EXCEPT ![u] = host'[u]] /\ host'[u] \in HostStates
         /\ UNCHANGED <<in, executed, robbed>> /\ Quiet(u)
<1>1. host[u] \in HostStates
  BY DEF Types
<1>2. ASSUME NEW n, NEW k, n \in 0 .. MaxCopies, Copies(u, n, k) PROVE SentCopies(u)
  <2>1. n \in Nat
    BY <1>2, CountAssumption DEF CountAssumption
  <2> QED
    BY <1>2, <2>1, Zenon DEF Copies, SentCopies
<1>3. CASE Lock(u)
  <2> DEFINE l == host[u].left - 1
             g == [host[u] EXCEPT !.pc = "send"]
             h == [g EXCEPT !.left = l]
  <2>1. host'[u] = h /\ host' = [host EXCEPT ![u] = h]
    BY <1>3 DEF Lock, Types
  <2>2. l \in Int /\ "send" \in Places
    BY <1>1 DEF HostStates, Places
  <2>3. g \in HostStates /\ g.pc = "send" /\ Kept(host[u], g)
    BY <1>1, <2>2, UpdateFields
  <2> HIDE DEF l, g
  <2>4. h \in HostStates /\ h.pc = "send" /\ Kept(host[u], h)
    BY <2>2, <2>3, UpdateFields DEF Kept
  <2> HIDE DEF h
  <2> QED
    BY <1>3, <2>1, <2>4 DEF Lock, Quiet
<1>4. CASE Send(u)
  <2> DEFINE h == [host[u] EXCEPT !.pc = "receive"]
  <2>1. host'[u] = h /\ host' = [host EXCEPT ![u] = h]
    BY <1>4 DEF Send, Types
  <2>2. h \in HostStates /\ h.pc = "receive" /\ Kept(host[u], h)
    BY <1>1, UpdateFields DEF Places
  <2> HIDE DEF h
  <2>3. SentCopies(u)
    BY <1>2, <1>4 DEF Send
  <2> QED
    BY <1>4, <2>1, <2>2, <2>3 DEF Send, Quiet
<1>5. ASSUME host' = [host EXCEPT ![u] = Returned(@, "error")]
      PROVE  /\ host' = [host EXCEPT ![u] = host'[u]]
             /\ host'[u] \in HostStates /\ GaveUp(host[u], host'[u])
  BY <1>1, <1>5, GaveUpFields DEF Types
<1>6. CASE SendFails(u)
  BY <1>2, <1>5, <1>6 DEF SendFails, Quiet
<1>7. CASE Timeout(u)
  BY <1>5, <1>7 DEF Timeout, Quiet
<1>8. CASE RestTimeout(u)
  BY <1>5, <1>8 DEF RestTimeout, Quiet
<1>9. CASE Return(u)
  <2>1. host[u].calls \in Nat
    BY <1>1 DEF HostStates
  <2>2. host'[u] = Idle(host[u].calls) /\ host' = [host EXCEPT ![u] = Idle(host[u].calls)]
    BY <1>9 DEF Return, Types
  <2>3. host'[u].pc = "idle" /\ host'[u] \in HostStates
    BY <2>1, <2>2, IdleType DEF Idle
  <2> QED
    BY <1>9, <2>2, <2>3 DEF Return, Quiet
<1> QED
  BY <1>3, <1>4, <1>6, <1>7, <1>8, <1>9

LEMMA HeardSteps ==
  ASSUME Types, NEW u \in Hosts,
         Skip(u) \/ GiveUp(u) \/ Accept(u) \/ NotReady(u) \/ Nack(u) \/ ReadRest(u)
  PROVE  /\ host' = [host EXCEPT ![u] = host'[u]] /\ host'[u] \in HostStates
         /\ in # <<>> /\ in' = Tail(in)
         /\ robbed' = robbed \cup {v \in Hosts \ {u} : host[v].pc = "rest"}
         /\ UNCHANGED <<out, executed>> /\ Heard(u)
<1>1. /\ in # <<>> /\ in' = Tail(in)
      /\ robbed' = robbed \cup {v \in Hosts \ {u} : host[v].pc = "rest"}
      /\ UNCHANGED <<out, executed>>
  BY DEF Skip, GiveUp, Accept, NotReady, Nack, ReadRest, Reads
<1>2. /\ With(u) \in HostStates /\ Head(in) \in Packets
      /\ Kept(host[u], With(u)) /\ With(u).pc = host[u].pc
  BY <1>1, WithFields
<1>3. ASSUME NEW rc, rc # "ok", host' = [host EXCEPT ![u] = Returned(With(u), rc)]
      PROVE  /\ host' = [host EXCEPT ![u] = host'[u]]
             /\ host'[u] \in HostStates /\ GaveUp(host[u], host'[u])
  <2>1. host'[u] = Returned(With(u), rc)
    BY <1>3 DEF Types
  <2>2. Returned(With(u), rc) \in HostStates /\ GaveUp(With(u), Returned(With(u), rc))
    BY <1>2, <1>3, GaveUpFields
  <2> QED
    BY <1>2, <1>3, <2>1, <2>2 DEF GaveUp, Kept
<1>4. CASE Skip(u)
  <2>1. host'[u] = With(u) /\ host' = [host EXCEPT ![u] = With(u)]
    BY <1>4 DEF Skip, Types
  <2> QED
    BY <1>1, <1>2, <1>4, <2>1 DEF Skip, Reads, Heard
<1>5. CASE GiveUp(u)
  BY <1>1, <1>3, <1>5 DEF GiveUp, Reads, Heard
<1>6. CASE Accept(u)
  <2> DEFINE a == <<Head(in)>>
             h == [With(u) EXCEPT !.answer = a]
             g == IF Head(in).kind = "more" THEN [h EXCEPT !.pc = "rest"]
                  ELSE Returned(h, "ok")
  <2>1. a \in Seq(Packets)
    BY <1>2
  <2>2. host'[u] = g /\ host' = [host EXCEPT ![u] = g]
    BY <1>6 DEF Accept, Types
  <2> HIDE DEF a
  <2>3. h \in HostStates /\ Got(With(u), h, host[u].pc, a)
    BY <1>2, <2>1, UpdateFields
  <2> HIDE DEF h
  <2>4. /\ g \in HostStates
        /\ Got(host[u], g, IF Head(in).kind = "ok" THEN "done" ELSE "rest", a)
    <3>1. Head(in).kind \in {"ok", "more"}
      BY <1>6 DEF Accept
    <3>2. CASE Head(in).kind = "more"
      <4> DEFINE k == [h EXCEPT !.pc = "rest"]
      <4>1. g = k
        BY <3>2
      <4>2. k \in HostStates /\ k.pc = "rest" /\ Kept(h, k)
        BY <2>3, UpdateFields DEF Places
      <4> HIDE DEF k, g
      <4> QED
        BY <1>2, <2>3, <3>2, <4>1, <4>2 DEF Got, Kept
    <3>3. CASE Head(in).kind = "ok"
      BY <1>2, <2>3, <3>3, ReturnedFields DEF Got, Kept, Retries
    <3> QED
      BY <3>1, <3>2, <3>3
  <2> HIDE DEF g
  <2> QED
    BY <1>1, <1>6, <2>2, <2>4 DEF Accept, Reads, Own, Heard, a
<1>7. CASE NotReady(u)
  <2>1. CASE host[u].left > 0
    <3> DEFINE h == [With(u) EXCEPT !.pc = "lock"]
    <3>1. host'[u] = h /\ host' = [host EXCEPT ![u] = h]
      BY <1>7, <2>1 DEF NotReady, Types
    <3>2. h \in HostStates /\ h.pc = "lock" /\ Kept(With(u), h)
      BY <1>2, UpdateFields DEF Places
    <3> HIDE DEF h
    <3> QED
      BY <1>1, <1>2, <1>7, <3>1, <3>2 DEF NotReady, Reads, Heard, Kept
  <2>2. CASE ~(host[u].left > 0)
    BY <1>1, <1>3, <1>7, <2>2 DEF NotReady, Reads, Heard
  <2> QED
    BY <2>1, <2>2
<1>8. CASE Nack(u)
  <2>1. Head(in).kind # "ok"
    BY <1>8 DEF Nack
  <2> QED
    BY <1>1, <1>3, <1>8, <2>1 DEF Nack, Reads, Heard
<1>9. CASE ReadRest(u)
  <2> DEFINE a == Append(host[u].answer, Head(in))
             h == [With(u) EXCEPT !.answer = a]
  <2>1. a \in Seq(Packets)
    BY <1>2 DEF Types, HostStates
  <2>2. With(u).answer = host[u].answer
    BY <1>2 DEF Kept
  <2>3. h = [With(u) EXCEPT !.answer = Append(@, Head(in))]
    BY <2>2
  <2>4. host'[u] = Returned(h, "ok") /\ host' = [host EXCEPT ![u] = Returned(h, "ok")]
    BY <1>9, <2>2 DEF ReadRest, Types
  <2> HIDE DEF a
  <2>5. h \in HostStates /\ Got(With(u), h, host[u].pc, a)
    BY <1>2, <2>1, UpdateFields
  <2> HIDE DEF h
  <2>6. Returned(h, "ok") \in HostStates /\ Got(host[u], Returned(h, "ok"), "done", a)
    BY <1>2, <2>5, ReturnedFields DEF Got, Kept, Retries
  <2> QED
    BY <1>1, <1>9, <2>4, <2>6 DEF ReadRest, Reads, Heard, a
<1> QED
  BY <1>1, <1>4, <1>5, <1>6, <1>7, <1>8, <1>9

LEMMA CallSteps ==
  ASSUME Types, NEW u \in Hosts, NEW op \in {"get", "set"}, Call(u, op)
  PROVE  LET h == host'[u]
         IN  /\ host' = [host EXCEPT ![u] = h] /\ h \in HostStates
             /\ host[u].pc = "idle" /\ h.pc = "lock" /\ h.request = h.call
             /\ h.call.id[3] = op
             /\ h.tries = IF op = "set" THEN SetAttempts - 1 ELSE 0
             /\ UNCHANGED <<mutex, out, in, executed>> /\ robbed' = robbed \ {u}
<1> DEFINE n == host[u].calls + 1
           id == <<u, n, op>>
           p == Packet("request", id)
           t == IF op = "set" THEN SetAttempts - 1 ELSE 0
           f == [Idle(n) EXCEPT !.call = p]
           g == [f EXCEPT !.buffer = p]
           h == [g EXCEPT !.tries = t]
<1>1. n \in Nat
  BY DEF Types, HostStates
<1>2. t \in Nat
  BY CountAssumption DEF CountAssumption
<1>3. p \in Packets /\ p.id[3] = op
  <2>1. id \in Ids /\ id[3] = op
    BY <1>1 DEF Ids
  <2> QED
    BY <2>1, PacketTypes DEF Packet
<1>4. Idle(n) \in HostStates
  BY <1>1, IdleType
<1>5. /\ host[u].pc = "idle" /\ host'[u] = Executing(h)
      /\ host' = [host EXCEPT ![u] = Executing(h)]
      /\ UNCHANGED <<mutex, out, in, executed>> /\ robbed' = robbed \ {u}
  BY DEF Call, Types
<1> HIDE DEF t, p, n
<1>6. f \in HostStates /\ f.call = p
  BY <1>3, <1>4, FieldTypes DEF HostStates
<1> HIDE DEF f
<1>7. g \in HostStates /\ g.call = p /\ g.buffer = p
  BY <1>3, <1>6, FieldTypes DEF HostStates
<1> HIDE DEF g
<1>8. h \in HostStates /\ h.call = p /\ h.buffer = p /\ h.tries = t
  BY <1>2, <1>7, FieldTypes DEF HostStates
<1> HIDE DEF h
<1> QED
  BY <1>3, <1>5, <1>8, ExecutingFields DEF t

\* A step is one of those, or the device's.
LEMMA HostSteps ==
  ASSUME Types, NEW u \in Hosts, Host(u)
  PROVE  /\ host' = [host EXCEPT ![u] = host'[u]] /\ host'[u] \in HostStates
         /\ executed' = executed
         /\ \/ Quiet(u) /\ UNCHANGED <<in, robbed>>
            \/ Heard(u) /\ in # <<>> /\ in' = Tail(in) /\ UNCHANGED out
                /\ robbed' = robbed \cup {v \in Hosts \ {u} : host[v].pc = "rest"}
  BY QuietSteps, HeardSteps DEF Host

LEMMA TypesStep == Types /\ [Next]_vars => Types'
<1> SUFFICES ASSUME Types, [Next]_vars PROVE Types'
  OBVIOUS
<1>1. ASSUME NEW u \in Hosts, Host(u) PROVE Types'
  <2>1. host' \in [Hosts -> HostStates] /\ in' \in Seq(Packets) /\ robbed' \subseteq Hosts
    BY <1>1, HostSteps, Reading DEF Types
  <2>2. ASSUME SentCopies(u) PROVE out' \in Seq(Packets)
    <3>1. host[u].request \in Packets
      BY DEF Types, HostStates
    <3> QED
      BY <2>2, <3>1 DEF SentCopies, Types
  <2> QED
    BY <1>1, <2>1, <2>2, HostSteps DEF Types, Quiet
<1>2. ASSUME NEW u \in Hosts, NEW op \in Ops(u), Call(u, op) PROVE Types'
  BY <1>2, CallSteps, HostAssumption DEF HostAssumption, Types
<1>3. CASE Answer
  <2>1. PICK R : IsReply(R, Head(out).id) /\ in' = in \o R
    BY <1>3, AnswerReplies
  <2>2. R \in Seq(Packets)
    BY <1>3, <2>1, AnswerReplies, ReplyTypes
  <2> QED
    BY <1>3, <2>1, <2>2, AnswerReplies DEF Types
<1>4. CASE UNCHANGED vars
  BY <1>4 DEF vars, Types
<1> QED
  BY <1>1, <1>2, <1>3, <1>4 DEF Next

-----------------------------------------------------------------------------
(* A call that succeeds was executed.                                      *)

\* A good reply on its way is one to a request that was executed, and so is
\* the request of an execution that has got one.
RepliesAreReal ==
  /\ \A i \in 1 .. Len(in) : in[i].kind \in {"ok", "more"} => in[i].id \in executed
  /\ \A u \in Hosts : host[u].pc \in {"rest", "done"} => host[u].request.id \in executed

LEMMA RealInit == Init => RepliesAreReal
<1>1. \A n \in Nat : Idle(n).pc = "idle"
  BY DEF Idle
<1> QED
  BY <1>1 DEF Init, RepliesAreReal

LEMMA RealStep == Types /\ RepliesAreReal /\ [Next]_vars => RepliesAreReal'
<1> SUFFICES ASSUME Types, RepliesAreReal, [Next]_vars PROVE RepliesAreReal'
  OBVIOUS
<1>1. ASSUME NEW u \in Hosts, Host(u) PROVE RepliesAreReal'
  <2>1. \A v \in Hosts : v # u => host'[v] = host[v]
    BY <1>1, HostSteps DEF Types
  <2>2. CASE Quiet(u) /\ UNCHANGED in
    BY <1>1, <2>1, <2>2, HostSteps DEF Quiet, Kept, GaveUp, RepliesAreReal
  <2>3. CASE Heard(u) /\ in # <<>> /\ in' = Tail(in)
    <3>1. \A i \in 1 .. Len(in') : in'[i] = in[i + 1] /\ i + 1 \in 1 .. Len(in)
      BY <2>3, Reading DEF Types
    <3>2. Head(in).kind \in {"ok", "more"} => Head(in).id \in executed
      BY <2>3, Reading DEF Types, RepliesAreReal
    <3>3. host'[u].pc \in {"rest", "done"} => host'[u].request.id \in executed
      BY <2>3, <3>2 DEF Heard, Kept, GaveUp, Got, RepliesAreReal
    <3> QED
      BY <1>1, <2>1, <3>1, <3>3, HostSteps DEF RepliesAreReal
  <2> QED
    BY <1>1, <2>2, <2>3, HostSteps
<1>2. ASSUME NEW u \in Hosts, NEW op \in Ops(u), Call(u, op) PROVE RepliesAreReal'
  BY <1>2, CallSteps, HostAssumption DEF HostAssumption, Types, RepliesAreReal
<1>3. CASE Answer
  <2>1. PICK R :
          /\ IsReply(R, Head(out).id) /\ in' = in \o R
          /\ \A i \in 1 .. Len(R) : R[i].kind \in {"ok", "more"} => Head(out).id \in executed'
    BY <1>3, AnswerReplies
  <2>2. R \in Seq(Packets) /\ \A i \in 1 .. Len(R) : R[i].id = Head(out).id
    <3>1. R \in Seq(Packets)
      BY <1>3, <2>1, AnswerReplies, ReplyTypes
    <3> QED
      BY <2>1, <3>1 DEF IsReply, Packet
  <2>3. \A i \in 1 .. Len(in') :
          \/ i \in 1 .. Len(in) /\ in'[i] = in[i]
          \/ i - Len(in) \in 1 .. Len(R) /\ in'[i] = R[i - Len(in)]
    BY <2>1, <2>2 DEF Types
  <2>4. executed \subseteq executed' /\ UNCHANGED host
    BY <1>3, AnswerReplies
  <2> QED
    BY <2>1, <2>2, <2>3, <2>4 DEF RepliesAreReal
<1>4. CASE UNCHANGED vars
  BY <1>4 DEF vars, RepliesAreReal
<1> QED
  BY <1>1, <1>2, <1>3, <1>4 DEF Next

\* A call that returns a success was executed by the device, however late the
\* replies to other requests come, unless SetParam has sent something else.
THEOREM SuccessWasExecuted == Spec => []SuccessIsReal
<1>1. RepliesAreReal => SuccessIsReal
  BY DEF RepliesAreReal, SuccessIsReal, Intact
<1> QED
  BY <1>1, TypesInit, TypesStep, RealInit, RealStep, PTL DEF Spec

-----------------------------------------------------------------------------
(* The data of a call are of one reply.                                    *)

\* The packets of a reply follow each other on the way from the device.
RestFollows(s) ==
  \A i \in 1 .. Len(s) :
    s[i].kind = "more" => i < Len(s) /\ s[i + 1] = Packet("rest", s[i].id)

\* A process that has the first packet of a reply finds the second one next,
\* and one that is done has the whole of it.
OneReply(h, s) ==
  LET id == h.request.id
  IN  /\ h.pc = "rest" =>
           /\ s # <<>> /\ Head(s) = Packet("rest", id)
           /\ h.answer = <<Packet("more", id)>>
      /\ h.pc = "done" =>
           h.answer \in {<<Packet("ok", id)>>, <<Packet("more", id), Packet("rest", id)>>}

DataInv ==
  /\ RestFollows(in)
  /\ \A u \in Hosts \ robbed : OneReply(host[u], in)

LEMMA DataInit == Init => DataInv
<1>1. \A n \in Nat : Idle(n).pc = "idle"
  BY DEF Idle
<1> QED
  BY <1>1 DEF Init, DataInv, RestFollows, OneReply

\* A packet is taken from the front, or a reply comes at the end.
LEMMA RestStillFollows ==
  ASSUME NEW s \in Seq(Packets), RestFollows(s)
  PROVE  /\ s # <<>> => RestFollows(Tail(s))
         /\ \A id \in Ids : \A R : IsReply(R, id) => RestFollows(s \o R)
<1>1. ASSUME s # <<>> PROVE RestFollows(Tail(s))
  <2> SUFFICES ASSUME NEW i \in 1 .. Len(Tail(s)), Tail(s)[i].kind = "more"
               PROVE  i < Len(Tail(s)) /\ Tail(s)[i + 1] = Packet("rest", Tail(s)[i].id)
    BY DEF RestFollows
  <2>1. Len(s) \in Nat \ {0} /\ Len(Tail(s)) = Len(s) - 1
    BY <1>1, Reading
  <2>2. i + 1 \in 1 .. Len(s) /\ Tail(s)[i] = s[i + 1]
    BY <1>1, <2>1, Reading
  <2>3. i + 1 < Len(s) /\ s[i + 2] = Packet("rest", s[i + 1].id)
    BY <2>2 DEF RestFollows
  <2>4. i + 1 \in 1 .. Len(Tail(s))
    BY <2>1, <2>3
  <2>5. Tail(s)[i + 1] = s[i + 2]
    BY <1>1, <2>4, Reading
  <2> QED
    BY <2>1, <2>2, <2>3, <2>5
<1>2. ASSUME NEW id \in Ids, NEW R, IsReply(R, id) PROVE RestFollows(s \o R)
  <2>1. R \in Seq(Packets)
    BY <1>2, ReplyTypes
  <2>2. RestFollows(R)
    BY <1>2 DEF IsReply, RestFollows, Packet
  <2>3. \A i \in 1 .. Len(s) : (s \o R)[i] = s[i]
    BY <2>1
  <2>4. \A i \in 1 .. Len(R) : (s \o R)[Len(s) + i] = R[i]
    BY <2>1
  <2>5. Len(s \o R) = Len(s) + Len(R) /\ Len(s) \in Nat /\ Len(R) \in Nat
    BY <2>1
  <2> SUFFICES ASSUME NEW i \in 1 .. Len(s \o R), (s \o R)[i].kind = "more"
               PROVE  /\ i < Len(s \o R)
                      /\ (s \o R)[i + 1] = Packet("rest", (s \o R)[i].id)
    BY DEF RestFollows
  <2>6. CASE i \in 1 .. Len(s)
    <3>1. i < Len(s) /\ s[i + 1] = Packet("rest", s[i].id)
      BY <2>3, <2>6 DEF RestFollows
    <3> QED
      BY <2>3, <2>5, <2>6, <3>1
  <2>7. CASE i \notin 1 .. Len(s)
    <3> DEFINE j == i - Len(s)
    <3>1. j \in 1 .. Len(R) /\ i = Len(s) + j
      BY <2>5, <2>7
    <3>2. (s \o R)[i] = R[j]
      BY <2>4, <3>1
    <3>3. j < Len(R) /\ R[j + 1] = Packet("rest", R[j].id)
      BY <2>2, <3>1, <3>2 DEF RestFollows
    <3>4. j + 1 \in 1 .. Len(R) /\ i + 1 = Len(s) + (j + 1)
      BY <2>5, <3>1, <3>3
    <3>5. (s \o R)[i + 1] = R[j + 1]
      BY <2>4, <3>4
    <3> QED
      BY <2>5, <3>1, <3>2, <3>3, <3>5
  <2> QED
    BY <2>6, <2>7
<1> QED
  BY <1>1, <1>2

LEMMA NextPacket ==
  ASSUME NEW s \in Seq(Packets), 1 < Len(s)
  PROVE  Tail(s) # <<>> /\ Head(Tail(s)) = s[2]
<1>1. s # <<>>
  OBVIOUS
<1>2. Tail(s) \in Seq(Packets) /\ Len(Tail(s)) = Len(s) - 1 /\ Len(s) \in Nat
  BY <1>1, Reading
<1>3. Len(Tail(s)) > 0 /\ 1 \in 1 .. Len(Tail(s))
  BY <1>2
<1>4. Tail(s) # <<>>
  BY <1>3
<1>5. Head(Tail(s)) = Tail(s)[1]
  BY <1>2, <1>4, Reading
<1>6. Tail(s)[1] = s[1 + 1]
  BY <1>1, <1>3, Reading
<1> QED
  BY <1>4, <1>5, <1>6

LEMMA SecondPacket ==
  ASSUME NEW p \in Packets, NEW q \in Packets
  PROVE  Append(<<p>>, q) = <<p, q>>
<1> DEFINE s == Append(<<p>>, q)
           t == <<p, q>>
<1>1. <<p>> \in Seq(Packets) /\ Len(<<p>>) = 1 /\ <<p>>[1] = p
  OBVIOUS
<1>2. s \in Seq(Packets) /\ Len(s) = 2 /\ s[1] = p /\ s[2] = q
  BY <1>1
<1>3. t \in Seq(Packets) /\ Len(t) = 2 /\ t[1] = p /\ t[2] = q
  OBVIOUS
<1> HIDE DEF s, t
<1>4. \A i \in 1 .. 2 : s[i] = t[i]
  BY <1>2, <1>3
<1>5. s \in [1 .. 2 -> Packets] /\ t \in [1 .. 2 -> Packets]
  BY <1>2, <1>3
<1>6. s = t
  BY <1>4, <1>5
<1> QED
  BY <1>6 DEF s, t

LEMMA DataStep == Types /\ DataInv /\ [Next]_vars => DataInv'
<1> SUFFICES ASSUME Types, DataInv, [Next]_vars PROVE DataInv'
  OBVIOUS
<1>1. ASSUME NEW u \in Hosts, Host(u) PROVE DataInv'
  <2>1. \A v \in Hosts : v # u => host'[v] = host[v]
    BY <1>1, HostSteps DEF Types
  <2>2. CASE Quiet(u) /\ UNCHANGED <<in, robbed>>
    <3>1. host'[u].pc \notin {"rest", "done"}
      BY <2>2 DEF Quiet, GaveUp
    <3> QED
      BY <2>1, <2>2, <3>1 DEF DataInv, OneReply
  <2>3. CASE /\ Heard(u) /\ in # <<>> /\ in' = Tail(in)
             /\ robbed' = robbed \cup {v \in Hosts \ {u} : host[v].pc = "rest"}
    <3>1. RestFollows(in')
      BY <2>3, RestStillFollows DEF Types, DataInv
    <3>2. ASSUME NEW v \in Hosts \ robbed', v # u PROVE OneReply(host'[v], in')
      BY <2>1, <2>3, <3>2 DEF DataInv, OneReply
    <3>3. ASSUME u \notin robbed PROVE OneReply(host'[u], in')
      <4> DEFINE id == host[u].request.id
      <4>1. Head(in) \in Packets /\ Head(in) = in[1] /\ Len(in) \in Nat \ {0}
        BY <2>3, Reading DEF Types
      <4>2. CASE host[u].pc = "receive" /\ Head(in).kind = "more" /\ Head(in).id = id
                 /\ Got(host[u], host'[u], "rest", <<Head(in)>>)
        <5>1. Head(in) = Packet("more", id)
          BY <4>1, <4>2 DEF Packets, Packet
        <5>2. 1 < Len(in) /\ in[2] = Packet("rest", id)
          BY <4>1, <4>2 DEF DataInv, RestFollows
        <5>3. in' # <<>> /\ Head(in') = in[2]
          BY <2>3, <5>2, NextPacket DEF Types
        <5> QED
          BY <4>2, <5>1, <5>2, <5>3 DEF Got, OneReply
      <4>3. CASE host[u].pc = "receive" /\ Head(in).kind = "ok" /\ Head(in).id = id
                 /\ Got(host[u], host'[u], "done", <<Head(in)>>)
        <5>1. Head(in) = Packet("ok", id)
          BY <4>1, <4>3 DEF Packets, Packet
        <5> QED
          BY <4>3, <5>1 DEF Got, OneReply
      <4>4. CASE host[u].pc = "rest"
                 /\ Got(host[u], host'[u], "done", Append(host[u].answer, Head(in)))
        <5>1. Head(in) = Packet("rest", id) /\ host[u].answer = <<Packet("more", id)>>
          BY <3>3, <4>4 DEF DataInv, OneReply
        <5>2. Packet("more", id) \in Packets /\ Packet("rest", id) \in Packets
          <6>1. id \in Ids
            BY DEF Types, HostStates, Packets
          <6> QED
            BY <6>1, PacketTypes
        <5>3. host'[u].answer = Append(<<Packet("more", id)>>, Packet("rest", id))
          BY <4>4, <5>1 DEF Got
        <5>4. host'[u].answer = <<Packet("more", id), Packet("rest", id)>>
          BY <5>2, <5>3, SecondPacket
        <5> QED
          BY <4>4, <5>4 DEF Got, OneReply
      <4>5. CASE host'[u].pc \notin {"rest", "done"}
        BY <4>5 DEF OneReply
      <4> QED
        BY <2>3, <4>2, <4>3, <4>4, <4>5 DEF Heard, GaveUp
    <3> QED
      BY <2>3, <3>1, <3>2, <3>3 DEF DataInv
  <2> QED
    BY <1>1, <2>2, <2>3, HostSteps
<1>2. ASSUME NEW u \in Hosts, NEW op \in Ops(u), Call(u, op) PROVE DataInv'
  BY <1>2, CallSteps, HostAssumption DEF HostAssumption, Types, DataInv, OneReply
<1>3. CASE Answer
  <2>1. PICK R : IsReply(R, Head(out).id) /\ in' = in \o R
    BY <1>3, AnswerReplies
  <2>2. Head(out).id \in Ids /\ UNCHANGED <<host, robbed>>
    BY <1>3, AnswerReplies
  <2>3. R \in Seq(Packets)
    BY <2>1, <2>2, ReplyTypes
  <2>4. RestFollows(in')
    BY <2>1, <2>2, RestStillFollows DEF Types, DataInv
  <2>5. in # <<>> => in' # <<>> /\ Head(in') = Head(in)
    BY <2>1, <2>3 DEF Types
  <2> QED
    BY <2>2, <2>4, <2>5 DEF DataInv, OneReply
<1>4. CASE UNCHANGED vars
  BY <1>4 DEF vars, DataInv
<1> QED
  BY <1>1, <1>2, <1>3, <1>4 DEF Next

\* A call that succeeds has the data of one reply to its own request, although
\* the rest of them is read without the mutex, unless another process has read
\* from the device in between.
THEOREM DataAreOfOneReply == Spec => []DataOfOneReply
<1>1. DataInv => DataOfOneReply
  BY DEF DataInv, OneReply, DataOfOneReply
<1> QED
  BY <1>1, TypesInit, TypesStep, DataInit, DataStep, PTL DEF Spec

-----------------------------------------------------------------------------
(* What is sent.                                                           *)

\* SetParam has tried before.
Again(h) == h.call.id[3] = "set" /\ h.tries < SetAttempts - 1

\* A process in an exchange has the mutex; its request is the caller's unless
\* SetParam tries again, and only SetParam has tries left.
RequestInv ==
  \A u \in Hosts :
    /\ mutex = u <=> host[u].pc \in {"send", "receive"}
    /\ host[u].pc # "idle" =>
         /\ host[u].request = host[u].call \/ Again(host[u])
         /\ host[u].tries > 0 =>
              host[u].call.id[3] = "set" /\ host[u].tries <= SetAttempts - 1

LEMMA RequestInit == Init => RequestInv
<1>1. \A n \in Nat : Idle(n).pc = "idle"
  BY DEF Idle
<1> QED
  BY <1>1, HostAssumption DEF Init, RequestInv, HostAssumption

LEMMA RequestStep == Types /\ RequestInv /\ [Next]_vars => RequestInv'
<1> SUFFICES ASSUME Types, RequestInv, [Next]_vars PROVE RequestInv'
  OBVIOUS
<1>1. ASSUME NEW u \in Hosts, Host(u) PROVE RequestInv'
  <2>1. \A v \in Hosts : v # u => host'[v] = host[v]
    BY <1>1, HostSteps DEF Types
  <2>2. host[u].tries \in Nat /\ host[u] \in HostStates /\ host'[u] \in HostStates
        /\ SetAttempts \in Nat
    BY <1>1, HostSteps, CountAssumption DEF Types, HostStates, CountAssumption
  <2>3. ASSUME GaveUp(host[u], host'[u]), host[u].pc # "idle"
        PROVE  /\ host'[u].request = host'[u].call \/ Again(host'[u])
               /\ host'[u].tries > 0 =>
                    host'[u].call.id[3] = "set" /\ host'[u].tries <= SetAttempts - 1
               /\ host'[u].pc \in {"lock", "failed"}
    BY <2>2, <2>3 DEF GaveUp, RequestInv, Again
  <2>4. CASE Quiet(u)
    <3>1. /\ mutex' = u <=> host'[u].pc \in {"send", "receive"}
          /\ \A v \in Hosts : v # u => (mutex' = v <=> mutex = v)
      BY <2>3, <2>4, HostAssumption DEF Quiet, RequestInv, HostAssumption
    <3>2. host'[u].pc # "idle" =>
            /\ host'[u].request = host'[u].call \/ Again(host'[u])
            /\ host'[u].tries > 0 =>
                 host'[u].call.id[3] = "set" /\ host'[u].tries <= SetAttempts - 1
      BY <2>2, <2>3, <2>4 DEF Quiet, RequestInv, Kept, Again
    <3> QED
      BY <2>1, <3>1, <3>2 DEF RequestInv
  <2>5. CASE Heard(u)
    <3>1. /\ mutex' = u <=> host'[u].pc \in {"send", "receive"}
          /\ \A v \in Hosts : v # u => (mutex' = v <=> mutex = v)
      BY <2>3, <2>5, HostAssumption DEF Heard, RequestInv, HostAssumption, Got
    <3>2. host'[u].pc # "idle" =>
            /\ host'[u].request = host'[u].call \/ Again(host'[u])
            /\ host'[u].tries > 0 =>
                 host'[u].call.id[3] = "set" /\ host'[u].tries <= SetAttempts - 1
      BY <2>2, <2>3, <2>5 DEF Heard, RequestInv, Kept, Got, Again
    <3> QED
      BY <2>1, <3>1, <3>2 DEF RequestInv
  <2> QED
    BY <1>1, <2>4, <2>5, HostSteps
<1>2. ASSUME NEW u \in Hosts, NEW op \in Ops(u), Call(u, op) PROVE RequestInv'
  <2>1. op \in {"get", "set"} /\ SetAttempts \in Nat
    BY HostAssumption, CountAssumption DEF HostAssumption, CountAssumption
  <2> QED
    BY <1>2, <2>1, CallSteps DEF Types, RequestInv
<1>3. CASE Answer
  BY <1>3, AnswerReplies DEF RequestInv
<1>4. CASE UNCHANGED vars
  BY <1>4 DEF vars, RequestInv
<1> QED
  BY <1>1, <1>2, <1>3, <1>4 DEF Next

\* What Execute sends, however often, is the request it was called with and not
\* a reply to it; SetParam alone calls it with something else.
THEOREM OnlyRequestsAreSent == Spec => RequestsAreSent
<1>1. Types /\ RequestInv /\ [Next]_vars =>
        [Len(out') > Len(out) =>
           \/ out'[Len(out')] = host[mutex].call
           \/ host[mutex].call.id[3] = "set" /\ host[mutex].tries < SetAttempts - 1]_vars
  <2> SUFFICES ASSUME Types, RequestInv, Next, Len(out') > Len(out)
               PROVE  \/ out'[Len(out')] = host[mutex].call
                      \/ Again(host[mutex])
    BY DEF Again
  <2>1. ~Answer
    BY AnswerReplies, Reading DEF Types
  <2>2. \A u \in Hosts : \A op \in Ops(u) : ~Call(u, op)
    BY CallSteps, HostAssumption DEF HostAssumption, Types
  <2>3. PICK u \in Hosts : Host(u)
    BY <2>1, <2>2 DEF Next
  <2>4. host[u].pc = "send" /\ SentCopies(u)
    BY <2>3, HostSteps DEF Quiet, Types
  <2>5. PICK n \in Nat : out' = out \o [i \in 1 .. n |-> host[u].request]
    BY <2>4 DEF SentCopies
  <2>6. out'[Len(out')] = host[u].request
    BY <2>5 DEF Types
  <2> QED
    BY <2>4, <2>6 DEF RequestInv
<1> QED
  BY <1>1, TypesInit, TypesStep, RequestInit, RequestStep, PTL DEF Spec, RequestsAreSent
=============================================================================
