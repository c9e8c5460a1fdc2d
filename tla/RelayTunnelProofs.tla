--------------------------- MODULE RelayTunnelProofs ---------------------------
(* Proofs about RelayTunnel for any requests and any number of reconnections. *)
EXTENDS RelayTunnel, SequenceTheorems, TLAPS

\* What is sent on a tunnel is a message.
LEMMA SendTyping ==
  ASSUME TypeOK, NEW r \in Requests, NEW type \in {"request", "response", "data", "close"},
         NEW c \in {0} \cup Tunnels
  PROVE  /\ ToDaemon(c, Msg(type, r)) => toDaemon' \in [Tunnels -> Seq(Messages)]
         /\ ToRelay(c, Msg(type, r)) => toRelay' \in [Tunnels -> Seq(Messages)]
<1>1. Msg(type, r) \in Messages
  BY DEF Msg, Messages
<1>2. ASSUME NEW d \in Tunnels
      PROVE  /\ Append(toDaemon[d], Msg(type, r)) \in Seq(Messages)
             /\ Append(toRelay[d], Msg(type, r)) \in Seq(Messages)
  BY <1>1, AppendProperties DEF TypeOK
<1>3. toDaemon \in [Tunnels -> Seq(Messages)] /\ toRelay \in [Tunnels -> Seq(Messages)]
  BY DEF TypeOK
<1>4. ToDaemon(c, Msg(type, r)) => toDaemon' \in [Tunnels -> Seq(Messages)]
  BY <1>2, <1>3 DEF ToDaemon
<1>5. ToRelay(c, Msg(type, r)) => toRelay' \in [Tunnels -> Seq(Messages)]
  BY <1>2, <1>3 DEF ToRelay
<1> QED BY <1>4, <1>5

\* What a client is shown.
LEMMA ShowTyping ==
  ASSUME TypeOK, NEW r \in Requests, NEW what \in {"header", "data"},
         seen' = [seen EXCEPT ![r] = IF Len(@) < MaxSeen THEN Append(@, what) ELSE @]
  PROVE  seen' \in [Requests -> Seq({"header", "data"})]
<1>1. seen[r] \in Seq({"header", "data"}) /\ Append(seen[r], what) \in Seq({"header", "data"})
  BY AppendProperties DEF TypeOK
<1> QED BY <1>1 DEF TypeOK

LEMMA InitTyped == Init => TypeOK
BY BoundAssumption DEF Init, TypeOK, Tunnels

LEMMA TunnelTyping ==
  ASSUME TypeOK,
         Dial \/ Hangup \/ \E c \in Tunnels : LinkFails(c) \/ Register(c) \/ Unregister(c)
  PROVE  TypeOK'
<1>1. CASE Dial
  BY <1>1, BoundAssumption DEF Dial, TypeOK, Tunnels, proxyVars
<1>2. CASE Hangup
  BY <1>2 DEF Hangup, TypeOK, proxyVars
<1>3. ASSUME NEW c \in Tunnels, LinkFails(c) PROVE TypeOK'
  BY <1>3, BoundAssumption DEF LinkFails, TypeOK, proxyVars
<1>4. ASSUME NEW c \in Tunnels, Register(c) PROVE TypeOK'
  BY <1>4 DEF Register, TypeOK, proxyVars
<1>5. ASSUME NEW c \in Tunnels, Unregister(c) PROVE TypeOK'
  BY <1>5 DEF Unregister, TypeOK, proxyVars
<1> QED BY <1>1, <1>2, <1>3, <1>4, <1>5

LEMMA ReaderTyping ==
  ASSUME TypeOK, NEW c \in Tunnels, Receive(c) \/ Deliver(c)
  PROVE  TypeOK'
<1> USE DEF proxyVars, tunnelVars
<1>1. inHand[c] # NoMessage => inHand[c] \in Messages /\ inHand[c].stream \in Requests
  BY DEF TypeOK, Messages
<1>2. CASE Receive(c)
  <2>1. Head(toRelay[c]) \in Messages /\ Tail(toRelay[c]) \in Seq(Messages)
    BY <1>2, HeadTailProperties DEF TypeOK, Receive
  <2> QED BY <1>2, <2>1 DEF TypeOK, Receive
<1>3. CASE DeliverResponse(c)
  BY <1>1, <1>3 DEF TypeOK, DeliverResponse, Put
<1>4. CASE DeliverData(c)
  <2>1. seen' \in [Requests -> Seq({"header", "data"})]
    BY <1>1, <1>4, ShowTyping DEF DeliverData
  <2> QED BY <1>4, <2>1 DEF TypeOK, DeliverData, Put
<1>5. CASE DeliverClose(c)
  BY <1>1, <1>5 DEF TypeOK, DeliverClose, Put
<1> QED BY <1>2, <1>3, <1>4, <1>5 DEF Deliver

LEMMA ProxyTyping ==
  ASSUME TypeOK, NEW r \in Requests, Admit(r) \/ Proxy(r) \/ Abandon(r) \/ Type(r)
  PROVE  TypeOK'
<1> USE DEF tunnelVars, OnlyProxy, At, GoTo, Ends
<1>0. via[r] \in {0} \cup Tunnels
  BY DEF TypeOK
<1>t. /\ via \in [Requests -> {0} \cup Tunnels] /\ registered \in {0} \cup Tunnels
      /\ \A q \in Requests : via[q] = 0 => proxy[q] \in {"new", "leaving", "done"}
      /\ respChan \in [Requests -> 0..1]
      /\ proxy \in [Requests -> {"new", "admitted", "listed", "waiting", "streaming",
                                "pumping", "typed", "leaving", "done"}]
      /\ outcome \in [Requests -> {"none", "refused", "answered", "timeout", "left", "closed"}]
  BY DEF TypeOK
<1>1. CASE Admit(r)
  <2>1. UNCHANGED <<tunnelVars, toRelay, inHand, done, handler, streams, toDaemon, respChan, seen>>
    BY <1>1 DEF Admit
  <2>2. /\ proxy' \in [Requests -> {"new", "admitted", "listed", "waiting", "streaming",
                                    "pumping", "typed", "leaving", "done"}]
        /\ \A q \in Requests \ {r} : proxy'[q] = proxy[q]
    BY <1>1, <1>t DEF Admit
  <2>3. outcome' \in [Requests -> {"none", "refused", "answered", "timeout", "left", "closed"}]
    BY <1>1, <1>t DEF Admit
  <2>4. via' \in [Requests -> {0} \cup Tunnels] /\ \A q \in Requests \ {r} : via'[q] = via[q]
    BY <1>1, <1>t DEF Admit
  <2>5. via'[r] = 0 => proxy'[r] = "leaving"
    BY <1>1, <1>t DEF Admit
  <2> HIDE DEF OnlyProxy, At, GoTo, Ends
  <2> QED BY <2>1, <2>2, <2>3, <2>4, <2>5 DEF TypeOK
<1>2. CASE List(r)
  BY <1>2 DEF TypeOK, List
<1>3. CASE Forward(r)
  <2>1. toDaemon' \in [Tunnels -> Seq(Messages)]
    BY <1>0, <1>3, SendTyping DEF Forward, TypeOK
  <2>2. UNCHANGED <<tunnelVars, toRelay, inHand, done, handler, via, streams, respChan, seen>>
    BY <1>3 DEF Forward
  <2>3. via[r] # 0
    BY <1>3, <1>t DEF Forward
  <2>4. /\ proxy' \in [Requests -> {"new", "admitted", "listed", "waiting", "streaming",
                                    "pumping", "typed", "leaving", "done"}]
        /\ \A q \in Requests \ {r} : proxy'[q] = proxy[q]
    BY <1>3, <1>t DEF Forward
  <2>5. outcome' \in [Requests -> {"none", "refused", "answered", "timeout", "left", "closed"}]
    BY <1>3, <1>t DEF Forward
  <2> HIDE DEF OnlyProxy, At, GoTo, Ends
  <2> QED BY <2>1, <2>2, <2>3, <2>4, <2>5 DEF TypeOK
<1>4. CASE Answer(r)
  <2>1. seen' \in [Requests -> Seq({"header", "data"})]
    BY <1>4, ShowTyping DEF Answer
  <2>2. UNCHANGED <<tunnelVars, toDaemon, toRelay, inHand, done, handler, via, streams>>
    BY <1>4 DEF Answer
  <2>3. via[r] # 0 /\ respChan' \in [Requests -> 0..1]
    BY <1>4, <1>t DEF Answer
  <2>4. /\ proxy' \in [Requests -> {"new", "admitted", "listed", "waiting", "streaming",
                                    "pumping", "typed", "leaving", "done"}]
        /\ \A q \in Requests \ {r} : proxy'[q] = proxy[q]
    BY <1>4, <1>t DEF Answer
  <2>5. outcome' \in [Requests -> {"none", "refused", "answered", "timeout", "left", "closed"}]
    BY <1>4, <1>t DEF Answer
  <2> HIDE DEF OnlyProxy, At, GoTo, Ends
  <2> QED BY <2>1, <2>2, <2>3, <2>4, <2>5 DEF TypeOK
<1>5. CASE Timeout(r)
  BY <1>5 DEF TypeOK, Timeout
<1>6. CASE StreamEnds(r)
  BY <1>6 DEF TypeOK, StreamEnds
<1>7. CASE Return(r)
  BY <1>7 DEF TypeOK, Return
<1>8. CASE Abandon(r)
  <2>1. toDaemon' \in [Tunnels -> Seq(Messages)]
    BY <1>0, <1>8, SendTyping DEF Abandon
  <2> QED BY <1>8, <2>1 DEF TypeOK, Abandon
<1>9. CASE Type(r)
  <2>1. toDaemon' \in [Tunnels -> Seq(Messages)]
    BY <1>0, <1>9, SendTyping DEF Type
  <2> QED BY <1>9, <2>1 DEF TypeOK, Type
<1> QED BY <1>1, <1>2, <1>3, <1>4, <1>5, <1>6, <1>7, <1>8, <1>9 DEF Proxy

LEMMA DaemonTyping ==
  ASSUME TypeOK, Read \/ \E r \in Requests : Handle(r) \/ StreamClose(r)
  PROVE  TypeOK'
<1> USE DEF tunnelVars, proxyVars, OnlyDaemon
<1>1. CASE Read
  <2>1. session \in Tunnels
    BY <1>1 DEF Read, TypeOK
  <2>0. toDaemon[session] \in Seq(Messages) /\ toDaemon[session] # <<>>
    BY <1>1, <2>1 DEF Read, TypeOK
  <2>a. Head(toDaemon[session]) \in Messages /\ Tail(toDaemon[session]) \in Seq(Messages)
    BY <2>0, HeadTailProperties
  <2>2. /\ Head(toDaemon[session]) \in Messages /\ Tail(toDaemon[session]) \in Seq(Messages)
        /\ Head(toDaemon[session]).stream \in Requests
    BY <2>a DEF Messages
  <2> QED BY <1>1, <2>1, <2>2 DEF Read, TypeOK
<1>2. ASSUME NEW r \in Requests, Respond(r) \/ StreamHeader(r) \/ StreamData(r) \/ StreamClose(r)
      PROVE  TypeOK'
  <2>1. via[r] \in {0} \cup Tunnels
    BY DEF TypeOK
  <2>2. toRelay' \in [Tunnels -> Seq(Messages)]
    BY <1>2, <2>1, SendTyping DEF Respond, StreamHeader, StreamData, StreamClose
  <2>3. /\ handler' \in [Requests -> {"none", "running", "headed", "sent", "ended"}]
        /\ UNCHANGED <<tunnelVars, inHand, proxyVars, respChan, done, seen, toDaemon>>
    BY <1>2 DEF Respond, StreamHeader, StreamData, StreamClose, TypeOK
  <2> QED BY <2>2, <2>3 DEF TypeOK
<1>3. ASSUME NEW r \in Requests, ServeTerminal(r) PROVE TypeOK'
  <2>1. /\ handler' \in [Requests -> {"none", "running", "headed", "sent", "ended"}]
        /\ link' \in [Tunnels -> {"new", "up", "down"}] /\ session' \in {0} \cup Tunnels
    BY <1>3 DEF ServeTerminal, TypeOK
  <2> QED BY <1>3, <2>1 DEF ServeTerminal, TypeOK
<1> QED BY <1>1, <1>2, <1>3 DEF Handle

LEMMA StepTyped == TypeOK /\ [Next]_vars => TypeOK'
<1>1. TypeOK /\ UNCHANGED vars => TypeOK'
  BY DEF TypeOK, vars, tunnelVars, proxyVars
<1> QED BY <1>1, TunnelTyping, ReaderTyping, ProxyTyping, DaemonTyping DEF Next

\* The variables have their types in every reachable state.
THEOREM Typing == Spec => []TypeOK
BY InitTyped, StepTyped, PTL DEF Spec

(***************************************************************************)
(* One tunnel.  The strengthening: a tunnel is not served before it is     *)
(* dialed, so that a new websocket is never that of an old goroutine.      *)
(***************************************************************************)
Fresh == \A c \in Tunnels : c > dialed => serving[c] = "none"
Replaced == OneTunnel /\ Fresh

LEMMA StepReplaced == TypeOK /\ Replaced /\ [Next]_vars => Replaced'
<1> SUFFICES ASSUME TypeOK, Replaced, [Next]_vars PROVE Replaced'
  OBVIOUS
<1> USE DEF Replaced, OneTunnel, Fresh
<1>1. CASE UNCHANGED tunnelVars
  BY <1>1 DEF tunnelVars
<1>2. CASE Dial
  <2>1. dialed \in Nat /\ dialed + 1 \in Tunnels
    BY <1>2, BoundAssumption DEF Dial, TypeOK, Tunnels
  <2>2. serving[dialed + 1] = "none" /\ dialed + 1 # registered
    BY <2>1 DEF TypeOK, Tunnels
  <2>3. OneTunnel'
    BY <1>2, <2>1, <2>2 DEF Dial, TypeOK
  <2>4. Fresh'
    BY <1>2, <2>1 DEF Dial, TypeOK, Tunnels
  <2> QED BY <2>3, <2>4
<1>3. CASE Hangup
  BY <1>3 DEF Hangup
<1>4. ASSUME NEW c \in Tunnels, LinkFails(c) PROVE Replaced'
  BY <1>4 DEF LinkFails, TypeOK
<1>5. ASSUME NEW c \in Tunnels, Register(c) PROVE Replaced'
  BY <1>5 DEF Register, TypeOK, Tunnels
<1>6. ASSUME NEW c \in Tunnels, Unregister(c) PROVE Replaced'
  BY <1>6 DEF Unregister, TypeOK, Tunnels
<1>7. ASSUME NEW c \in Tunnels, Receive(c) \/ Deliver(c) PROVE UNCHANGED tunnelVars
  BY <1>7 DEF Receive, Deliver, DeliverResponse, DeliverData, DeliverClose, Put
<1>8. ASSUME NEW r \in Requests, Admit(r) \/ Proxy(r) \/ Abandon(r) \/ Type(r)
      PROVE  UNCHANGED tunnelVars
  BY <1>8 DEF Proxy, Admit, List, Forward, Answer, Timeout, StreamEnds, Return, Abandon, Type,
              OnlyProxy
<1>9. ASSUME NEW r \in Requests, Handle(r) \/ StreamClose(r)
      PROVE  UNCHANGED tunnelVars \/ ServeTerminal(r)
  BY <1>9 DEF Handle, Respond, StreamHeader, StreamData, StreamClose, OnlyDaemon
<1>12. ASSUME NEW r \in Requests, ServeTerminal(r) PROVE Replaced'
  BY <1>12 DEF ServeTerminal, TypeOK
<1>10. Read => UNCHANGED tunnelVars
  BY DEF Read, OnlyDaemon
<1>11. UNCHANGED vars => UNCHANGED tunnelVars
  BY DEF vars
<1> QED BY <1>1, <1>2, <1>3, <1>4, <1>5, <1>6, <1>7, <1>8, <1>9, <1>10, <1>11, <1>12 DEF Next

\* However often the daemon reconnects, new requests go to the tunnel that is
\* served, and every other tunnel that is still read has been cut off.
THEOREM OneTunnelServed == Spec => []OneTunnel
<1>1. Init => Replaced
  BY DEF Init, Replaced, OneTunnel, Fresh
<1>2. TypeOK /\ Replaced /\ [Next]_vars => Replaced'
  BY StepReplaced
<1>3. Replaced => OneTunnel
  BY DEF Replaced
<1> QED BY <1>1, <1>2, <1>3, Typing, PTL DEF Spec

(***************************************************************************)
(* One response.  A request is sent once, so its handler starts once and   *)
(* responds once.  The strengthening follows the one token of a request:   *)
(* its message on the way to the daemon (Asked), the response on the way   *)
(* back (Sent, Single), in the reader's hand (Held) and in the channel     *)
(* (Quiet).  Listed says how long the stream of a request is known.        *)
(***************************************************************************)
Early(r) == proxy[r] \in {"new", "admitted", "listed"}
Begun(r) == handler[r] \notin {"none", "running"}

Asked ==
  \A c \in Tunnels, r \in Requests : \A i \in 1..Len(toDaemon[c]) :
    toDaemon[c][i] = Msg("request", r) =>
      /\ c = via[r] /\ ~Early(r) /\ handler[r] = "none"
      /\ \A j \in 1..Len(toDaemon[c]) : toDaemon[c][j] = Msg("request", r) => j = i

Sent ==
  \A c \in Tunnels : \A i \in 1..Len(toRelay[c]) :
    via[toRelay[c][i].stream] = c /\ Begun(toRelay[c][i].stream)

Single ==
  \A c \in Tunnels, r \in Requests : \A i \in 1..Len(toRelay[c]) :
    toRelay[c][i] = Msg("response", r) =>
      /\ respChan[r] = 0 /\ inHand[c] # Msg("response", r)
      /\ \A j \in 1..Len(toRelay[c]) : toRelay[c][j] = Msg("response", r) => j = i

Held ==
  \A c \in Tunnels, r \in Requests, type \in {"response", "data", "close"} :
    inHand[c] = Msg(type, r) =>
      via[r] = c /\ Begun(r) /\ (type = "response" => respChan[r] = 0)

Quiet ==
  \A r \in Requests : /\ Early(r) => handler[r] = "none"
                      /\ respChan[r] # 0 => Begun(r)
                      /\ proxy[r] = "new" => via[r] = 0

Listed ==
  \A r \in Requests :
    via[r] # 0 /\ proxy[r] \notin {"new", "admitted", "done"} => r \in streams[via[r]] \/ r \in done

Flow == Asked /\ Sent /\ Single /\ Held /\ Quiet /\ Listed

\* A message is told by its type and its stream.
LEMMA MessageForms ==
  /\ \A t, u, r, q : Msg(t, r) = Msg(u, q) <=> t = u /\ r = q
  /\ \A m \in Messages : /\ m = Msg(m.type, m.stream) /\ m.stream \in Requests
                         /\ m.type \in {"request", "response", "data", "close"}
  /\ \A t, r : Msg(t, r).type = t /\ Msg(t, r).stream = r
  /\ \A t, r : t # "none" => Msg(t, r) # NoMessage
<1>1. \A t, r : Msg(t, r).type = t /\ Msg(t, r).stream = r
  BY DEF Msg
<1>2. \A t, u, r, q : Msg(t, r) = Msg(u, q) <=> t = u /\ r = q
  BY <1>1
<1>3. ASSUME NEW m \in Messages
      PROVE  /\ m = Msg(m.type, m.stream) /\ m.stream \in Requests
             /\ m.type \in {"request", "response", "data", "close"}
  BY DEF Messages, Msg
<1>4. \A t, r : t # "none" => Msg(t, r) # NoMessage
  BY <1>1 DEF NoMessage
<1> QED BY <1>1, <1>2, <1>3, <1>4

\* What a send does to a tunnel: nothing, or one message behind the others.
LEMMA SentDown ==
  ASSUME TypeOK, NEW c \in {0} \cup Tunnels, NEW m \in Messages, ToDaemon(c, m),
         NEW d \in Tunnels, NEW i \in 1..Len(toDaemon'[d])
  PROVE  \/ i \in 1..Len(toDaemon[d]) /\ toDaemon'[d][i] = toDaemon[d][i]
         \/ d = c /\ i = Len(toDaemon[d]) + 1 /\ toDaemon'[d][i] = m
<1>1. toDaemon[d] \in Seq(Messages)
  BY DEF TypeOK
<1>2. /\ Len(Append(toDaemon[d], m)) = Len(toDaemon[d]) + 1 /\ Len(toDaemon[d]) \in Nat
      /\ \A k \in 1..Len(toDaemon[d]) : Append(toDaemon[d], m)[k] = toDaemon[d][k]
      /\ Append(toDaemon[d], m)[Len(toDaemon[d]) + 1] = m
  BY <1>1, AppendProperties
<1>3. toDaemon \in [Tunnels -> Seq(Messages)]
  BY DEF TypeOK
<1>4. CASE toDaemon'[d] = toDaemon[d]
  BY <1>4
<1>5. CASE d = c /\ toDaemon'[d] = Append(toDaemon[d], m)
  <2>1. i \in 1..Len(toDaemon[d]) \/ i = Len(toDaemon[d]) + 1
    BY <1>2, <1>5
  <2> QED BY <1>2, <1>5, <2>1
<1>6. toDaemon'[d] = toDaemon[d] \/ (d = c /\ toDaemon'[d] = Append(toDaemon[d], m))
  BY <1>3 DEF ToDaemon
<1> QED BY <1>4, <1>5, <1>6

LEMMA SentUp ==
  ASSUME TypeOK, NEW c \in {0} \cup Tunnels, NEW m \in Messages, ToRelay(c, m),
         NEW d \in Tunnels, NEW i \in 1..Len(toRelay'[d])
  PROVE  \/ i \in 1..Len(toRelay[d]) /\ toRelay'[d][i] = toRelay[d][i]
         \/ d = c /\ i = Len(toRelay[d]) + 1 /\ toRelay'[d][i] = m
<1>1. toRelay[d] \in Seq(Messages)
  BY DEF TypeOK
<1>2. /\ Len(Append(toRelay[d], m)) = Len(toRelay[d]) + 1 /\ Len(toRelay[d]) \in Nat
      /\ \A k \in 1..Len(toRelay[d]) : Append(toRelay[d], m)[k] = toRelay[d][k]
      /\ Append(toRelay[d], m)[Len(toRelay[d]) + 1] = m
  BY <1>1, AppendProperties
<1>3. toRelay \in [Tunnels -> Seq(Messages)]
  BY DEF TypeOK
<1>4. CASE toRelay'[d] = toRelay[d]
  BY <1>4
<1>5. CASE d = c /\ toRelay'[d] = Append(toRelay[d], m)
  <2>1. i \in 1..Len(toRelay[d]) \/ i = Len(toRelay[d]) + 1
    BY <1>2, <1>5
  <2> QED BY <1>2, <1>5, <2>1
<1>6. toRelay'[d] = toRelay[d] \/ (d = c /\ toRelay'[d] = Append(toRelay[d], m))
  BY <1>3 DEF ToRelay
<1> QED BY <1>4, <1>5, <1>6

\* A tunnel whose first message has been read.
LEMMA ReadForms ==
  ASSUME NEW q \in Seq(Messages), q # <<>>
  PROVE  /\ Head(q) = q[1] /\ 1 \in 1..Len(q) /\ Head(q) \in Messages
         /\ \A i \in 1..Len(Tail(q)) : i + 1 \in 1..Len(q) /\ i + 1 # 1 /\ Tail(q)[i] = q[i + 1]
         /\ \A i, j \in 1..Len(Tail(q)) : i + 1 = j + 1 => i = j
<1>1. Len(q) \in Nat /\ Len(q) > 0
  BY EmptySeq
<1>2. Head(q) = q[1] /\ Len(Tail(q)) = Len(q) - 1 /\ \A i \in 1..Len(q)-1 : Tail(q)[i] = q[i+1]
  BY <1>1, HeadTailProperties
<1> QED BY <1>1, <1>2, HeadTailProperties

LEMMA InitFlow == Init => Flow
BY MessageForms DEF Init, Flow, Asked, Sent, Single, Held, Quiet, Listed, Early, Begun, Msg, NoMessage

\* The steps of handleProxy neither start a handler nor touch a response, and
\* change the tunnel of a request only before it is sent.
LEMMA FrameFlow ==
  ASSUME TypeOK, Flow, TypeOK', UNCHANGED <<toRelay, inHand, handler>>,
         \A q \in Requests : /\ ~Early(q) => ~Early(q)' /\ via'[q] = via[q]
                             /\ respChan'[q] = respChan[q] \/ respChan'[q] = 0
                             /\ proxy'[q] = "new" => via'[q] = 0,
         \A d \in Tunnels : \A i \in 1..Len(toDaemon'[d]) :
            \/ i \in 1..Len(toDaemon[d]) /\ toDaemon'[d][i] = toDaemon[d][i]
            \/ \A q \in Requests : toDaemon'[d][i] # Msg("request", q)
  PROVE  Asked' /\ Sent' /\ Single' /\ Held' /\ Quiet'
<1>1. \A q \in Requests : Begun(q) => ~Early(q) /\ via'[q] = via[q] /\ Begun(q)'
  BY DEF Flow, Quiet, Begun
<1>2. Asked'
  <2> SUFFICES ASSUME NEW c \in Tunnels, NEW r \in Requests, NEW i \in 1..Len(toDaemon'[c]),
                      toDaemon'[c][i] = Msg("request", r)
               PROVE  /\ c = via'[r] /\ ~Early(r)' /\ handler'[r] = "none"
                      /\ \A j \in 1..Len(toDaemon'[c]) : toDaemon'[c][j] = Msg("request", r) => j = i
    BY DEF Asked, Msg
  <2>1. i \in 1..Len(toDaemon[c]) /\ toDaemon[c][i] = Msg("request", r)
    OBVIOUS
  <2>2. c = via[r] /\ ~Early(r) /\ handler[r] = "none"
    BY <2>1 DEF Flow, Asked
  <2>3. ASSUME NEW j \in 1..Len(toDaemon'[c]), toDaemon'[c][j] = Msg("request", r)
        PROVE  j = i
    BY <2>1, <2>3 DEF Flow, Asked
  <2> QED BY <2>2, <2>3
<1>3. Sent'
  <2> SUFFICES ASSUME NEW c \in Tunnels, NEW i \in 1..Len(toRelay[c])
               PROVE  via'[toRelay[c][i].stream] = c /\ Begun(toRelay[c][i].stream)
    BY DEF Sent, Begun
  <2>1. toRelay[c][i] \in Messages
    BY DEF TypeOK
  <2> QED BY <1>1, <2>1, MessageForms DEF Flow, Sent
<1>4. Single'
  BY ZenonT(40) DEF Flow, Single, Msg
<1>5. Held'
  <2> SUFFICES ASSUME NEW c \in Tunnels, NEW r \in Requests, NEW type \in {"response", "data", "close"},
                      inHand'[c] = Msg(type, r)
               PROVE  via'[r] = c /\ Begun(r)' /\ (type = "response" => respChan'[r] = 0)
    BY DEF Held, Msg
  <2> QED BY <1>1 DEF Flow, Held
<1>6. Quiet'
  BY DEF Flow, Quiet, Begun, Early
<1> QED BY <1>2, <1>3, <1>4, <1>5, <1>6

LEMMA ProxyFlow ==
  ASSUME TypeOK, Flow, TypeOK', NEW r \in Requests, Admit(r) \/ Proxy(r) \/ Abandon(r) \/ Type(r)
  PROVE  Flow'
<1> USE DEF OnlyProxy, At, GoTo, Ends
<1>t. /\ via \in [Requests -> {0} \cup Tunnels] /\ registered \in {0} \cup Tunnels
      /\ respChan \in [Requests -> 0..1] /\ streams \in [Tunnels -> SUBSET Requests]
      /\ proxy \in [Requests -> {"new", "admitted", "listed", "waiting", "streaming",
                                "pumping", "typed", "leaving", "done"}]
      /\ via[r] = 0 => proxy[r] \in {"new", "leaving", "done"}
  BY DEF TypeOK
<1>q. \A q \in Requests : proxy[q] = "new" => via[q] = 0
  BY DEF Flow, Quiet
<1>l. Listed
  BY DEF Flow
<1>1. ASSUME Admit(r) \/ List(r) \/ Answer(r) \/ Timeout(r) \/ StreamEnds(r) \/ Return(r)
             \/ (Forward(r) /\ UNCHANGED toDaemon)
      PROVE  Flow'
  <2>1. UNCHANGED <<toRelay, inHand, handler, toDaemon, done>>
    BY <1>1 DEF Admit, List, Answer, Timeout, StreamEnds, Return, Forward
  <2>2. ASSUME NEW q \in Requests
        PROVE  /\ ~Early(q) => ~Early(q)' /\ via'[q] = via[q]
               /\ respChan'[q] = respChan[q] \/ respChan'[q] = 0
               /\ proxy'[q] = "new" => via'[q] = 0
    BY <1>1, <1>t, <1>q DEF Admit, List, Answer, Timeout, StreamEnds, Return, Forward, Early
  <2>3. Listed'
    <3>1. CASE Admit(r)
      BY <1>t, <1>q, <1>l, <3>1 DEF Admit, Listed
    <3>2. CASE List(r)
      BY <1>t, <1>l, <3>2 DEF List, Listed
    <3>3. CASE Answer(r) \/ Timeout(r) \/ StreamEnds(r) \/ (Forward(r) /\ UNCHANGED toDaemon)
      BY <1>t, <1>l, <3>3 DEF Answer, Timeout, StreamEnds, Forward, Listed
    <3>4. CASE Return(r)
      BY <1>t, <1>l, <3>4 DEF Return, Listed
    <3> QED BY <1>1, <3>1, <3>2, <3>3, <3>4
  <2> HIDE DEF OnlyProxy, At, GoTo, Ends
  <2>4. Asked' /\ Sent' /\ Single' /\ Held' /\ Quiet'
    BY <2>1, <2>2, FrameFlow
  <2> QED BY <2>3, <2>4 DEF Flow
<1>2. ASSUME Abandon(r) \/ Type(r) PROVE Flow'
  <2>1. PICK type \in {"data", "close"} : ToDaemon(via[r], Msg(type, r))
    BY <1>2 DEF Abandon, Type
  <2>2. /\ UNCHANGED <<toRelay, inHand, handler, done, via, respChan, streams>>
        /\ \A q \in Requests : /\ ~Early(q) => ~Early(q)'
                               /\ proxy'[q] \in {"new", "admitted", "done"} => proxy[q] = proxy'[q]
                               /\ proxy'[q] \notin {"new", "admitted", "done"} =>
                                   proxy[q] \notin {"new", "admitted", "done"}
    BY <1>2, <1>t DEF Abandon, Type, Early
  <2>3. Listed'
    BY <1>l, <2>2 DEF Listed
  <2>4. via[r] \in {0} \cup Tunnels /\ Msg(type, r) \in Messages
    BY <1>t DEF Msg, Messages
  <2>5. ASSUME NEW d \in Tunnels, NEW i \in 1..Len(toDaemon'[d])
        PROVE  \/ i \in 1..Len(toDaemon[d]) /\ toDaemon'[d][i] = toDaemon[d][i]
               \/ \A q \in Requests : toDaemon'[d][i] # Msg("request", q)
    <3>1. \/ i \in 1..Len(toDaemon[d]) /\ toDaemon'[d][i] = toDaemon[d][i]
          \/ toDaemon'[d][i] = Msg(type, r)
      BY <2>1, <2>4, SentDown
    <3>2. \A q \in Requests : Msg(type, r) # Msg("request", q)
      BY MessageForms
    <3> QED BY <3>1, <3>2
  <2>6. \A q \in Requests : proxy'[q] = "new" => via'[q] = 0
    BY <1>q, <2>2
  <2> HIDE DEF OnlyProxy, At, GoTo, Ends
  <2>7. Asked' /\ Sent' /\ Single' /\ Held' /\ Quiet'
    BY <2>2, <2>5, <2>6, FrameFlow
  <2> QED BY <2>3, <2>7 DEF Flow
<1>3. ASSUME Forward(r), ~UNCHANGED toDaemon PROVE Flow'
  <2>1. /\ ToDaemon(via[r], Msg("request", r)) /\ proxy[r] = "listed"
        /\ proxy' = [proxy EXCEPT ![r] = IF r \in Terminals THEN "pumping" ELSE "waiting"]
        /\ UNCHANGED <<toRelay, inHand, handler, done, via, respChan, streams>>
    BY <1>3 DEF Forward
  <2>2. Early(r) /\ handler[r] = "none" /\ ~Early(r)' /\ via[r] \in Tunnels
    BY <1>t, <2>1 DEF Flow, Quiet, Early
  <2>3. \A q \in Requests : /\ ~Early(q) => ~Early(q)'
                            /\ q # r => proxy'[q] = proxy[q]
                            /\ proxy'[q] = "new" => via'[q] = 0
    BY <1>t, <1>q, <2>1, <2>2 DEF Early
  <2>4. Listed'
    BY <1>t, <1>l, <2>1 DEF Listed
  <2>5. Msg("request", r) \in Messages
    BY DEF Msg, Messages
  <2>6. ASSUME NEW d \in Tunnels, NEW i \in 1..Len(toDaemon'[d]), NEW q \in Requests,
               toDaemon'[d][i] = Msg("request", q)
        PROVE  \/ q # r /\ i \in 1..Len(toDaemon[d]) /\ toDaemon[d][i] = Msg("request", q)
               \/ q = r /\ d = via[r] /\ i = Len(toDaemon[d]) + 1
    <3>1. CASE i \in 1..Len(toDaemon[d]) /\ toDaemon'[d][i] = toDaemon[d][i]
      BY <2>2, <2>6, <3>1 DEF Flow, Asked
    <3>2. CASE d = via[r] /\ i = Len(toDaemon[d]) + 1 /\ toDaemon'[d][i] = Msg("request", r)
      BY <2>6, <3>2, MessageForms
    <3>3. \/ i \in 1..Len(toDaemon[d]) /\ toDaemon'[d][i] = toDaemon[d][i]
          \/ d = via[r] /\ i = Len(toDaemon[d]) + 1 /\ toDaemon'[d][i] = Msg("request", r)
      BY <2>1, <2>2, <2>5, SentDown
    <3> QED BY <3>1, <3>2, <3>3
  <2> HIDE DEF OnlyProxy, At, GoTo, Ends
  <2>7. Asked'
    <3> SUFFICES ASSUME NEW c \in Tunnels, NEW q \in Requests, NEW i \in 1..Len(toDaemon'[c]),
                        toDaemon'[c][i] = Msg("request", q)
                 PROVE  /\ c = via[q] /\ ~Early(q)' /\ handler[q] = "none"
                        /\ \A j \in 1..Len(toDaemon'[c]) : toDaemon'[c][j] = Msg("request", q) => j = i
      BY ZenonT(40), <2>1 DEF Asked, Msg
    <3>1. CASE q = r
      BY <2>2, <2>6, <3>1
    <3>2. CASE q # r
      BY <2>3, <2>6, <3>2 DEF Flow, Asked
    <3> QED BY <3>1, <3>2
  <2>8. Sent' /\ Single' /\ Held'
    BY <2>1 DEF Flow, Sent, Single, Held, Begun, Msg
  <2>9. Quiet'
    BY <2>1, <2>3 DEF Flow, Quiet, Begun, Early
  <2> QED BY <2>4, <2>7, <2>8, <2>9 DEF Flow
<1> QED BY <1>1, <1>2, <1>3 DEF Proxy

LEMMA ReaderFlow ==
  ASSUME TypeOK, Flow, TypeOK', NEW c \in Tunnels, Receive(c) \/ Deliver(c)
  PROVE  Flow'
<1> USE DEF proxyVars, tunnelVars
<1>0. /\ toRelay \in [Tunnels -> Seq(Messages)] /\ inHand \in [Tunnels -> Messages \cup {NoMessage}]
      /\ streams \in [Tunnels -> SUBSET Requests] /\ respChan \in [Requests -> 0..1]
      /\ via \in [Requests -> {0} \cup Tunnels]
  BY DEF TypeOK
<1>1. CASE Receive(c)
  <2> DEFINE q == toRelay[c]
  <2>1. q \in Seq(Messages) /\ q # <<>> /\ inHand[c] = NoMessage
    BY <1>0, <1>1 DEF Receive
  <2>2. /\ toRelay' = [toRelay EXCEPT ![c] = Tail(q)]
        /\ inHand' = inHand \/ inHand' = [inHand EXCEPT ![c] = Head(q)]
        /\ UNCHANGED <<toDaemon, via, streams, proxy, respChan, done, handler>>
    BY <1>1 DEF Receive
  <2>3. /\ Head(q) = q[1] /\ 1 \in 1..Len(q) /\ Head(q) \in Messages
        /\ \A i \in 1..Len(Tail(q)) : i + 1 \in 1..Len(q) /\ i + 1 # 1 /\ Tail(q)[i] = q[i + 1]
        /\ \A i, j \in 1..Len(Tail(q)) : i + 1 = j + 1 => i = j
    BY <2>1, ReadForms
  <2> HIDE DEF q
  <2>4. /\ toRelay'[c] = Tail(q) /\ \A d \in Tunnels \ {c} : toRelay'[d] = toRelay[d]
        /\ inHand'[c] = Head(q) \/ inHand'[c] = NoMessage
        /\ \A d \in Tunnels \ {c} : inHand'[d] = inHand[d]
    BY <1>0, <2>1, <2>2
  <2>5. Asked' /\ Quiet' /\ Listed'
    BY <2>2 DEF Flow, Asked, Quiet, Listed, Early, Begun, Msg
  <2>6. Sent'
    <3> SUFFICES ASSUME NEW d \in Tunnels, NEW i \in 1..Len(toRelay'[d])
                 PROVE  via[toRelay'[d][i].stream] = d /\ Begun(toRelay'[d][i].stream)
      BY <2>2 DEF Sent, Begun
    <3>1. CASE d = c
      <4>1. i + 1 \in 1..Len(q) /\ toRelay'[d][i] = q[i + 1]
        BY <2>3, <2>4, <3>1
      <4> QED BY <3>1, <4>1 DEF Flow, Sent, q
    <3>2. CASE d # c
      BY <2>4, <3>2 DEF Flow, Sent
    <3> QED BY <3>1, <3>2
  <2>7. Single'
    <3> SUFFICES ASSUME NEW d \in Tunnels, NEW r \in Requests, NEW i \in 1..Len(toRelay'[d]),
                        toRelay'[d][i] = Msg("response", r)
                 PROVE  /\ respChan'[r] = 0 /\ inHand'[d] # Msg("response", r)
                        /\ \A j \in 1..Len(toRelay'[d]) : toRelay'[d][j] = Msg("response", r) => j = i
      BY DEF Single, Msg
    <3>1. CASE d = c
      <4>0. i + 1 \in 1..Len(q) /\ q[i + 1] = Msg("response", r)
        BY <2>3, <2>4, <3>1
      <4>1. /\ respChan[r] = 0
            /\ \A j \in 1..Len(q) : q[j] = Msg("response", r) => j = i + 1
        BY <4>0 DEF Flow, Single, q
      <4>2. Head(q) # Msg("response", r)
        BY <2>3, <2>4, <3>1, <4>1
      <4>3. inHand'[c] # Msg("response", r)
        BY <2>4, <4>2, MessageForms
      <4>4. ASSUME NEW j \in 1..Len(toRelay'[d]), toRelay'[d][j] = Msg("response", r) PROVE j = i
        <5>1. j + 1 \in 1..Len(q) /\ q[j + 1] = Msg("response", r)
          BY <2>3, <2>4, <3>1, <4>4
        <5> QED BY <2>3, <2>4, <3>1, <4>1, <5>1
      <4> QED BY <2>2, <3>1, <4>1, <4>3, <4>4
    <3>2. CASE d # c
      BY <2>2, <2>4, <3>2 DEF Flow, Single
    <3> QED BY <3>1, <3>2
  <2>8. Held'
    <3> SUFFICES ASSUME NEW d \in Tunnels, NEW r \in Requests, NEW type \in {"response", "data", "close"},
                        inHand'[d] = Msg(type, r)
                 PROVE  via'[r] = d /\ Begun(r)' /\ (type = "response" => respChan'[r] = 0)
      BY DEF Held, Msg
    <3>0. UNCHANGED <<via, respChan>> /\ (Begun(r) => Begun(r)')
      BY <2>2 DEF Begun
    <3>1. CASE d = c
      <4>1. Head(q) = Msg(type, r)
        BY <2>4, <3>1, MessageForms
      <4>2. Head(q).stream = r
        BY <4>1, MessageForms
      <4>3. via[r] = c /\ Begun(r) /\ (type = "response" => respChan[r] = 0)
        BY <2>3, <4>1, <4>2 DEF Flow, Sent, Single, q
      <4> QED BY <3>0, <3>1, <4>3
    <3>2. CASE d # c
      <4>1. via[r] = d /\ Begun(r) /\ (type = "response" => respChan[r] = 0)
        BY <2>4, <3>2 DEF Flow, Held
      <4> QED BY <3>0, <4>1
    <3> QED BY <3>1, <3>2
  <2> QED BY <2>5, <2>6, <2>7, <2>8 DEF Flow
<1>2. CASE Deliver(c)
  <2> DEFINE r == inHand[c].stream
  <2>1. inHand[c] # NoMessage /\ inHand[c].type \in {"response", "data", "close"}
    BY <1>2 DEF Deliver, DeliverResponse, DeliverData, DeliverClose
  <2>2. r \in Requests /\ inHand[c] = Msg(inHand[c].type, r)
    BY <1>0, <2>1, MessageForms
  <2>3. via[r] = c /\ Begun(r)
    BY <2>1, <2>2 DEF Flow, Held
  <2>4. /\ inHand' = [inHand EXCEPT ![c] = NoMessage]
        /\ UNCHANGED <<toDaemon, toRelay, handler, via, proxy>>
    BY <1>2 DEF Deliver, DeliverResponse, DeliverData, DeliverClose, Put
  <2> HIDE DEF r
  <2>5. inHand'[c] = NoMessage /\ \A d \in Tunnels \ {c} : inHand'[d] = inHand[d]
    BY <1>0, <2>4
  <2>6. Asked' /\ Sent'
    BY <2>4 DEF Flow, Asked, Sent, Early, Begun, Msg
  <2>7. ASSUME NEW d \in Tunnels, NEW x \in Requests, NEW type \in {"response", "data", "close"},
               inHand'[d] = Msg(type, x)
        PROVE  d # c /\ x # r /\ via[x] = d /\ Begun(x) /\ (type = "response" => respChan[x] = 0)
    <3>1. d # c
      BY <2>5, <2>7, MessageForms
    <3>2. via[x] = d /\ Begun(x) /\ (type = "response" => respChan[x] = 0)
      BY <2>5, <2>7, <3>1 DEF Flow, Held
    <3> QED BY <2>3, <3>1, <3>2
  <2>8. ASSUME UNCHANGED respChan PROVE Single' /\ Held' /\ Quiet'
    <3>1. Single'
      <4> SUFFICES ASSUME NEW d \in Tunnels, NEW x \in Requests, NEW i \in 1..Len(toRelay[d]),
                          toRelay[d][i] = Msg("response", x)
                   PROVE  /\ respChan[x] = 0 /\ inHand'[d] # Msg("response", x)
                          /\ \A j \in 1..Len(toRelay[d]) : toRelay[d][j] = Msg("response", x) => j = i
        BY <2>4, <2>8 DEF Single, Msg
      <4>1. CASE d = c
        BY <2>5, <4>1, MessageForms DEF Flow, Single
      <4>2. CASE d # c
        BY <2>5, <4>2 DEF Flow, Single
      <4> QED BY <4>1, <4>2
    <3>2. Held'
      <4> SUFFICES ASSUME NEW d \in Tunnels, NEW x \in Requests, NEW type \in {"response", "data", "close"},
                          inHand'[d] = Msg(type, x)
                   PROVE  via'[x] = d /\ Begun(x)' /\ (type = "response" => respChan'[x] = 0)
        BY DEF Held, Msg
      <4>1. via' = via /\ (Begun(x) => Begun(x)')
        BY <2>4 DEF Begun
      <4> QED BY <4>1, <2>8, <2>7
    <3>3. Quiet'
      BY <2>4, <2>8 DEF Flow, Quiet, Early, Begun
    <3> QED BY <3>1, <3>2, <3>3
  <2>9. CASE DeliverResponse(c)
    <3>1. /\ inHand[c] = Msg("response", r) /\ UNCHANGED <<streams, done>>
          /\ respChan' = [respChan EXCEPT ![r] = 1]
      BY <2>2, <2>9 DEF DeliverResponse, r
    <3>2. ASSUME NEW d \in Tunnels, NEW x \in Requests, NEW i \in 1..Len(toRelay[d]),
                 toRelay[d][i] = Msg("response", x)
          PROVE  x # r
      <4>1. via[x] = d
        BY <3>2, MessageForms DEF Flow, Sent
      <4>2. inHand[d] # Msg("response", x)
        BY <3>2 DEF Flow, Single
      <4> QED BY <2>3, <3>1, <4>1, <4>2
    <3>3. \A x \in Requests : x # r => respChan'[x] = respChan[x]
      BY <1>0, <3>1
    <3>4. Single'
      <4> SUFFICES ASSUME NEW d \in Tunnels, NEW x \in Requests, NEW i \in 1..Len(toRelay[d]),
                          toRelay[d][i] = Msg("response", x)
                   PROVE  /\ respChan'[x] = 0 /\ inHand'[d] # Msg("response", x)
                          /\ \A j \in 1..Len(toRelay[d]) : toRelay[d][j] = Msg("response", x) => j = i
        BY <2>4 DEF Single, Msg
      <4>1. /\ respChan[x] = 0 /\ inHand[d] # Msg("response", x)
            /\ \A j \in 1..Len(toRelay[d]) : toRelay[d][j] = Msg("response", x) => j = i
        BY DEF Flow, Single
      <4>2. inHand'[d] # Msg("response", x)
        BY <2>5, <4>1, MessageForms
      <4> QED BY <3>2, <3>3, <4>1, <4>2
    <3>5. Held'
      <4> SUFFICES ASSUME NEW d \in Tunnels, NEW x \in Requests, NEW type \in {"response", "data", "close"},
                          inHand'[d] = Msg(type, x)
                   PROVE  via'[x] = d /\ Begun(x)' /\ (type = "response" => respChan'[x] = 0)
        BY DEF Held, Msg
      <4>1. via' = via /\ (Begun(x) => Begun(x)')
        BY <2>4 DEF Begun
      <4> QED BY <4>1, <2>7, <3>3
    <3>6. Quiet'
      BY <2>3, <2>4, <3>3 DEF Flow, Quiet, Early, Begun
    <3>7. Listed'
      BY <2>4, <3>1 DEF Flow, Listed
    <3> QED BY <2>6, <3>4, <3>5, <3>6, <3>7 DEF Flow
  <2>10. CASE DeliverData(c)
    <3>1. UNCHANGED <<streams, done, respChan>>
      BY <2>10 DEF DeliverData
    <3> QED BY <2>4, <2>6, <2>8, <3>1 DEF Flow, Listed
  <2>11. CASE DeliverClose(c)
    <3>1. /\ UNCHANGED respChan /\ done' = done \cup {r}
          /\ streams' = [streams EXCEPT ![c] = @ \ {r}]
      BY <2>11 DEF DeliverClose, r
    <3>2. Listed'
      BY <1>0, <2>4, <3>1 DEF Flow, Listed
    <3> QED BY <2>6, <2>8, <3>1, <3>2 DEF Flow
  <2> QED BY <1>2, <2>9, <2>10, <2>11 DEF Deliver
<1> QED BY <1>1, <1>2

LEMMA ReadFlow ==
  ASSUME TypeOK, Flow, TypeOK', Read
  PROVE  Flow'
<1> DEFINE c == session
           q == toDaemon[c]
           r == Head(q).stream
<1>1. c \in Tunnels /\ q \in Seq(Messages) /\ q # <<>>
  BY DEF Read, TypeOK
<1>2. /\ toDaemon' = [toDaemon EXCEPT ![c] = Tail(q)]
      /\ handler' = IF Head(q).type = "request" THEN [handler EXCEPT ![r] = "running"] ELSE handler
      /\ UNCHANGED <<toRelay, inHand, via, streams, proxy, respChan, done>>
  BY DEF Read, OnlyDaemon, proxyVars
<1>3. /\ Head(q) = q[1] /\ 1 \in 1..Len(q) /\ Head(q) \in Messages
      /\ \A i \in 1..Len(Tail(q)) : i + 1 \in 1..Len(q) /\ i + 1 # 1 /\ Tail(q)[i] = q[i + 1]
      /\ \A i, j \in 1..Len(Tail(q)) : i + 1 = j + 1 => i = j
  BY <1>1, ReadForms
<1>4. handler \in [Requests -> {"none", "running", "headed", "sent", "ended"}]
      /\ toDaemon \in [Tunnels -> Seq(Messages)] /\ toRelay \in [Tunnels -> Seq(Messages)]
  BY DEF TypeOK
<1>5. r \in Requests /\ Head(q) = Msg(Head(q).type, r)
  BY <1>3, MessageForms
<1>6. Head(q).type = "request" => handler[r] = "none" /\ ~Early(r) /\ via[r] = c
  BY <1>1, <1>3, <1>5 DEF Flow, Asked
<1> HIDE DEF r, q, c
<1>7. /\ toDaemon'[c] = Tail(q) /\ toDaemon[c] = q
      /\ \A d \in Tunnels \ {c} : toDaemon'[d] = toDaemon[d]
  BY <1>1, <1>2, <1>4 DEF q
<1>8. \A x \in Requests : /\ Begun(x)' <=> Begun(x)
                          /\ Early(x)' <=> Early(x)
                          /\ handler'[x] = handler[x] \/ (x = r /\ Head(q) = Msg("request", r))
  BY <1>2, <1>4, <1>5, <1>6 DEF Begun, Early
<1>9. Asked'
  <2> SUFFICES ASSUME NEW d \in Tunnels, NEW x \in Requests, NEW i \in 1..Len(toDaemon'[d]),
                      toDaemon'[d][i] = Msg("request", x)
               PROVE  /\ d = via'[x] /\ ~Early(x)' /\ handler'[x] = "none"
                      /\ \A j \in 1..Len(toDaemon'[d]) : toDaemon'[d][j] = Msg("request", x) => j = i
    BY DEF Asked, Msg
  <2>1. CASE d = c
    <3>1. i + 1 \in 1..Len(q) /\ q[i + 1] = Msg("request", x) /\ i + 1 # 1
      BY <1>3, <1>7, <2>1
    <3>2. /\ d = via[x] /\ ~Early(x) /\ handler[x] = "none"
          /\ \A j \in 1..Len(q) : q[j] = Msg("request", x) => j = i + 1
      BY <1>1, <1>7, <2>1, <3>1 DEF Flow, Asked
    <3>3. Head(q) # Msg("request", x)
      BY <1>3, <3>1, <3>2
    <3>4. handler'[x] = "none"
      BY <1>8, <3>2, <3>3
    <3>5. ASSUME NEW j \in 1..Len(toDaemon'[d]), toDaemon'[d][j] = Msg("request", x) PROVE j = i
      <4>1. j + 1 \in 1..Len(q) /\ q[j + 1] = Msg("request", x)
        BY <1>3, <1>7, <2>1, <3>5
      <4> QED BY <1>3, <1>7, <2>1, <3>2, <4>1
    <3> QED BY <1>2, <1>8, <3>2, <3>4, <3>5
  <2>2. CASE d # c
    <3>1. /\ d = via[x] /\ ~Early(x) /\ handler[x] = "none"
          /\ \A j \in 1..Len(toDaemon[d]) : toDaemon[d][j] = Msg("request", x) => j = i
      BY <1>7, <2>2 DEF Flow, Asked
    <3>2. ~(x = r /\ Head(q) = Msg("request", r))
      BY <1>6, <2>2, <3>1, MessageForms
    <3> QED BY <1>2, <1>7, <1>8, <2>2, <3>1, <3>2
  <2> QED BY <2>1, <2>2
<1>10. Sent'
  <2> SUFFICES ASSUME NEW d \in Tunnels, NEW i \in 1..Len(toRelay[d])
               PROVE  via[toRelay[d][i].stream] = d /\ handler'[toRelay[d][i].stream] \notin {"none", "running"}
    BY <1>2 DEF Sent, Begun
  <2>1. toRelay[d][i].stream \in Requests
    BY <1>4, MessageForms
  <2>2. via[toRelay[d][i].stream] = d /\ Begun(toRelay[d][i].stream)
    BY DEF Flow, Sent
  <2> QED BY <1>8, <2>1, <2>2 DEF Begun
<1>11. Single'
  BY <1>2 DEF Flow, Single, Msg
<1>12. Held'
  <2> SUFFICES ASSUME NEW d \in Tunnels, NEW x \in Requests, NEW type \in {"response", "data", "close"},
                      inHand'[d] = Msg(type, x)
               PROVE  via'[x] = d /\ Begun(x)' /\ (type = "response" => respChan'[x] = 0)
    BY DEF Held, Msg
  <2>1. via[x] = d /\ Begun(x) /\ (type = "response" => respChan[x] = 0)
    BY <1>2 DEF Flow, Held
  <2> QED BY <1>2, <1>8, <2>1
<1>13. Quiet'
  <2> SUFFICES ASSUME NEW x \in Requests
               PROVE  /\ Early(x)' => handler'[x] = "none"
                      /\ respChan[x] # 0 => Begun(x)'
                      /\ proxy[x] = "new" => via[x] = 0
    BY <1>2 DEF Quiet
  <2>1. /\ Early(x) => handler[x] = "none"
        /\ respChan[x] # 0 => Begun(x)
        /\ proxy[x] = "new" => via[x] = 0
    BY DEF Flow, Quiet
  <2> QED BY <1>6, <1>8, <2>1, MessageForms
<1>14. Listed'
  BY <1>2 DEF Flow, Listed
<1> QED BY <1>9, <1>10, <1>11, <1>12, <1>13, <1>14 DEF Flow

\* The daemon dies: every handler that was at work has ended, and nothing else
\* happens to a request or a response.
LEMMA CrashFlow ==
  ASSUME TypeOK, Flow, TypeOK', NEW r \in Requests, ServeTerminal(r)
  PROVE  Flow'
<1>1. UNCHANGED <<toDaemon, toRelay, inHand, via, streams, proxy, respChan, done>>
  BY DEF ServeTerminal, proxyVars
<1>2. \A x \in Requests : (handler'[x] = "none" <=> handler[x] = "none") /\ (Begun(x) => Begun(x)')
  BY DEF ServeTerminal, Begun
<1>3. \A x \in Requests : Early(x)' <=> Early(x)
  BY <1>1 DEF Early
<1>4. Asked' /\ Single' /\ Listed'
  <2>1. Asked'
    BY <1>1, <1>2, <1>3 DEF Flow, Asked, Msg
  <2>2. Single'
    BY ZenonT(40), <1>1 DEF Flow, Single, Msg
  <2>3. Listed'
    BY <1>1 DEF Flow, Listed
  <2> QED BY <2>1, <2>2, <2>3
<1>5. Sent'
  <2> SUFFICES ASSUME NEW d \in Tunnels, NEW i \in 1..Len(toRelay[d])
               PROVE  via[toRelay[d][i].stream] = d /\ handler'[toRelay[d][i].stream] \notin {"none", "running"}
    BY <1>1 DEF Sent, Begun
  <2>1. toRelay[d][i].stream \in Requests
    BY MessageForms DEF TypeOK
  <2>2. via[toRelay[d][i].stream] = d /\ Begun(toRelay[d][i].stream)
    BY DEF Flow, Sent
  <2> QED BY <1>2, <2>1, <2>2 DEF Begun
<1>6. Held'
  <2> SUFFICES ASSUME NEW d \in Tunnels, NEW x \in Requests, NEW type \in {"response", "data", "close"},
                      inHand'[d] = Msg(type, x)
               PROVE  via'[x] = d /\ Begun(x)' /\ (type = "response" => respChan'[x] = 0)
    BY DEF Held, Msg
  <2> QED BY <1>1, <1>2 DEF Flow, Held
<1>7. Quiet'
  BY <1>1, <1>2, <1>3 DEF Flow, Quiet
<1> QED BY <1>4, <1>5, <1>6, <1>7 DEF Flow

LEMMA HandlerFlow ==
  ASSUME TypeOK, Flow, TypeOK', NEW r \in Requests, Handle(r) \/ StreamClose(r), ~ServeTerminal(r)
  PROVE  Flow'
<1>0. /\ handler \in [Requests -> {"none", "running", "headed", "sent", "ended"}]
      /\ toRelay \in [Tunnels -> Seq(Messages)] /\ respChan \in [Requests -> 0..1]
      /\ via \in [Requests -> {0} \cup Tunnels] /\ via[r] \in {0} \cup Tunnels
  BY DEF TypeOK
<1>1. /\ UNCHANGED <<toDaemon, inHand, via, streams, proxy, respChan, done>>
      /\ handler[r] \in {"running", "headed", "sent"}
      /\ \E x \in {"headed", "sent", "ended"} : handler' = [handler EXCEPT ![r] = x]
  BY <1>0 DEF Handle, Respond, StreamHeader, StreamData, StreamClose, OnlyDaemon, proxyVars
<1>2. /\ handler[r] # "none" /\ Begun(r)'
      /\ \A x \in Requests : x # r => handler'[x] = handler[x]
      /\ \A x \in Requests : Begun(x) => Begun(x)'
  BY <1>0, <1>1 DEF Begun
<1>3. ~Early(r) /\ \A x \in Requests : Early(x)' <=> Early(x)
  BY <1>1, <1>2 DEF Flow, Quiet, Early
<1>4. Asked'
  <2> SUFFICES ASSUME NEW d \in Tunnels, NEW x \in Requests, NEW i \in 1..Len(toDaemon'[d]),
                      toDaemon'[d][i] = Msg("request", x)
               PROVE  /\ d = via'[x] /\ ~Early(x)' /\ handler'[x] = "none"
                      /\ \A j \in 1..Len(toDaemon'[d]) : toDaemon'[d][j] = Msg("request", x) => j = i
    BY DEF Asked, Msg
  <2>1. /\ d = via[x] /\ ~Early(x) /\ handler[x] = "none"
        /\ \A j \in 1..Len(toDaemon[d]) : toDaemon[d][j] = Msg("request", x) => j = i
    BY <1>1 DEF Flow, Asked
  <2> QED BY <1>1, <1>2, <1>3, <2>1
<1>5. Held'
  <2> SUFFICES ASSUME NEW d \in Tunnels, NEW x \in Requests, NEW type \in {"response", "data", "close"},
                      inHand'[d] = Msg(type, x)
               PROVE  via'[x] = d /\ Begun(x)' /\ (type = "response" => respChan'[x] = 0)
    BY DEF Held, Msg
  <2> QED BY <1>1, <1>2 DEF Flow, Held
<1>6. Quiet' /\ Listed'
  <2>1. Quiet'
    BY <1>1, <1>2, <1>3 DEF Flow, Quiet
  <2>2. Listed'
    BY <1>1 DEF Flow, Listed
  <2> QED BY <2>1, <2>2
<1>8. ASSUME NEW type \in {"response", "data", "close"}, ToRelay(via[r], Msg(type, r)),
             type = "response" => handler[r] = "running"
      PROVE  Flow'
  <2>0. Msg(type, r) \in Messages
    BY DEF Msg, Messages
  <2>1. ASSUME NEW d \in Tunnels, NEW i \in 1..Len(toRelay'[d])
        PROVE  \/ i \in 1..Len(toRelay[d]) /\ toRelay'[d][i] = toRelay[d][i]
               \/ d = via[r] /\ i = Len(toRelay[d]) + 1 /\ toRelay'[d][i] = Msg(type, r)
    BY ZenonT(40), <1>0, <1>8, <2>0, SentUp
  <2>2. Sent'
    <3> SUFFICES ASSUME NEW d \in Tunnels, NEW i \in 1..Len(toRelay'[d])
                 PROVE  via[toRelay'[d][i].stream] = d /\ handler'[toRelay'[d][i].stream] \notin {"none", "running"}
      BY <1>1 DEF Sent, Begun
    <3>1. CASE i \in 1..Len(toRelay[d]) /\ toRelay'[d][i] = toRelay[d][i]
      <4>1. toRelay[d][i].stream \in Requests
        BY <1>0, <3>1, MessageForms
      <4>2. via[toRelay[d][i].stream] = d /\ Begun(toRelay[d][i].stream)
        BY <3>1 DEF Flow, Sent
      <4> DEFINE x == toRelay[d][i].stream
      <4>3. handler'[x] \notin {"none", "running"}
        BY <1>2, <4>1, <4>2 DEF Begun
      <4> QED BY <3>1, <4>2, <4>3 DEF Begun
    <3>2. CASE d = via[r] /\ i = Len(toRelay[d]) + 1 /\ toRelay'[d][i] = Msg(type, r)
      <4>1. toRelay'[d][i].stream = r
        BY <3>2, MessageForms
      <4> QED BY <1>2, <3>2, <4>1 DEF Begun
    <3> QED BY <2>1, <3>1, <3>2
  <2>3. type = "response" =>
          /\ respChan[r] = 0 /\ \A d \in Tunnels : inHand[d] # Msg("response", r)
          /\ \A d \in Tunnels : \A i \in 1..Len(toRelay[d]) : toRelay[d][i] # Msg("response", r)
    <3> SUFFICES ASSUME type = "response"
                 PROVE  /\ respChan[r] = 0 /\ \A d \in Tunnels : inHand[d] # Msg("response", r)
                        /\ \A d \in Tunnels : \A i \in 1..Len(toRelay[d]) : toRelay[d][i] # Msg("response", r)
      OBVIOUS
    <3>1. ~Begun(r)
      BY <1>8 DEF Begun
    <3>2. respChan[r] = 0 /\ \A d \in Tunnels : inHand[d] # Msg("response", r)
      BY <3>1 DEF Flow, Quiet, Held
    <3>3. \A d \in Tunnels : \A i \in 1..Len(toRelay[d]) : toRelay[d][i] # Msg("response", r)
      BY <3>1, MessageForms DEF Flow, Sent
    <3> QED BY <3>2, <3>3
  <2>4. Single'
    <3> SUFFICES ASSUME NEW d \in Tunnels, NEW x \in Requests, NEW i \in 1..Len(toRelay'[d]),
                        toRelay'[d][i] = Msg("response", x)
                 PROVE  /\ respChan'[x] = 0 /\ inHand'[d] # Msg("response", x)
                        /\ \A j \in 1..Len(toRelay'[d]) : toRelay'[d][j] = Msg("response", x) => j = i
      BY DEF Single, Msg
    <3>1. CASE x = r /\ type = "response"
      <4>1. \A j \in 1..Len(toRelay'[d]) :
              toRelay'[d][j] = Msg("response", r) => j = Len(toRelay[d]) + 1
        BY <2>1, <2>3, <3>1
      <4> QED BY <1>1, <2>3, <3>1, <4>1
    <3>2. CASE ~(x = r /\ type = "response")
      <4>1. \A j \in 1..Len(toRelay'[d]) : toRelay'[d][j] = Msg("response", x) =>
              j \in 1..Len(toRelay[d]) /\ toRelay[d][j] = Msg("response", x)
        BY <2>1, <3>2, MessageForms
      <4> QED BY <1>1, <4>1 DEF Flow, Single
    <3> QED BY <3>1, <3>2
  <2> QED BY <1>4, <1>5, <1>6, <2>2, <2>4 DEF Flow
<1>9. CASE Respond(r) \/ StreamHeader(r)
  BY <1>8, <1>9 DEF Respond, StreamHeader
<1>10. CASE StreamData(r)
  BY <1>8, <1>10 DEF StreamData
<1>11. CASE StreamClose(r)
  BY <1>8, <1>11 DEF StreamClose
<1> QED BY <1>9, <1>10, <1>11 DEF Handle

LEMMA StepFlow == TypeOK /\ TypeOK' /\ Flow /\ [Next]_vars => Flow'
<1> SUFFICES ASSUME TypeOK, TypeOK', Flow, [Next]_vars PROVE Flow'
  OBVIOUS
<1>1. ASSUME UNCHANGED <<toDaemon, toRelay, inHand, via, streams, proxy, respChan, done, handler>>
      PROVE  Flow'
  BY <1>1 DEF Flow, Asked, Sent, Single, Held, Quiet, Listed, Early, Begun, Msg
<1>2. CASE Dial \/ Hangup \/ \E c \in Tunnels : LinkFails(c) \/ Register(c) \/ Unregister(c)
  <2>1. UNCHANGED <<toDaemon, toRelay, inHand, via, streams, proxy, respChan, done, handler>>
    BY <1>2 DEF Dial, Hangup, LinkFails, Register, Unregister, proxyVars
  <2> QED BY <1>1, <2>1
<1>3. CASE UNCHANGED vars
  <2>1. UNCHANGED <<toDaemon, toRelay, inHand, via, streams, proxy, respChan, done, handler>>
    BY <1>3 DEF vars, proxyVars
  <2> QED BY <1>1, <2>1
<1> QED BY <1>2, <1>3, ReaderFlow, ProxyFlow, ReadFlow, HandlerFlow, CrashFlow DEF Next

LEMMA AlwaysFlow == Spec => []Flow
<1>1. TypeOK /\ [Next]_vars => TypeOK'
  BY StepTyped
<1> QED BY <1>1, InitFlow, StepFlow, Typing, PTL DEF Spec

\* Whatever the daemon, the network and the clients do, the reader that all
\* requests of a daemon share never has to wait for one of them.
THEOREM ReaderNeverWaits == Spec => []ReaderFree
<1>1. TypeOK /\ Flow => ReaderFree
  <2> SUFFICES ASSUME TypeOK, Flow, NEW c \in Tunnels, inHand[c].type = "response"
               PROVE  respChan[inHand[c].stream] = 0
    BY DEF ReaderFree
  <2>1. inHand[c] \in Messages
    BY DEF TypeOK, NoMessage
  <2>2. inHand[c] = Msg("response", inHand[c].stream) /\ inHand[c].stream \in Requests
    BY <2>1, MessageForms
  <2> QED BY <2>2 DEF Flow, Held
<1> QED BY <1>1, AlwaysFlow, Typing, PTL

\* However requests, tunnels and the daemon's answers interleave, an answer is
\* only thrown away when its request is over.
THEOREM NoAnswerLost == Spec => NothingDropped
<1> DEFINE Kept == \A c \in Tunnels : Receive(c) /\ inHand' = inHand =>
                     LET r == Head(toRelay[c]).stream IN proxy[r] = "done" \/ r \in done
<1>1. TypeOK /\ Flow => Kept
  <2> SUFFICES ASSUME TypeOK, Flow, NEW c \in Tunnels, Receive(c), inHand' = inHand
               PROVE  LET r == Head(toRelay[c]).stream IN proxy[r] = "done" \/ r \in done
    OBVIOUS
  <2> DEFINE m == Head(toRelay[c])
             r == m.stream
  <2>1. toRelay[c] \in Seq(Messages) /\ toRelay[c] # <<>> /\ inHand[c] = NoMessage
    BY DEF Receive, TypeOK
  <2>2. m = toRelay[c][1] /\ 1 \in 1..Len(toRelay[c]) /\ m \in Messages
    BY <2>1, ReadForms
  <2>3. m # NoMessage /\ r \in Requests
    BY <2>2, MessageForms DEF NoMessage
  <2>4. via[r] = c /\ Begun(r)
    BY <2>2 DEF Flow, Sent
  <2>5. r \notin streams[c]
    <3> SUFFICES ASSUME r \in streams[c] PROVE FALSE
      OBVIOUS
    <3>1. inHand' = [inHand EXCEPT ![c] = m]
      BY DEF Receive
    <3>2. inHand'[c] = m
      BY <3>1 DEF TypeOK
    <3> QED BY <2>1, <2>3, <3>2
  <2>6. proxy[r] \notin {"new", "admitted"}
    BY <2>3, <2>4 DEF Flow, Quiet, Early, Begun
  <2>7. c # 0
    BY DEF Tunnels
  <2> HIDE DEF r, m
  <2>8. proxy[r] = "done" \/ r \in done
    BY <2>3, <2>4, <2>5, <2>6, <2>7 DEF Flow, Listed
  <2> QED BY <2>8 DEF r, m
<1> QED BY <1>1, AlwaysFlow, Typing, PTL DEF NothingDropped, Spec
================================================================================
