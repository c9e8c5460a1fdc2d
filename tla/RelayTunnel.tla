------------------------------ MODULE RelayTunnel ------------------------------
(***************************************************************************)
(* The relay of ackbar (internal/relay): a daemon behind NAT dials out to  *)
(* the relay and keeps one websocket, its tunnel; the relay carries the    *)
(* requests of clients over it, each as a stream with an identifier of its *)
(* own.  On the relay there is a goroutine per tunnel (serveDaemonTunnel,  *)
(* which reads), and one per request (handleProxy, which writes to the     *)
(* tunnel and waits); on the daemon a loop that reads the tunnel and a     *)
(* goroutine per request.  Either end of a tunnel may go away, the daemon  *)
(* dials again, and the new tunnel replaces the old one.                   *)
(*                                                                         *)
(* Plain requests have one response; streams (SSE) a header, data and a    *)
(* close; terminals (websockets) data in both directions.                  *)
(***************************************************************************)
EXTENDS Naturals, Sequences, FiniteSets

CONSTANTS Plain, Streams, Terminals,  \* the requests of clients, by their kind
          MaxTunnels,                 \* bound: how often the daemon dials
          MaxFailures,                \* bound: how many tunnels the network breaks
          MaxSeen                     \* bound: what a client of a stream is shown

Requests == Plain \cup Streams \cup Terminals
Tunnels  == 1..MaxTunnels

ASSUME KindAssumption ==
  /\ Plain \cap Streams = {} /\ Plain \cap Terminals = {} /\ Streams \cap Terminals = {}
ASSUME BoundAssumption == MaxTunnels \in Nat /\ MaxFailures \in Nat /\ MaxSeen \in Nat

NoMessage == [type |-> "none"]
Messages  == [type : {"request", "response", "data", "close"}, stream : Requests]

VARIABLES
  \* tunnels
  link,        \* the websocket of a tunnel: "new", "up" or "down"
  serving,     \* the goroutine of a tunnel on the relay
  registered,  \* Server.daemons[host]: the tunnel in use, or 0
  session,     \* the tunnel whose runSession the daemon is in, or 0
  dialed,      \* how many tunnels the daemon has dialed
  failures,    \* how many the network has broken (bound)
  toDaemon,    \* messages on a tunnel, to the daemon
  toRelay,     \* and to the relay
  inHand,      \* the message whose stream the reader has looked up
  \* requests
  via,         \* the tunnel handleProxy has picked, or 0
  streams,     \* daemonSession.streams: the requests registered with a tunnel
  proxy,       \* where handleProxy is
  respChan,    \* how many responses are in activeStream.respChan (capacity 1)
  done,        \* the requests whose activeStream.done is closed
  outcome,     \* how the request ended for the client
  seen,        \* what the client has been shown, in order
  handler      \* the daemon's goroutine for the request

tunnelVars == <<link, serving, registered, session, dialed, failures>>
proxyVars  == <<via, streams, proxy, outcome>>
vars == <<tunnelVars, toDaemon, toRelay, inHand, proxyVars, respChan, done, seen, handler>>

Init == /\ link = [c \in Tunnels |-> "new"] /\ serving = [c \in Tunnels |-> "none"]
        /\ registered = 0 /\ session = 0 /\ dialed = 0 /\ failures = 0
        /\ toDaemon = [c \in Tunnels |-> <<>>] /\ toRelay = [c \in Tunnels |-> <<>>]
        /\ inHand = [c \in Tunnels |-> NoMessage]
        /\ via = [r \in Requests |-> 0] /\ streams = [c \in Tunnels |-> {}]
        /\ proxy = [r \in Requests |-> "new"]
        /\ respChan = [r \in Requests |-> 0] /\ done = {}
        /\ outcome = [r \in Requests |-> "none"] /\ seen = [r \in Requests |-> <<>>]
        /\ handler = [r \in Requests |-> "none"]

Msg(type, r) == [type |-> type, stream |-> r]

\* A send on a websocket: what is written to a tunnel that is down is lost.
ToDaemon(c, m) == toDaemon' = IF link[c] = "up" THEN [toDaemon EXCEPT ![c] = Append(@, m)]
                                                ELSE toDaemon
ToRelay(c, m)  == toRelay'  = IF link[c] = "up" THEN [toRelay  EXCEPT ![c] = Append(@, m)]
                                                ELSE toRelay
-------------------------------------------------------------------------------
(* Tunnels.                                                                *)

\* Client.Start and the beginning of runSession: the daemon dials when it starts,
\* when its service manager has restarted it, and when its tunnel is gone.
Dial ==
  /\ session = 0 /\ dialed < MaxTunnels
  /\ dialed' = dialed + 1 /\ session' = dialed + 1
  /\ link' = [link EXCEPT ![dialed + 1] = "up"]
  /\ serving' = [serving EXCEPT ![dialed + 1] = "accepted"]
  /\ UNCHANGED <<registered, failures, toDaemon, toRelay, inHand, proxyVars, respChan, done,
                 seen, handler>>

LinkFails(c) ==
  /\ link[c] = "up" /\ failures < MaxFailures
  /\ link' = [link EXCEPT ![c] = "down"] /\ failures' = failures + 1
  /\ UNCHANGED <<serving, registered, session, dialed, toDaemon, toRelay, inHand, proxyVars,
                 respChan, done, seen, handler>>

\* Mutant of Register: the websocket of the tunnel before is left open.
RegisterKeepsOld(c) ==
  /\ serving[c] = "accepted"
  /\ registered' = c
  /\ serving' = [serving EXCEPT ![c] = "reading"]
  /\ UNCHANGED <<link, session, dialed, failures, toDaemon, toRelay, inHand, proxyVars, respChan,
                 done, seen, handler>>

\* serveDaemonTunnel puts the tunnel in the place of the one before.
Register(c) ==
  /\ serving[c] = "accepted"
  /\ link' = [d \in Tunnels |-> IF d = registered THEN "down" ELSE link[d]]
  /\ registered' = c
  /\ serving' = [serving EXCEPT ![c] = "reading"]
  /\ UNCHANGED <<session, dialed, failures, toDaemon, toRelay, inHand, proxyVars, respChan,
                 done, seen, handler>>

\* Mutant of Unregister: the deferred function does not look whose entry it is.
UnregisterAny(c) ==
  /\ serving[c] = "reading" /\ link[c] = "down" /\ inHand[c] = NoMessage
  /\ serving' = [serving EXCEPT ![c] = "ended"]
  /\ registered' = 0
  /\ UNCHANGED <<link, session, dialed, failures, toDaemon, toRelay, inHand, proxyVars, respChan,
                 done, seen, handler>>

\* Its read fails, and it removes its own entry.  The streams of the tunnel
\* stay as they are.
Unregister(c) ==
  /\ serving[c] = "reading" /\ link[c] = "down" /\ inHand[c] = NoMessage
  /\ serving' = [serving EXCEPT ![c] = "ended"]
  /\ registered' = IF registered = c THEN 0 ELSE registered
  /\ UNCHANGED <<link, session, dialed, failures, toDaemon, toRelay, inHand, proxyVars, respChan,
                 done, seen, handler>>

\* The daemon's read fails, runSession returns, and Start waits to dial again.
Hangup ==
  /\ session # 0 /\ link[session] = "down"
  /\ session' = 0
  /\ UNCHANGED <<link, serving, registered, dialed, failures, toDaemon, toRelay, inHand,
                 proxyVars, respChan, done, seen, handler>>
-------------------------------------------------------------------------------
(* The reader of a tunnel on the relay.                                    *)

\* It reads a message and looks up its stream.
Receive(c) ==
  /\ serving[c] = "reading" /\ inHand[c] = NoMessage /\ toRelay[c] # <<>>
  /\ toRelay' = [toRelay EXCEPT ![c] = Tail(@)]
  /\ inHand' = IF Head(toRelay[c]).stream \in streams[c]
                 THEN [inHand EXCEPT ![c] = Head(toRelay[c])] ELSE inHand
  /\ UNCHANGED <<tunnelVars, toDaemon, proxyVars, respChan, done, seen, handler>>

Put(c) == /\ inHand' = [inHand EXCEPT ![c] = NoMessage]
          /\ UNCHANGED <<tunnelVars, toDaemon, toRelay, handler>>

\* A response is handed over by a channel; the reader waits while it is full.
\* (The other case of its select is a channel that only the reader closes.)
DeliverResponse(c) ==
  LET r == inHand[c].stream IN
  /\ inHand[c] # NoMessage /\ inHand[c].type = "response"
  /\ respChan[r] = 0 /\ respChan' = [respChan EXCEPT ![r] = 1]
  /\ Put(c) /\ UNCHANGED <<proxyVars, done, seen>>

\* Data are written to the client by the reader itself.
DeliverData(c) ==
  LET r == inHand[c].stream IN
  /\ inHand[c] # NoMessage /\ inHand[c].type = "data"
  /\ seen' = [seen EXCEPT ![r] = IF Len(@) < MaxSeen THEN Append(@, "data") ELSE @]
  /\ Put(c) /\ UNCHANGED <<proxyVars, respChan, done>>

\* Mutant of DeliverClose: the stream is removed and nobody is told.
DeliverCloseSilently(c) ==
  LET r == inHand[c].stream IN
  /\ inHand[c] # NoMessage /\ inHand[c].type = "close"
  /\ streams' = [streams EXCEPT ![c] = @ \ {r}]
  /\ Put(c) /\ UNCHANGED <<via, proxy, outcome, respChan, seen, done>>

DeliverClose(c) ==
  LET r == inHand[c].stream IN
  /\ inHand[c] # NoMessage /\ inHand[c].type = "close"
  /\ done' = done \cup {r}
  /\ streams' = [streams EXCEPT ![c] = @ \ {r}]
  /\ Put(c) /\ UNCHANGED <<via, proxy, outcome, respChan, seen>>
-------------------------------------------------------------------------------
(* handleProxy and handleProxyWebSocket.                                   *)

At(r, phase) == proxy[r] = phase
GoTo(r, phase) == proxy' = [proxy EXCEPT ![r] = phase]
Ends(r, how) == GoTo(r, "leaving") /\ outcome' = [outcome EXCEPT ![r] = how]
OnlyProxy == UNCHANGED <<tunnelVars, toRelay, inHand, done, handler>>

\* Mutant of Admit: the missing entry goes unnoticed.
AdmitUnchecked(r) ==
  /\ At(r, "new") /\ via' = [via EXCEPT ![r] = registered] /\ GoTo(r, "admitted")
  /\ OnlyProxy /\ UNCHANGED <<outcome, streams, toDaemon, respChan, seen>>

\* The tunnel of the host is looked up once.
Admit(r) ==
  /\ At(r, "new")
  /\ \/ registered = 0 /\ Ends(r, "refused") /\ UNCHANGED via
     \/ /\ registered # 0 /\ via' = [via EXCEPT ![r] = registered]
        /\ GoTo(r, "admitted") /\ UNCHANGED outcome
  /\ OnlyProxy /\ UNCHANGED <<streams, toDaemon, respChan, seen>>

\* The stream is registered before the request is sent.
List(r) ==
  /\ At(r, "admitted") /\ GoTo(r, "listed")
  /\ streams' = [streams EXCEPT ![via[r]] = @ \cup {r}]
  /\ OnlyProxy /\ UNCHANGED <<via, outcome, toDaemon, respChan, seen>>

\* Mutant of Forward: the request is sent first, and the stream registered by
\* the caller after that.
ForwardUnlisted(r) ==
  /\ At(r, "listed") /\ GoTo(r, IF r \in Terminals THEN "pumping" ELSE "waiting")
  /\ ToDaemon(via[r], Msg("request", r))
  /\ streams' = [streams EXCEPT ![via[r]] = @ \ {r}]
  /\ OnlyProxy /\ UNCHANGED <<via, outcome, respChan, seen>>

\* The send may fail when the tunnel is down; it need not.
Forward(r) ==
  /\ At(r, "listed")
  /\ \/ GoTo(r, IF r \in Terminals THEN "pumping" ELSE "waiting")
        /\ ToDaemon(via[r], Msg("request", r)) /\ UNCHANGED outcome
     \/ link[via[r]] = "down" /\ Ends(r, "refused") /\ UNCHANGED toDaemon
  /\ OnlyProxy /\ UNCHANGED <<via, streams, respChan, seen>>

\* The response has come: its status and header go to the client.
Answer(r) ==
  /\ At(r, "waiting") /\ respChan[r] = 1
  /\ respChan' = [respChan EXCEPT ![r] = 0]
  /\ seen' = [seen EXCEPT ![r] = IF Len(@) < MaxSeen THEN Append(@, "header") ELSE @]
  /\ IF r \in Plain THEN Ends(r, "answered") ELSE GoTo(r, "streaming") /\ UNCHANGED outcome
  /\ OnlyProxy /\ UNCHANGED <<via, streams, toDaemon>>

\* Mutant of Timeout: there is none.
NoTimeout(r) == FALSE /\ UNCHANGED vars

\* Fifteen seconds have passed.
Timeout(r) ==
  /\ At(r, "waiting") /\ Ends(r, "timeout")
  /\ OnlyProxy /\ UNCHANGED <<via, streams, toDaemon, respChan, seen>>

\* The client goes away.
Abandon(r) ==
  /\ proxy[r] \in {"waiting", "streaming", "pumping", "typed"} /\ Ends(r, "left")
  /\ ToDaemon(via[r], Msg("close", r))
  /\ OnlyProxy /\ UNCHANGED <<via, streams, respChan, seen>>

\* The daemon has closed the stream.
StreamEnds(r) ==
  /\ At(r, "streaming") /\ r \in done /\ Ends(r, "closed")
  /\ OnlyProxy /\ UNCHANGED <<via, streams, toDaemon, respChan, seen>>

\* The user types in a terminal (once, for the model).
Type(r) ==
  /\ At(r, "pumping") /\ GoTo(r, "typed")
  /\ ToDaemon(via[r], Msg("data", r))
  /\ OnlyProxy /\ UNCHANGED <<via, streams, outcome, respChan, seen>>

\* The deferred removal of the stream, and the return.
Return(r) ==
  /\ At(r, "leaving") /\ GoTo(r, "done")
  /\ streams' = [c \in Tunnels |-> IF c = via[r] THEN streams[c] \ {r} ELSE streams[c]]
  /\ OnlyProxy /\ UNCHANGED <<via, outcome, toDaemon, respChan, seen>>
-------------------------------------------------------------------------------
(* The daemon.                                                             *)

OnlyDaemon == UNCHANGED <<tunnelVars, inHand, proxyVars, respChan, done, seen>>

\* runSession reads a message; only requests (and pongs) mean anything to it.
Read ==
  /\ session # 0 /\ toDaemon[session] # <<>>
  /\ LET m == Head(toDaemon[session]) IN
     handler' = IF m.type = "request" THEN [handler EXCEPT ![m.stream] = "running"] ELSE handler
  /\ toDaemon' = [toDaemon EXCEPT ![session] = Tail(@)]
  /\ OnlyDaemon /\ UNCHANGED toRelay

\* The handler of a plain request returns, and its response is sent.
Respond(r) ==
  /\ r \in Plain /\ handler[r] = "running"
  /\ handler' = [handler EXCEPT ![r] = "ended"]
  /\ ToRelay(via[r], Msg("response", r))
  /\ OnlyDaemon /\ UNCHANGED toDaemon

\* Mutant of StreamHeader: sseTunnelWriter forgets that it sent the header.
StreamHeaderAgain(r) ==
  /\ r \in Streams /\ handler[r] \in {"running", "headed"}
  /\ handler' = [handler EXCEPT ![r] = "headed"]
  /\ Len(toRelay[via[r]]) < 3 /\ ToRelay(via[r], Msg("response", r))
  /\ OnlyDaemon /\ UNCHANGED toDaemon

\* sseTunnelWriter.Write: the header first, ...
StreamHeader(r) ==
  /\ r \in Streams /\ handler[r] = "running"
  /\ handler' = [handler EXCEPT ![r] = "headed"]
  /\ ToRelay(via[r], Msg("response", r))
  /\ OnlyDaemon /\ UNCHANGED toDaemon

\* ... then the data (one event, for the model), ...
StreamData(r) ==
  /\ r \in Streams /\ handler[r] = "headed"
  /\ handler' = [handler EXCEPT ![r] = "sent"]
  /\ ToRelay(via[r], Msg("data", r))
  /\ OnlyDaemon /\ UNCHANGED toDaemon

\* ... and a close when the handler returns, if it ever does: nothing on the
\* daemon cancels the request when the client has left.
StreamClose(r) ==
  /\ r \in Streams /\ handler[r] \in {"running", "sent"}
  /\ handler' = [handler EXCEPT ![r] = "ended"]
  /\ ToRelay(via[r], Msg("close", r))
  /\ OnlyDaemon /\ UNCHANGED toDaemon

\* A terminal is served to a recorder.  That is no http.Hijacker, which is what
\* the websocket server asserts first of all: it panics, in a goroutine that
\* recovers from nothing, and the daemon dies with all it was doing.
ServeTerminal(r) ==
  /\ r \in Terminals /\ handler[r] = "running"
  /\ handler' = [q \in Requests |-> IF handler[q] = "none" THEN "none" ELSE "ended"]
  /\ link' = [c \in Tunnels |-> IF link[c] = "up" THEN "down" ELSE link[c]]
  /\ session' = 0
  /\ UNCHANGED <<serving, registered, dialed, failures, toDaemon, toRelay, inHand, proxyVars,
                 respChan, done, seen>>
-------------------------------------------------------------------------------
Deliver(c) == DeliverResponse(c) \/ DeliverData(c) \/ DeliverClose(c)
\* What handleProxy does without the help of its client.
Proxy(r) == \/ List(r) \/ Forward(r) \/ Answer(r) \/ Timeout(r) \/ StreamEnds(r)
            \/ Return(r)
Handle(r) == Respond(r) \/ StreamHeader(r) \/ StreamData(r) \/ ServeTerminal(r)

Next ==
  \/ Dial \/ Hangup \/ Read
  \/ \E c \in Tunnels : LinkFails(c) \/ Register(c) \/ Unregister(c) \/ Receive(c) \/ Deliver(c)
  \/ \E r \in Requests : Admit(r) \/ Proxy(r) \/ Abandon(r) \/ Type(r) \/ Handle(r) \/ StreamClose(r)

Spec == Init /\ [][Next]_vars

\* Goroutines are scheduled, timers fire and the daemon dials again, restarted
\* by its service manager if it has died (Restart=always, docs/daemon.md:188);
\* clients need not ask, leave or type, nor need handlers of streams return.
Fairness ==
  /\ WF_vars(Dial) /\ WF_vars(Hangup) /\ WF_vars(Read)
  /\ \A c \in Tunnels : /\ WF_vars(Register(c)) /\ WF_vars(Unregister(c))
                        /\ WF_vars(Receive(c)) /\ WF_vars(Deliver(c))
  /\ \A r \in Requests : WF_vars(Proxy(r)) /\ WF_vars(Handle(r))
FairSpec == Spec /\ Fairness
-------------------------------------------------------------------------------
(* Properties.                                                             *)

\* Types of the variables.
TypeOK ==
  /\ link \in [Tunnels -> {"new", "up", "down"}]
  /\ serving \in [Tunnels -> {"none", "accepted", "reading", "ended"}]
  /\ registered \in {0} \cup Tunnels /\ session \in {0} \cup Tunnels
  /\ dialed \in 0..MaxTunnels /\ failures \in 0..MaxFailures
  /\ toDaemon \in [Tunnels -> Seq(Messages)] /\ toRelay \in [Tunnels -> Seq(Messages)]
  /\ inHand \in [Tunnels -> Messages \cup {NoMessage}]
  /\ via \in [Requests -> {0} \cup Tunnels]
  /\ \A r \in Requests : via[r] = 0 => proxy[r] \in {"new", "leaving", "done"}
  /\ streams \in [Tunnels -> SUBSET Requests]
  /\ proxy \in [Requests -> {"new", "admitted", "listed", "waiting", "streaming", "pumping",
                             "typed", "leaving", "done"}]
  /\ respChan \in [Requests -> 0..1] /\ done \in SUBSET Requests
  /\ outcome \in [Requests -> {"none", "refused", "answered", "timeout", "left", "closed"}]
  /\ seen \in [Requests -> Seq({"header", "data"})]
  /\ handler \in [Requests -> {"none", "running", "headed", "sent", "ended"}]

\* New requests go to the tunnel that works: the one in Server.daemons is
\* served, and every other one that is still read has been cut off, however
\* the ends of old tunnels and the registrations of new ones interleave.
OneTunnel ==
  /\ registered # 0 => serving[registered] = "reading"
  /\ \A c \in Tunnels : serving[c] = "reading" /\ c # registered => link[c] = "down"

\* The reader of a tunnel, which all streams share, never has to wait for one
\* of them to take a response: the channel of capacity 1 is empty.
ReaderFree ==
  \A c \in Tunnels :
    inHand[c].type = "response" => respChan[inHand[c].stream] = 0

\* What the daemon sends is only thrown away when its request is over.
NothingDropped ==
  [][\A c \in Tunnels :
       Receive(c) /\ inHand' = inHand
         => LET r == Head(toRelay[c]).stream IN proxy[r] = "done" \/ r \in done]_vars

\* A plain request is over in the end, whatever becomes of its tunnel.
RequestsEnd == \A r \in Plain : (proxy[r] # "new") ~> (proxy[r] = "done")

CutOff(r) == via[r] # 0 /\ link[via[r]] = "down"

\* A stream that the daemon has closed is over in the end, if its tunnel lasts.
ClosedStreamsEnd ==
  \A r \in Streams : (handler[r] = "ended") ~> (proxy[r] = "done" \/ CutOff(r))

\* When the network stops failing and no terminal kills the daemon any more, it
\* is reachable again, for good.
TunnelComesBack == <>[](session # 0 /\ registered = session /\ link[registered] = "up")

\* The comments at relay/server.go:295 and :325 and the docs (networking-
\* and-remote-access.md:120) promise what these three say.
\* The response header is the first thing that a client is shown.
HeaderFirst == \A r \in Streams : seen[r] # <<>> => Head(seen[r]) = "header"

\* A stream ends when its tunnel does.
StreamEndsWithTunnel ==
  \A r \in Streams : (proxy[r] = "streaming" /\ CutOff(r)) ~> (proxy[r] = "done")

\* A key that is typed in a terminal shows an effect, or the terminal is closed.
TerminalWorks == \A r \in Terminals : (proxy[r] = "typed") ~> (seen[r] # <<>> \/ proxy[r] = "done")
================================================================================
