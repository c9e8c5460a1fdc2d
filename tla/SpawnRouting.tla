---------------------------- MODULE SpawnRouting ----------------------------
(***************************************************************************)
(* Which host runs a new session.  Every daemon keeps a row per remote     *)
(* host and, in memory, what the host last said of itself; it scores the   *)
(* hosts with what it remembers of them and with the live load of its own. *)
(* A daemon that picks another host forwards the request without its host  *)
(* and without the capabilities asked for, so the daemon that gets it      *)
(* routes it once more.                                                    *)
(*                                                                         *)
(* Load is counted in half sessions: a working session is two, a queued    *)
(* workstream one, CPU and RAM pressure as many as computeEffectiveLoad    *)
(* adds.                                                                   *)
(***************************************************************************)
EXTENDS Naturals, Sequences

CONSTANTS
    Daemons,    \* sequence of hosts, in the order of their names
    Fleets,     \* fleets: [policy: host -> [tags, weight, caps, repo], knows: host -> hosts, clients]
    Requests,   \* [caps, agent, node]: capabilities, agent and whether it names a repository
    MaxSpawns,  \* bound on the requests
    MaxHops,    \* bound on the forwardings of one request
    MaxTrouble, \* bound on the hosts that go, rows that are deleted, sessions that end
    MaxLoad     \* bound on the working sessions of a host

None == "-"
NoRequest == [caps |-> {}, agent |-> None, node |-> FALSE]

VARIABLES
    fleet,      \* the fleet at hand
    rows,       \* rows[d]: the remote hosts registered with daemon d
    health,     \* health[d][h]: what d remembers of h
    up,         \* the hosts whose daemon runs
    load,       \* half sessions of work on each host
    spawn,      \* the request on its way
    spawned,    \* requests served so far
    trouble,    \* hosts gone, rows deleted and sessions ended so far
    skewed      \* a session ended, or was placed without knowing the loads

vars == <<fleet, rows, health, up, load, spawn, spawned, trouble, skewed>>

Troubled == trouble < MaxTrouble /\ trouble' = trouble + 1
Policy(h) == fleet.policy[h]
Members == DOMAIN fleet.policy
Unknown == [online |-> FALSE, caps |-> {}, load |-> {}]
Telemetry(h) == [online |-> TRUE, caps |-> Policy(h).caps, load |-> {load[h]}]

(* updateHostHealthWithTelemetry: a host that is online keeps what a probe *)
(* does not tell, one that is offline its capabilities alone, which its    *)
(* row holds.                                                              *)
Offline(previous) == [Unknown EXCEPT !.caps = previous.caps]
Merged(previous, probe) ==
    IF ~probe.online THEN Offline(previous)
    ELSE [online |-> TRUE,
          caps   |-> IF probe.caps = {} THEN previous.caps ELSE probe.caps,
          load   |-> IF probe.load = {} THEN previous.load ELSE probe.load]

(* GetAllFleetHosts: the local host first, then the rows by name. *)
LocalHostRecord(d) == Telemetry(d)
Seen(d, h) == IF h = d THEN LocalHostRecord(d) ELSE health[d][h]
GetAllFleetHosts(d) == {d} \cup rows[d]
Number(h) == CHOOSE i \in DOMAIN Daemons : Daemons[i] = h
Before(d, g, h) == h # d /\ (g = d \/ Number(g) < Number(h))

hostHasTag(h, tag) == tag \in Policy(h).tags
hostHasCapability(d, h, cap) ==
    cap \in Seen(d, h).caps \cup Policy(h).tags \cup (IF Policy(h).repo THEN {"repo"} ELSE {})

Usable(d) == {h \in GetAllFleetHosts(d) : Seen(d, h).online /\ ~hostHasTag(h, "drain")}

-----------------------------------------------------------------------------
(* SelectTargetHost.  The agent counts as a capability once some host that *)
(* is online reports it; the repository, once a usable host has it.        *)
RequiredCaps(d, req) ==
    req.caps \cup (IF \E h \in GetAllFleetHosts(d) :
                        Seen(d, h).online /\ hostHasCapability(d, h, req.agent)
                   THEN {req.agent} ELSE {})

EnforceRepo(d, req) == req.node /\ \E h \in Usable(d) : Policy(h).repo

Candidates(d, req) ==
    {h \in Usable(d) : /\ EnforceRepo(d, req) => Policy(h).repo
                       /\ \A cap \in RequiredCaps(d, req) : hostHasCapability(d, h, cap)}

AlwaysOn(h) == hostHasTag(h, "24/7") /\ Policy(h).weight > 0

Pool(d, req) ==
    LET strict == Candidates(d, req)
        relaxed == Usable(d)
        first(set, always) == IF \E h \in set : always[h] THEN {h \in set : always[h]} ELSE set
    IN  IF strict # {}
        THEN first(strict, [h \in Members |-> AlwaysOn(h) /\ ~hostHasTag(h, "ephemeral")])
        ELSE first(relaxed, [h \in Members |-> AlwaysOn(h)])

computeEffectiveLoad(d, h) ==
    IF Seen(d, h).load = {} THEN 0 ELSE CHOOSE n \in Seen(d, h).load : TRUE

Weight(h) == IF Policy(h).weight = 0 THEN 1 ELSE Policy(h).weight

(* The score is the weight's share over load + 1; here without division.   *)
LeastLoaded(d, h, best) == computeEffectiveLoad(d, h) < computeEffectiveLoad(d, best)
Beats(d, h, best) ==
    LET mine == Weight(h) * (computeEffectiveLoad(d, best) + 2)
        its == Weight(best) * (computeEffectiveLoad(d, h) + 2)
    IN  mine > its \/ (mine = its /\ Policy(h).weight > Policy(best).weight)

(* The first of the best. *)
Preferred(d, h, g) == Beats(d, h, g) \/ (~Beats(d, g, h) /\ Before(d, h, g))
SelectTargetHost(d, req) ==
    LET pool == Pool(d, req)
    IN  IF pool = {} THEN d
        ELSE CHOOSE h \in pool : \A g \in pool \ {h} : Preferred(d, h, g)

-----------------------------------------------------------------------------
Idle == [at |-> None, req |-> NoRequest, asked |-> {}, hops |-> 0, known |-> TRUE]

Init ==
    /\ fleet \in Fleets
    /\ rows = fleet.knows
    /\ health = [d \in Members |-> [h \in Members |-> Unknown]]
    /\ up = Members
    /\ load = [h \in Members |-> 0]
    /\ spawn = Idle /\ spawned = 0 /\ trouble = 0 /\ skewed = FALSE

(* ensureHostTunnels for one host: its daemon answers, or the tunnel is    *)
(* spawned anew.  If ssh fails the host is offline; if the tunnel comes up *)
(* and the daemon behind it does not answer, nothing is written.           *)
ensureHostTunnels(d, h) ==
    /\ d \in up /\ h \in rows[d]
    /\ \/ h \in up /\ health' = [health EXCEPT ![d][h] = Merged(@, Telemetry(h))]
       \/ h \notin up /\ health' = [health EXCEPT ![d][h] = Merged(@, Unknown)]
       \/ h \notin up /\ UNCHANGED health
    /\ UNCHANGED <<fleet, rows, up, load, spawn, spawned, trouble, skewed>>

(* getFederatedSessions asks every host for its sessions and learns only   *)
(* whether it is there.                                                    *)
getFederatedSessions(d) ==
    /\ d \in up
    /\ health' = [health EXCEPT ![d] = [h \in Members |->
                    IF h \notin rows[d] THEN @[h]
                    ELSE Merged(@[h], [online |-> h \in up, caps |-> {}, load |-> {}])]]
    /\ UNCHANGED <<fleet, rows, up, load, spawn, spawned, trouble, skewed>>

(* handleHosts: a row is registered, or deleted with the capabilities it   *)
(* holds; what is remembered of a host that is online stays.               *)
RegisterHost(d, h) ==
    /\ d \in up /\ h \in fleet.knows[d] \ rows[d]
    /\ rows' = [rows EXCEPT ![d] = @ \cup {h}]
    /\ UNCHANGED <<fleet, health, up, load, spawn, spawned, trouble, skewed>>

DeleteHost(d, h) ==
    /\ d \in up /\ h \in rows[d]
    /\ rows' = [rows EXCEPT ![d] = @ \ {h}]
    /\ health' = [health EXCEPT ![d][h] = IF @.online THEN @ ELSE Unknown]
    /\ Troubled
    /\ UNCHANGED <<fleet, up, load, spawn, spawned, skewed>>

(* A daemon starts again without its memory of the others, with its rows. *)
HostGoes(h) ==
    /\ h \in up /\ spawn.at # h
    /\ up' = up \ {h}
    /\ Troubled
    /\ UNCHANGED <<fleet, rows, health, load, spawn, spawned, skewed>>

HostComes(h) ==
    /\ h \notin up /\ up' = up \cup {h}
    /\ health' = [health EXCEPT ![h] = [g \in Members |->
                    IF g \in rows[h] THEN Offline(@[g]) ELSE Unknown]]
    /\ UNCHANGED <<fleet, rows, load, spawn, spawned, trouble, skewed>>

SessionEnds(h) ==
    /\ load[h] >= 2 /\ load' = [load EXCEPT ![h] = @ - 2]
    /\ skewed' = TRUE /\ spawn' = [spawn EXCEPT !.known = FALSE]
    /\ Troubled
    /\ UNCHANGED <<fleet, rows, health, up, spawned>>

-----------------------------------------------------------------------------
(* The daemon knows what is to be known of the hosts. *)
Current(d) == rows[d] = fleet.knows[d] /\ \A h \in rows[d] :
                 IF h \in up THEN health[d][h] = Telemetry(h) ELSE ~health[d][h].online
AllKnown == up = Members /\ \A d \in up : Current(d)

(* handleSpawn at the daemon the client talks to. *)
handleSpawn(d, req) ==
    /\ d \in up \cap fleet.clients /\ spawn.at = None /\ spawned < MaxSpawns
    /\ spawn' = [at |-> d, req |-> req, asked |-> req.caps, hops |-> 0, known |-> AllKnown]
    /\ UNCHANGED <<fleet, rows, health, up, load, spawned, trouble, skewed>>

(* A request with capabilities, or with a repository that has a path on    *)
(* some host, is routed; any other runs where it is.  The paths are        *)
(* replicated between the hosts: here every daemon has them all.           *)
hasRoutingHint(req) == req.caps # {} \/ (req.node /\ \E h \in Members : Policy(h).repo)

Target == IF hasRoutingHint(spawn.req) THEN SelectTargetHost(spawn.at, spawn.req) ELSE spawn.at

(* What is forwarded: without capabilities. *)
Forwarded(req) == [req EXCEPT !.caps = {}]

Forward ==
    /\ spawn.at # None /\ Target # spawn.at /\ Target \in up /\ spawn.hops < MaxHops
    /\ spawn' = [spawn EXCEPT !.at = Target, !.req = Forwarded(@), !.hops = @ + 1,
                              !.known = @ /\ AllKnown]
    /\ UNCHANGED <<fleet, rows, health, up, load, spawned, trouble, skewed>>

ForwardFails ==
    /\ spawn.at # None /\ Target # spawn.at /\ Target \notin up
    /\ spawn' = Idle /\ spawned' = spawned + 1
    /\ UNCHANGED <<fleet, rows, health, up, load, trouble, skewed>>

RunHere ==
    /\ spawn.at # None /\ Target = spawn.at /\ load[spawn.at] < 2 * MaxLoad
    /\ load' = [load EXCEPT ![spawn.at] = @ + 2]
    /\ spawn' = Idle /\ spawned' = spawned + 1
    /\ skewed' = (skewed \/ ~(spawn.known /\ AllKnown) \/ ~hasRoutingHint(spawn.req))
    /\ UNCHANGED <<fleet, rows, health, up, trouble>>

Next ==
    \/ \E d, h \in Members : ensureHostTunnels(d, h) \/ RegisterHost(d, h) \/ DeleteHost(d, h)
    \/ \E d \in Members : getFederatedSessions(d) \/ \E req \in Requests : handleSpawn(d, req)
    \/ \E h \in Members : HostGoes(h) \/ HostComes(h) \/ SessionEnds(h)
    \/ Forward \/ ForwardFails \/ RunHere

Spec == Init /\ [][Next]_vars
-----------------------------------------------------------------------------
TypeOK ==
    /\ rows \in [Members -> SUBSET Members] /\ up \subseteq Members
    /\ \A d, h \in Members : /\ health[d][h].load \in {{}} \cup {{n} : n \in 0 .. 2 * MaxLoad}
                             /\ health[d][h].online \in BOOLEAN
    /\ spawn.at \in Members \cup {None} /\ spawn.hops \in 0 .. MaxHops

(* A request named capabilities and a repository: it is forwarded with its *)
(* repository, by which alone it is routed again.                          *)
RoutedAgain == spawn.asked # {} /\ hasRoutingHint(spawn.req)

(* The daemons agree: between daemons that know the fleet, a request is    *)
(* forwarded at most once, so the host that was picked runs it though it   *)
(* routes the request itself, and it can do what was asked for, though     *)
(* that is not forwarded, if any host that has the agent can.  A request   *)
(* that named both is forwarded at most twice, and may end up on a host    *)
(* that cannot do what was asked for.                                      *)
FewHops ==
    (spawn.known /\ AllKnown /\ spawn.hops > 0) =>
        /\ spawn.hops > 1 \/ ~RoutedAgain => Target = spawn.at
        /\ \/ RoutedAgain
           \/ spawn.asked \subseteq Policy(spawn.at).caps
           \/ ~\E h \in Members : /\ spawn.asked \cup {spawn.req.agent} \subseteq Policy(h).caps
                                  /\ ~hostHasTag(h, "drain")

(* The 24/7 hosts share the sessions by weight: as long as sessions only   *)
(* start and every daemon knows the loads, no host of the pool runs a      *)
(* session that another one has a better claim to.                         *)
Balanced ==
    ~skewed => \A h, g \in Members :
        (/\ AlwaysOn(h) /\ ~hostHasTag(h, "drain")
         /\ Policy(g) = [Policy(h) EXCEPT !.weight = Policy(g).weight] /\ Policy(g).weight > 0
         /\ load[h] > 0)
        => Weight(h) * (load[g] + 2) >= Weight(g) * load[h]
=============================================================================
