----------------------------- MODULE FleetUpdate -----------------------------
(***************************************************************************)
(* How a new release reaches the machines.  A daemon replaces its own      *)
(* binaries one by one, brings the remote hosts that are older to the same *)
(* version over ssh and restarts itself; a user may also ask for the       *)
(* update of one host.  The binaries of a host are uploaded under another  *)
(* name, renamed one by one, and its daemon is restarted; every step may   *)
(* fail and end the update where it is.                                    *)
(***************************************************************************)
EXTENDS Naturals, Sequences, FiniteSets

CONSTANTS
    Versions,   \* versions, as numbers in their order
    Bins,       \* the binaries, in the order in which they are handled
    Updates,    \* names of the updates of a remote host that may run
    Hosts,      \* remote hosts
    Overlap,    \* updates of one host may overlap
    MaxUpdates  \* bound on the updates, of this machine and of hosts

Daemon == "ackbard"
BinSet == {Bins[i] : i \in DOMAIN Bins}
None == 0
Nobody == "-"
Torn == 1000    \* a file of which only a part is written

VARIABLES
    release,    \* the latest release
    source,     \* version of the checkout on this machine, None if there is none
    cached,     \* the release that CheckLatestRelease remembers
    own,        \* this machine: installed binaries and version that runs
    install,    \* the update of this machine
    host,       \* each remote host: installed and staged binaries, version that runs
    health,     \* what this daemon last heard of a host's version, None: offline
    job,        \* each update of a host
    asked       \* updates so far

vars == <<release, source, cached, own, install, host, health, job, asked>>

Asked == asked < MaxUpdates /\ asked' = asked + 1
IsNewer(candidate, baseline) == candidate > baseline
NewerOf(v, w) == IF IsNewer(w, v) THEN w ELSE v

NoJob == [phase |-> "free", host |-> Nobody, target |-> None, files |-> None, next |-> 1,
          probed |-> FALSE, bulk |-> FALSE, result |-> "none"]

Init ==
    /\ release \in Versions /\ source \in Versions \cup {None}
    /\ cached = None
    /\ \E v \in Versions : v <= release /\
          \E kind \in {"standalone", "homebrew"} :
              own = [bin |-> [b \in BinSet |-> v], running |-> v, kind |-> kind]
    /\ install = [phase |-> "free", target |-> None, next |-> 1, restart |-> FALSE]
    /\ \E v \in Versions : host = [h \in Hosts |->
          [bin |-> [b \in BinSet |-> v], staged |-> [b \in BinSet |-> None], running |-> v]]
    /\ health = [h \in Hosts |-> None]
    /\ job = [u \in Updates |-> NoJob]
    /\ asked = 0

(* CheckLatestRelease: forced, it asks, and may get no answer; otherwise   *)
(* the answer may be an hour old.                                          *)
CheckLatestRelease(force) == IF force \/ cached = None THEN {None, release} ELSE {cached, release}

Published ==
    /\ \E v \in Versions : v > release /\ release' = v
    /\ UNCHANGED <<source, cached, own, install, host, health, job, asked>>

(* A host is updated by its own daemon, or by hand. *)
UpdatesItself(h) ==
    /\ \E v \in Versions : /\ v > host[h].running /\ v <= release
                           /\ host' = [host EXCEPT ![h].bin = [b \in BinSet |-> v],
                                                   ![h].running = v]
    /\ \A u \in Updates : job[u].host # h
    /\ UNCHANGED <<release, source, cached, own, install, health, job, asked>>

Heard(h) ==
    /\ health' = [health EXCEPT ![h] = host[h].running]
    /\ UNCHANGED <<release, source, cached, own, install, host, job, asked>>

Lost(h) ==
    /\ health[h] # None /\ health' = [health EXCEPT ![h] = None]
    /\ UNCHANGED <<release, source, cached, own, install, host, job, asked>>

-----------------------------------------------------------------------------
(* handleUpdate: this machine first.  With nothing newer to install it     *)
(* goes straight to the hosts.  The code does not keep two of these        *)
(* requests apart; here one follows the other, like the updates of a host. *)
handleUpdate ==
    /\ install.phase = "free"
    /\ \E info \in CheckLatestRelease(TRUE) :
          /\ cached' = IF info = None THEN cached ELSE info
          /\ install' = [phase |-> IF IsNewer(info, own.running) THEN "extract" ELSE "hosts",
                         target |-> NewerOf(own.running, info), next |-> 1, restart |-> FALSE]
    /\ Asked
    /\ UNCHANGED <<release, source, own, host, health, job>>

(* ExtractTarGz replaces one binary.  An error ends the update of this     *)
(* machine and of the hosts; under Homebrew it is the fallback of an       *)
(* upgrade that has succeeded, and its error is dropped.                   *)
ExtractTarGz ==
    /\ install.phase = "extract"
    /\ \/ /\ own' = [own EXCEPT !.bin[Bins[install.next]] = install.target]
          /\ install' = IF install.next < Len(Bins) THEN [install EXCEPT !.next = @ + 1]
                        ELSE [install EXCEPT !.phase = "hosts", !.restart = TRUE]
       \/ own.kind = "standalone" /\ install' = [install EXCEPT !.phase = "free"] /\ UNCHANGED own
       \/ /\ own.kind = "homebrew" /\ UNCHANGED own
          /\ install' = [install EXCEPT !.phase = "hosts", !.restart = TRUE, !.target = own.running]
    /\ UNCHANGED <<release, source, cached, host, health, job, asked>>

(* RunHomebrewUpgrade: the formula is up to date, or brew fails. *)
RunHomebrewUpgrade ==
    /\ install.phase = "extract" /\ install.next = 1 /\ own.kind = "homebrew"
    /\ \/ /\ own' = [own EXCEPT !.bin = [b \in BinSet |-> install.target]]
          /\ install' = [install EXCEPT !.phase = "hosts", !.restart = TRUE]
       \/ install' = [install EXCEPT !.phase = "free"] /\ UNCHANGED own
    /\ UNCHANGED <<release, source, cached, host, health, job, asked>>

(* UpdateOutdatedRemoteHosts for one host: what runs there, asked or       *)
(* remembered, decides.                                                    *)
UpdateOutdated(u, h) ==
    /\ install.phase = "hosts" /\ job[u].phase = "free"
    /\ \A w \in Updates : job[w].host # h \/ (Overlap /\ ~job[w].bulk)
    /\ \E answers \in BOOLEAN :
          LET remote == IF answers THEN host[h].running ELSE health[h]
          IN  IF remote = None \/ ~IsNewer(install.target, remote)
              THEN job' = [job EXCEPT ![u] = [NoJob EXCEPT !.phase = "done", !.host = h,
                              !.bulk = TRUE,
                              !.result = IF remote = None THEN "skipped_offline" ELSE "up_to_date"]]
              ELSE job' = [job EXCEPT ![u] = [NoJob EXCEPT !.phase = "prepare", !.host = h,
                              !.target = install.target, !.probed = answers, !.bulk = TRUE]]
    /\ Asked
    /\ UNCHANGED <<release, source, cached, own, install, host, health>>

(* When the hosts are through, the daemon restarts if it has new binaries: *)
(* updates that others asked for end where they are.                       *)
RestartLocal ==
    /\ install.phase = "hosts" /\ \A u \in Updates : job[u].bulk => job[u].phase = "done"
    /\ install' = [install EXCEPT !.phase = "free"]
    /\ IF install.restart
       THEN /\ own' = [own EXCEPT !.running = own.bin[Daemon]]
            /\ job' = [u \in Updates |-> NoJob]
            /\ cached' = None /\ health' = [h \in Hosts |-> None]
       ELSE /\ job' = [u \in Updates |-> IF job[u].bulk THEN NoJob ELSE job[u]]
            /\ UNCHANGED <<own, cached, health>>
    /\ UNCHANGED <<release, source, host, asked>>

(* handleHostUpdate: one host, whatever runs there, to the newest release  *)
(* that this daemon knows of.                                              *)
handleHostUpdate(u, h) ==
    /\ job[u].phase = "free"
    /\ \A w \in Updates : job[w].host # h \/ Overlap
    /\ \E info \in CheckLatestRelease(FALSE) :
          /\ cached' = IF info = None THEN cached ELSE info
          /\ job' = [job EXCEPT ![u] = [NoJob EXCEPT !.phase = "prepare", !.host = h,
                                           !.target = NewerOf(own.running, info)]]
    /\ Asked
    /\ UNCHANGED <<release, source, own, install, host, health>>

-----------------------------------------------------------------------------
Ends(u, result) == job' = [job EXCEPT ![u].phase = "done", ![u].result = result]

(* findUpToDateSourceDir: a checkout counts if it is not older than the    *)
(* target and than the daemon.                                             *)
AnySourceDir(target) == source # None
findUpToDateSourceDir(target) == source # None /\ source >= target /\ source >= own.running

(* The host's platform is asked for; the binaries are built here or        *)
(* downloaded, or the host is told to fetch them itself.                   *)
Prepare(u) ==
    /\ job[u].phase = "prepare"
    /\ \/ Ends(u, "error")
       \/ /\ findUpToDateSourceDir(job[u].target)
          /\ job' = [job EXCEPT ![u].phase = "upload", ![u].files = source]
       \/ job' = [job EXCEPT ![u].phase = "upload", ![u].files = job[u].target]
       \/ job' = [job EXCEPT ![u].phase = "remote"]
    /\ UNCHANGED <<release, source, cached, own, install, host, health, asked>>

Binary(u) == Bins[job[u].next]
Step(u, last) == IF job[u].next = Len(Bins)
                 THEN job' = [job EXCEPT ![u].phase = last, ![u].next = 1]
                 ELSE job' = [job EXCEPT ![u].next = @ + 1]

(* scp writes the staged file as it goes, and may stop half way. *)
Staged(h, b, v) == [host EXCEPT ![h].staged[b] = v]
InPlace(h, b, v) == [host EXCEPT ![h].bin[b] = v]

Upload(u) ==
    LET h == job[u].host
    IN  /\ job[u].phase = "upload"
        /\ \/ /\ host' = Staged(h, Binary(u), Torn)
              /\ \/ job' = [job EXCEPT ![u].phase = "uploading"]
                 \/ Ends(u, "error")
           \/ UNCHANGED host /\ Ends(u, "error")
        /\ UNCHANGED <<release, source, cached, own, install, health, asked>>

Uploaded(u) ==
    /\ job[u].phase = "uploading"
    /\ host' = Staged(job[u].host, Binary(u), job[u].files)
    /\ IF job[u].next = Len(Bins)
       THEN job' = [job EXCEPT ![u].phase = "rename", ![u].next = 1]
       ELSE job' = [job EXCEPT ![u].phase = "upload", ![u].next = @ + 1]
    /\ UNCHANGED <<release, source, cached, own, install, health, asked>>

(* The script on the host: each staged file is renamed into place, then    *)
(* the daemon is killed and started.  A lost connection stops it.          *)
Rename(u) ==
    LET h == job[u].host
        b == Binary(u)
    IN  /\ job[u].phase = "rename"
        /\ \/ /\ host' = IF host[h].staged[b] = None THEN host
                         ELSE [host EXCEPT ![h].bin[b] = host[h].staged[b], ![h].staged[b] = None]
              /\ Step(u, "restart")
           \/ UNCHANGED host /\ Ends(u, "error")
        /\ UNCHANGED <<release, source, cached, own, install, health, asked>>

RestartRemote(u) ==
    LET h == job[u].host
    IN  /\ job[u].phase = "restart"
        /\ \/ /\ host' = [host EXCEPT ![h].running = host[h].bin[Daemon]]
              /\ job' = [job EXCEPT ![u].phase = "verify"]
           \/ UNCHANGED host /\ Ends(u, "error")
        /\ UNCHANGED <<release, source, cached, own, install, health, asked>>

(* `ackbar update --force` on the host installs the release; with Homebrew *)
(* it may report success and leave what was there.                         *)
RemoteUpdate(u) ==
    LET h == job[u].host
    IN  /\ job[u].phase = "remote"
        /\ \/ /\ host' = [host EXCEPT ![h].bin = [b \in BinSet |-> release],
                                      ![h].running = release]
              /\ job' = [job EXCEPT ![u].phase = "verify"]
           \/ /\ host' = [host EXCEPT ![h].running = host[h].bin[Daemon]]
              /\ job' = [job EXCEPT ![u].phase = "verify"]
           \/ UNCHANGED host /\ Ends(u, "error")
        /\ UNCHANGED <<release, source, cached, own, install, health, asked>>

(* The version is asked of the daemon over HTTP, of the binary over ssh,   *)
(* or, if neither answers, taken to be the target.                         *)
Unchecked(u, way) == job[u].target
Reported(u, way) ==
    LET h == job[u].host
    IN  CASE way = "http" -> host[h].running
          [] way = "ssh" -> host[h].bin[Daemon]
          [] way = "neither" -> job[u].target

Verify(u) ==
    /\ job[u].phase = "verify"
    /\ \E way \in {"http", "ssh", "neither"} :
          /\ job' = [job EXCEPT ![u].phase = "done", ![u].probed = way # "neither",
                        ![u].result = IF IsNewer(job[u].target, Reported(u, way)) THEN "error" ELSE "updated"]
          /\ health' = IF way = "http"
                       THEN [health EXCEPT ![job[u].host] = host[job[u].host].running] ELSE health
    /\ UNCHANGED <<release, source, cached, own, install, host, asked>>

(* The answer of handleHostUpdate is out. *)
Answered(u) ==
    /\ job[u].phase = "done" /\ ~job[u].bulk
    /\ job' = [job EXCEPT ![u] = NoJob]
    /\ UNCHANGED <<release, source, cached, own, install, host, health, asked>>

Next ==
    \/ Published \/ handleUpdate \/ ExtractTarGz \/ RunHomebrewUpgrade \/ RestartLocal
    \/ \E h \in Hosts : \/ UpdatesItself(h) \/ Heard(h) \/ Lost(h)
                        \/ \E u \in Updates : UpdateOutdated(u, h) \/ handleHostUpdate(u, h)
    \/ \E u \in Updates : \/ Prepare(u) \/ Upload(u) \/ Uploaded(u) \/ Rename(u)
                          \/ RestartRemote(u) \/ RemoteUpdate(u) \/ Verify(u) \/ Answered(u)

Spec == Init /\ [][Next]_vars
-----------------------------------------------------------------------------
TypeOK ==
    /\ {release, own.running, own.bin[Daemon]} \subseteq Versions
    /\ \A u \in Updates : job[u].next \in DOMAIN Bins
    /\ \A h \in Hosts, b \in BinSet : host[h].staged[b] \in Versions \cup {None, Torn}

(* Updates of one host that follow each other, however they end: a file    *)
(* that is partly written never takes a binary's place, and a host that an *)
(* update reports as updated, with an answer of the host to show for it,   *)
(* has the target version or a newer one in every binary.                  *)
WholeBinaries ==
    /\ \A h \in Hosts, b \in BinSet : host[h].bin[b] # Torn /\ host[h].running # Torn
    /\ \A u \in Updates : (job[u].result = "updated" /\ job[u].probed) =>
          LET h == job[u].host
          IN  host[h].bin[Daemon] >= job[u].target /\ host[h].running >= job[u].target

(* The daemon restarts into an update only with all its binaries, and the  *)
(* update of all hosts does not take a host that says what it runs back to *)
(* an older version.                                                       *)
Upgrades ==
    /\ own.kind = "standalone" /\ own'.running # own.running =>
          \A b \in BinSet : own.bin[b] = own'.running
    /\ \A h \in Hosts :
          (host'[h].bin[Daemon] # host[h].bin[Daemon] /\ host'[h].bin[Daemon] < host[h].running) =>
              \E u \in Updates : /\ job[u].host = h /\ job[u].phase \in {"rename", "remote"}
                                 /\ ~(job[u].bulk /\ job[u].probed)
NeverDowngraded == [][Upgrades]_vars
=============================================================================
