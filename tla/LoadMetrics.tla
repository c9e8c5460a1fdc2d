---------------------------- MODULE LoadMetrics ----------------------------
(***************************************************************************)
(* The load history of one host (host_load_metrics): samples and spawns    *)
(* are folded into 5 minute buckets, buckets of past hours are rolled up   *)
(* into hours, and old buckets are pruned.  The clock counts 5 minute      *)
(* buckets; an average is kept as the sum of what was averaged.            *)
(***************************************************************************)
EXTENDS Integers, FiniteSetsExt

CONSTANTS
    PerHour,    \* 5 minute buckets in an hour
    Raw,        \* hours that stay in 5 minute buckets: 7 days
    Kept,       \* hours that are kept: 90 days
    Work,       \* numbers of working sessions that a sample may find
    RAM,        \* free memory it may find, 0 when it is unknown
    MaxClock,   \* bound on the clock
    MaxSamples, \* bound on samples and spawns
    Writers     \* bound on samples being folded in at one time

VARIABLES
    clock,      \* now
    buckets,    \* the table: buckets by start and length
    folding,    \* samples at work: what each has read of its bucket
    history,    \* what was sampled in each hour
    samples     \* samples and spawns so far

loadVars == <<clock, buckets, folding, history, samples>>

Hour(t) == t \div PerHour
Empty == [sum |-> 0, max |-> 0, min |-> 0, count |-> 0, spawned |-> 0]
MaxOf(a, b) == IF a < b THEN b ELSE a

(* Unknown memory is no minimum. *)
LeastRAM(a, b) == IF a = 0 \/ (b > 0 /\ b < a) THEN b ELSE a

Joined(a, b) ==
    [sum |-> a.sum + b.sum, max |-> MaxOf(a.max, b.max), min |-> LeastRAM(a.min, b.min),
     count |-> a.count + b.count, spawned |-> a.spawned + b.spawned]
JoinedAll(set) == FoldSet(LAMBDA b, sofar : Joined(sofar, b.data), Empty, set)

(***************************************************************************)
(* RecordHostLoadSample: the first record of a bucket is its sample; of    *)
(* later ones a spawn counts only as a spawn.                              *)
(***************************************************************************)
Sample(w, r, s) == [sum |-> w, max |-> w, min |-> r, count |-> 1, spawned |-> s]
Folded(old, x) ==
    IF old = Empty THEN x
    ELSE IF x.spawned > 0 THEN [old EXCEPT !.spawned = @ + x.spawned]
    ELSE Joined(old, x)

At(start, long) == {b \in buckets : b.start = start /\ b.long = long}
Now == At(clock, FALSE)
Read == IF Now = {} THEN Empty ELSE (CHOOSE b \in Now : TRUE).data

LoadInit ==
    /\ clock = 0 /\ buckets = {} /\ folding = {} /\ samples = 0
    /\ history = [h \in 0 .. Hour(MaxClock) |-> Empty]

RecordHostLoadSample(w, r, s) ==
    /\ samples < MaxSamples /\ Cardinality(folding) < Writers
    /\ samples' = samples + 1
    /\ folding' = folding \cup {[id |-> samples, at |-> clock, old |-> Read, new |-> Sample(w, r, s)]}
    /\ UNCHANGED <<clock, buckets, history>>

(* The insert of a bucket that has come to exist since fails; an update of *)
(* one that has gone changes nothing.                                      *)
Store(x) ==
    LET there == At(x.at, FALSE)
        fits == (there = {}) = (x.old = Empty)
        counted == x.old = Empty \/ x.new.spawned = 0
    IN  /\ folding' = folding \ {x}
        /\ buckets' = IF ~fits THEN buckets
                      ELSE (buckets \ there)
                             \cup {[start |-> x.at, long |-> FALSE, data |-> Folded(x.old, x.new)]}
        /\ history' = [history EXCEPT ![Hour(x.at)] =
                         IF counted THEN Joined(@, x.new) ELSE [@ EXCEPT !.spawned = @ + x.new.spawned]]
        /\ UNCHANGED <<clock, samples>>

(***************************************************************************)
(* RollupAndPruneHostLoadMetrics: old buckets are deleted, those of whole  *)
(* hours are read, and a transaction replaces them by the hours.  Three    *)
(* steps of the code in one: samples go to the bucket of the moment, which *)
(* is none of those that it deletes or reads.                              *)
(***************************************************************************)
CutAnywhere == clock - Raw * PerHour
Cut == (Hour(clock) - Raw) * PerHour

(* The upsert of an hour that is there replaces its average. *)
Upserted(old, new) ==
    [new EXCEPT !.max = MaxOf(@, old.max), !.spawned = @ + old.spawned,
                !.min = IF old.min > 0 /\ old.min < @ THEN old.min ELSE @]
HourOf(raw, h) ==
    LET new == JoinedAll({b \in raw : Hour(b.start) = h})
        old == At(h * PerHour, TRUE)
    IN  [start |-> h * PerHour, long |-> TRUE,
         data |-> IF old = {} THEN new ELSE Upserted((CHOOSE b \in old : TRUE).data, new)]

RollupAndPrune ==
    LET live == {b \in buckets : b.start >= clock - Kept * PerHour}
        raw == {b \in live : ~b.long /\ b.start < Cut}
        hours == {HourOf(raw, h) : h \in {Hour(b.start) : b \in raw}}
    IN  /\ raw # {} \/ live # buckets
        /\ buckets' = {b \in live \ raw : ~\E x \in hours : b.long /\ x.start = b.start} \cup hours
        /\ UNCHANGED <<clock, folding, history, samples>>

Tick ==
    /\ clock < MaxClock /\ folding = {}
    /\ clock' = clock + 1
    /\ UNCHANGED <<buckets, folding, history, samples>>

(***************************************************************************)
(* handleHostUtilization reports on the buckets that begin since a moment: *)
(* their peak, their least free memory and their spawns.                   *)
(***************************************************************************)
Reported(since) == JoinedAll({b \in buckets : b.start >= since})

LoadNext ==
    \/ \E w \in Work, r \in RAM, s \in {0, 1} : RecordHostLoadSample(w, r, s)
    \/ \E x \in folding : Store(x)
    \/ RollupAndPrune
    \/ Tick

-----------------------------------------------------------------------------
LoadTypeOK ==
    /\ clock \in 0 .. MaxClock /\ samples \in 0 .. MaxSamples
    /\ \A b \in buckets : /\ b.start \in 0 .. MaxClock /\ b.long \in BOOLEAN
                          /\ {b.data.sum, b.data.count, b.data.spawned} \subseteq 0 .. MaxSamples * MaxSamples
                          /\ b.data.max \in Work /\ b.data.min \in RAM

(* Nothing is lost or counted twice on the way from samples through 5      *)
(* minute buckets to hours: until an hour is pruned, what the table holds  *)
(* of it is exactly what was sampled and spawned in it, and a report's     *)
(* peak, least memory and spawns are those of its hours, give or take the  *)
(* hour it begins in.                                                      *)
HoursKept ==
    \A h \in DOMAIN history : h * PerHour >= clock - Kept * PerHour =>
        /\ JoinedAll({b \in buckets : Hour(b.start) = h}) = history[h]
        /\ LET hours == {[data |-> history[k], of |-> k] : k \in h .. Hour(MaxClock)}
               all == JoinedAll(hours)
               told == Reported(h * PerHour)
               late == Reported(h * PerHour + 1)
           IN  /\ told = all
               /\ late.max <= all.max /\ late.spawned <= all.spawned
               /\ late.spawned >= all.spawned - history[h].spawned

LoadSpec == LoadInit /\ [][LoadNext]_loadVars
=============================================================================
