----------------------------- MODULE MetricsFlow -----------------------------
(***************************************************************************)
(* The way of UCM's metrics from the code that updates them to the two     *)
(* Prometheus paths: the native registry of a process, MetricsDispatcher,  *)
(* which copies what it drains to a buffer per consumer, the thread of     *)
(* PrometheusStatsLogger (consumer "multiproc"), and UCMConnectorStats,    *)
(* which travels with the output of every step to the scheduler and is     *)
(* observed by UCMPromMetrics (consumer "vllm").                           *)
(*                                                                         *)
(* Statistics are a function from the metrics that occur to values: a      *)
(* number (counter, gauge) or the counts of the buckets (histogram).  The  *)
(* native registry, vLLM's engine loop and Prometheus are external.        *)
(***************************************************************************)
EXTENDS Integers, Sequences, FiniteSets, SequencesExt, FiniteSetsExt, TLC

CONSTANT MetricsSetups

VARIABLES
  ecfg,    \* the setup, fixed
  enat,    \* process -> statistics in its native registry
  ebuf,    \* process -> consumer -> statistics of the dispatcher
  elog,    \* process -> where its logging thread is, and what it took
  erole,   \* scheduler or worker -> where its get_kv_connector_stats is in this step, and its stats
  ephase,  \* phase of the engine step, or "off"
  estats,  \* UCMConnectorStats of the step: rank -> statistics
  eprom,   \* consumer -> label (process or rank) -> metric -> exported value
  etrue,   \* process -> metric -> what was recorded, all in all
  eleft    \* updates, rounds of the logging threads and steps left

evars == <<ecfg, enat, ebuf, elog, erole, ephase, estats, eprom, etrue, eleft>>

EConsumers == {"multiproc", "vllm"}
ENothing   == <<>>
EProcs     == Range(ecfg.proc)
ERoles     == DOMAIN ecfg.proc
EWorkers   == ERoles \ {"scheduler"}
EMetrics   == DOMAIN ecfg.metrics
EIs(n, type) == ecfg.metrics[n].type = type
EZero(n)   == IF EIs(n, "histogram") THEN [b \in 1..ecfg.metrics[n].buckets |-> 0] ELSE 0
EValueOf(stats, n) == IF n \in DOMAIN stats THEN stats[n] ELSE EZero(n)
ECounts(u, v) == [b \in 1..Max({Len(u), Len(v)}) |-> (IF b <= Len(u) THEN u[b] ELSE 0) + (IF b <= Len(v) THEN v[b] ELSE 0)]
EPut(f, n, v) == (n :> v) @@ f

MetricsInit ==
  /\ ecfg \in MetricsSetups
  /\ enat = [p \in EProcs |-> ENothing] /\ ebuf = [p \in EProcs |-> [c \in EConsumers |-> ENothing]]
  /\ elog = [p \in EProcs |-> [at |-> "drain", took |-> ENothing]]
  /\ erole = [r \in ERoles |-> [at |-> "drain", stats |-> ENothing]]
  /\ ephase = "workers" /\ estats = ENothing
  /\ eprom = [c \in EConsumers |-> ENothing]
  /\ etrue = [p \in EProcs |-> [n \in EMetrics |-> EZero(n)]] /\ eleft = ecfg.left

\* The native registry: counters and buckets add up, a gauge keeps its last value.
ERecorded(n, old, v) == CASE EIs(n, "counter") -> old + v
                          [] EIs(n, "gauge") -> v
                          [] OTHER -> [old EXCEPT ![v] = @ + 1]
EUpdate(p, n, v) ==
  /\ eleft.updates > 0 /\ eleft' = [eleft EXCEPT !.updates = @ - 1]
  /\ enat' = [enat EXCEPT ![p] = EPut(@, n, ERecorded(n, EValueOf(@, n), v))]
  /\ etrue' = [etrue EXCEPT ![p][n] = ERecorded(n, @, v)]
  /\ UNCHANGED <<ecfg, ebuf, elog, erole, ephase, estats, eprom>>

----------------------------------------------------------------------------
(* MetricsDispatcher. *)

\* _consumer_definition: an excluded metric does not go to vLLM.
EWanted(n, c) == c = "vllm" => ecfg.metrics[n].vllm
\* Mutant of EMerged: the last value wins.
EMergedLast(n, old, new) == new
\* _merge_stats.
EMerged(n, old, new) == CASE EIs(n, "counter") -> old + new
                          [] EIs(n, "gauge") -> new
                          [] OTHER -> ECounts(old, new)
EMergeStats(buf, stats, c) ==
  LET in == {n \in DOMAIN stats : EWanted(n, c)} IN
  [n \in DOMAIN buf \union in |-> IF n \in in THEN EMerged(n, EValueOf(buf, n), stats[n]) ELSE buf[n]]
\* drain_to_consumers, under the lock of the dispatcher.
EDrained(p) == [c \in EConsumers |-> IF c \in ecfg.consumers THEN EMergeStats(ebuf[p][c], enat[p], c) ELSE ebuf[p][c]]
EDrain(p) == ebuf' = [ebuf EXCEPT ![p] = EDrained(p)] /\ enat' = [enat EXCEPT ![p] = ENothing]
\* get_stats_and_clear, under the lock.
ETake(p, c) == ebuf' = [ebuf EXCEPT ![p][c] = ENothing]

----------------------------------------------------------------------------
(* The thread of PrometheusStatsLogger. *)

ELogDrain(p) ==
  /\ "multiproc" \in ecfg.consumers /\ elog[p].at = "drain" /\ eleft.rounds > 0
  /\ EDrain(p) /\ elog' = [elog EXCEPT ![p].at = "take"] /\ eleft' = [eleft EXCEPT !.rounds = @ - 1]
  /\ UNCHANGED <<ecfg, erole, ephase, estats, eprom, etrue>>
ELogTake(p) ==
  /\ elog[p].at = "take" /\ ETake(p, "multiproc")
  /\ elog' = [elog EXCEPT ![p] = [at |-> "update", took |-> ebuf[p]["multiproc"]]]
  /\ UNCHANGED <<ecfg, enat, erole, ephase, estats, eprom, etrue, eleft>>

\* inc, set, or inc of every bucket; counts that do not fit the buckets are dropped.
EExported(old, stats, buckets) ==
  [n \in DOMAIN old \union DOMAIN stats |->
     LET was == IF n \in DOMAIN old THEN old[n] ELSE EZero(n) IN
     CASE n \notin DOMAIN stats -> was
       [] n \in DOMAIN stats /\ EIs(n, "counter") -> was + stats[n]
       [] n \in DOMAIN stats /\ EIs(n, "gauge") -> stats[n]
       [] OTHER -> IF Len(stats[n]) = buckets THEN ECounts(was, stats[n]) ELSE was]
EExport(c, label, stats, buckets) ==
  EPut(eprom[c], label, EExported(IF label \in DOMAIN eprom[c] THEN eprom[c][label] ELSE ENothing, stats, buckets))
ELogUpdate(p) ==
  /\ elog[p].at = "update" /\ elog' = [elog EXCEPT ![p] = [at |-> "drain", took |-> ENothing]]
  /\ eprom' = [eprom EXCEPT !["multiproc"] = EExport("multiproc", p, elog[p].took, ecfg.buckets)]
  /\ UNCHANGED <<ecfg, enat, ebuf, erole, ephase, estats, etrue, eleft>>

----------------------------------------------------------------------------
(* get_kv_connector_stats of the workers and of the scheduler, and vLLM's  *)
(* engine step.                                                            *)

\* from_ucm_snapshot keeps the metrics defined for vLLM; an empty result is None.
EFromSnapshot(stats) == [n \in {n \in DOMAIN stats : ecfg.metrics[n].vllm} |-> stats[n]]
EStatsDrain(r) ==
  /\ "vllm" \in ecfg.consumers /\ erole[r].at = "drain"
  /\ IF r = "scheduler" THEN ephase = "scheduler" ELSE ephase = "workers" /\ eleft.steps > 0
  /\ EDrain(ecfg.proc[r]) /\ erole' = [erole EXCEPT ![r].at = "take"]
  /\ UNCHANGED <<ecfg, elog, ephase, estats, eprom, etrue, eleft>>
EStatsTake(r) ==
  /\ erole[r].at = "take" /\ ETake(ecfg.proc[r], "vllm")
  /\ erole' = [erole EXCEPT ![r] = [at |-> "done", stats |-> EFromSnapshot(ebuf[ecfg.proc[r]]["vllm"])]]
  /\ UNCHANGED <<ecfg, enat, elog, ephase, estats, eprom, etrue, eleft>>

\* aggregate: a rank's counters and gauges replace those that are there, buckets add up.
EAggregateOne(old, new) ==
  [n \in DOMAIN old \union DOMAIN new |->
     CASE n \notin DOMAIN new -> old[n]
       [] n \in DOMAIN new /\ EIs(n, "histogram") -> ECounts(EValueOf(old, n), new[n])
       [] OTHER -> new[n]]
EAggregate(stats, rank, new) ==
  IF new = ENothing THEN stats
  ELSE EPut(stats, rank, EAggregateOne(IF rank \in DOMAIN stats THEN stats[rank] ELSE ENothing, new))
\* The outputs of the workers are put together.  Without statistics of the workers the scheduler's
\* are left alone, unless patch_recompute_scheduler_cls collects them.
EGather ==
  /\ ephase = "workers" /\ \A w \in EWorkers : erole[w].at = "done"
  /\ estats' = FoldSet(LAMBDA w, acc : EAggregate(acc, w, erole[w].stats), ENothing, EWorkers)
  /\ ephase' = IF estats' = ENothing /\ ~ecfg.patched THEN "observe" ELSE "scheduler"
  /\ UNCHANGED <<ecfg, enat, ebuf, elog, erole, eprom, etrue, eleft>>
EScheduler ==
  /\ ephase = "scheduler" /\ erole["scheduler"].at = "done"
  /\ estats' = EAggregate(estats, "scheduler", erole["scheduler"].stats) /\ ephase' = "observe"
  /\ UNCHANGED <<ecfg, enat, ebuf, elog, erole, eprom, etrue, eleft>>
\* UCMPromMetrics.observe, per rank.
EObserve ==
  /\ ephase = "observe" /\ ephase' = "workers"
  /\ eprom' = [eprom EXCEPT !["vllm"] =
                 [l \in DOMAIN @ \union DOMAIN estats |->
                    IF l \in DOMAIN estats THEN EExport("vllm", l, estats[l], ecfg.vllmBuckets)[l] ELSE @[l]]]
  /\ estats' = ENothing /\ erole' = [r \in ERoles |-> [at |-> "drain", stats |-> ENothing]]
  /\ eleft' = [eleft EXCEPT !.steps = @ - 1]
  /\ UNCHANGED <<ecfg, enat, ebuf, elog, etrue>>

MetricsNext ==
  \/ \E p \in EProcs, n \in EMetrics, v \in 1..2 : EUpdate(p, n, v)
  \/ \E p \in EProcs : ELogDrain(p)
  \/ \E p \in EProcs : ELogTake(p)
  \/ \E p \in EProcs : ELogUpdate(p)
  \/ \E r \in ERoles : EStatsDrain(r)
  \/ \E r \in ERoles : EStatsTake(r)
  \/ EGather
  \/ EScheduler
  \/ EObserve
  \/ eleft.updates = 0 /\ ephase = "workers" /\ UNCHANGED evars

MetricsSpec == MetricsInit /\ [][MetricsNext]_evars

----------------------------------------------------------------------------
(* Everything recorded for a counter or a histogram is, for each consumer  *)
(* that wants it, exactly once in the registry, in a buffer, on its way,   *)
(* or exported, whoever drains the registry and when.                      *)
EAdd(n, a, b) == IF EIs(n, "histogram") THEN ECounts(a, b) ELSE a + b
ESumOf(n, S) == FoldSet(LAMBDA stats, acc : EAdd(n, acc, EValueOf(stats[2], n)), EZero(n), S)
EOnTheWay(c, ps) ==
  IF c = "multiproc" THEN {<<<<"log", p>>, elog[p].took>> : p \in ps}
  ELSE LET rs == {r \in ERoles : ecfg.proc[r] \in ps} IN
       (IF ephase = "workers" THEN {<<<<"role", r>>, erole[r].stats>> : r \in rs}
        ELSE {<<<<"step", r>>, estats[r]>> : r \in rs \intersect DOMAIN estats}
             \union {<<<<"role", r>>, erole[r].stats>> : r \in rs \intersect (IF ephase = "scheduler" THEN {"scheduler"} ELSE {})})
       \union {<<<<"exported", r>>, eprom[c][r]>> : r \in rs \intersect DOMAIN eprom[c]}
EKept(c, p, n) ==
  EAdd(n, EAdd(n, EValueOf(enat[p], n), EValueOf(ebuf[p][c], n)),
       EAdd(n, ESumOf(n, EOnTheWay(c, {p})),
            IF c = "multiproc" /\ p \in DOMAIN eprom[c] THEN EValueOf(eprom[c][p], n) ELSE EZero(n)))
EConserved ==
  \A c \in ecfg.consumers, p \in EProcs, n \in EMetrics :
    EWanted(n, c) /\ ~EIs(n, "gauge") /\ (c = "vllm" => ecfg.vllmBuckets = ecfg.buckets) => EKept(c, p, n) = etrue[p][n]
(* A gauge that nobody still has to export shows the value it was set to.  *)
EGaugesCurrent ==
  \A p \in EProcs, n \in EMetrics :
    /\ EIs(n, "gauge") /\ p \in DOMAIN eprom["multiproc"] /\ n \in DOMAIN eprom["multiproc"][p]
    /\ n \notin DOMAIN enat[p] \union DOMAIN ebuf[p]["multiproc"] \union DOMAIN elog[p].took
    => eprom["multiproc"][p][n] = etrue[p][n]

(* No metric is lost, counted twice or stale on its way to Prometheus.     *)
MetricsRight == ephase # "off" => EConserved /\ EGaugesCurrent
=============================================================================
