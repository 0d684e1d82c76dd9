----------------------------- MODULE CacheStore -----------------------------
(***************************************************************************)
(* The cache store: several processes that load and dump shards through    *)
(* one shared table of nodes (ucm/store/cache/cc/load_queue.cc,            *)
(* dump_queue.cc, trans_manager.h; ucm/store/detail/template/              *)
(* task_wrapper.h).  In each process the caller submits tasks and waits    *)
(* for them; a dispatcher gets nodes and starts backend loads; a transfer  *)
(* thread copies nodes to the device; a dump thread copies the device into *)
(* nodes and starts backend dumps; a dumper waits for those.               *)
(*                                                                         *)
(* The node table is the atomic one (TransBuffer implements it), queues    *)
(* are the FIFOs SpscRingQueue implements, the content of a key is the key *)
(* itself.  The backend store and the device's copy streams are external.  *)
(***************************************************************************)
EXTENDS NodeTable, Sequences, FiniteSets

CONSTANTS Procs,
          Loads, Dumps,   \* the tasks
          ProcOf,         \* the process that submits a task
          MaxShards,      \* the longest task
          Scenarios,      \* what to check: the shards of each task, in order (none: the task
                          \* is not submitted), the nodes of the table, and what may fail:
                          \* "backend", "submit", "device", "timeout"
          OnDisk,         \* keys the backend holds at the start
          ReservedNodes,  \* nodes only a load may claim
          Bypass,         \* bypassHitOnLoad_
          WaitingDepth, RunningDepth,  \* what the queues hold at most
          None            \* no content, no shard, no task

Tasks == Loads \cup Dumps
Shards == Tasks \X (1 .. MaxShards)

(* A shard in a process: which one, the node its Handle pins, whether it    *)
(* started a backend load, whether it carries the task's waiter.            *)
ShardTasks == [t : Tasks, i : 1 .. MaxShards, node : Nodes, own : BOOLEAN, last : BOOLEAN]

ASSUME StoreAssumption ==
  /\ Loads \cap Dumps = {} /\ ReservedNodes \subseteq Nodes /\ OnDisk \subseteq Keys
  /\ ProcOf \in [Tasks -> Procs] /\ MaxShards \in Nat
  /\ \A x \in Scenarios : /\ x.faults \subseteq {"backend", "submit", "device", "timeout"}
                          /\ x.nodes \subseteq Nodes /\ x.keys \in [Tasks -> Seq(Keys)]
                          /\ \A t \in Tasks : Len(x.keys[t]) <= MaxShards
  /\ WaitingDepth \in Nat \ {0} /\ RunningDepth \in Nat \ {0}
  /\ None \notin Keys \cup Nodes \cup Tasks \cup ShardTasks \cup [s : ShardTasks, stage : {"wait", "sync"}]

VARIABLES
  sc,            \* the scenario, chosen once
  tab, data,     \* node metadata and node contents
  disk,          \* what the backend holds for each key
  st,            \* each task as its caller sees it
  failureSet,    \* failureSet_ (task ids are unique, so one set serves all processes)
  done,          \* tasks whose latch reached zero
  waiting,       \* waiting_ of the load queue and of the dump queue
  disp,          \* load dispatcher: its task, next shard and the shard it must push
  running,       \* running_: shards on their way to the transfer thread
  xfer,          \* transfer thread: the shard it works on, and at which stage
  holder,        \* holder_: shards copied and not yet synchronised
  bload,         \* backend load of each shard
  h2d, dev,      \* copies to the device in flight, and what the device received
  dump,          \* dump thread: its task, next shard, the nodes it holds
  d2h,           \* copies from the device in flight
  dumping,       \* dumping_: dumps handed to the dumper
  dumper,        \* the dump the dumper waits for
  bdump          \* backend dump of each task: its state and the nodes it reads

buffer == <<tab, data>>
loadVars == <<disp, running, xfer, holder, h2d, dev>>
dumpVars == <<dump, d2h, dumping, dumper>>
api == <<st, failureSet, done>>
backend == <<disk, bload, bdump>>
store == <<buffer, loadVars, dumpVars, api, backend, waiting>>
vars == <<sc, store>>

KeysOf == sc.keys
Faults == sc.faults

IdleDisp == [t |-> None, i |-> 1, out |-> None]
IdleDump == [t |-> None, i |-> 1, held |-> {}, skip |-> {}, stage |-> "get"]

Init ==
  /\ sc \in Scenarios
  /\ tab = [n \in Nodes |-> FreshNode]
  /\ data = [n \in Nodes |-> None]
  /\ disk = [k \in Keys |-> IF k \in OnDisk THEN k ELSE None]
  /\ st = [t \in Tasks |-> "new"]
  /\ failureSet = {} /\ done = {}
  /\ waiting = [q \in {"load", "dump"} |-> [p \in Procs |-> <<>>]]
  /\ disp = [p \in Procs |-> IdleDisp]
  /\ running = [p \in Procs |-> <<>>]
  /\ xfer = [p \in Procs |-> None]
  /\ holder = [p \in Procs |-> {}]
  /\ bload = [s \in Shards |-> [st |-> "none", node |-> None]]
  /\ h2d = {} /\ d2h = {}
  /\ dev = [s \in Shards |-> None]
  /\ dump = [p \in Procs |-> IdleDump]
  /\ dumping = [p \in Procs |-> <<>>]
  /\ dumper = [p \in Procs |-> None]
  /\ bdump = [t \in Tasks |-> [st |-> "none", held |-> {}]]

----------------------------------------------------------------------------
(* Shards and the node table                                                *)

ShardTask(t, i, n, own) == [t |-> t, i |-> i, node |-> n, own |-> own, last |-> i = Len(KeysOf[t])]
KeyOf(s) == KeysOf[s.t][s.i]
Id(s) == <<s.t, s.i>>
Step(f, p, x) == [f EXCEPT ![p] = x]

(* TransBuffer::Get: the results it may give.  Alloc spins until a node is  *)
(* free, so the set is empty while none is.                                 *)
Get(k, load) ==
  LET hits == {n \in Nodes : tab[n].key = k}
      free == {n \in sc.nodes : tab[n].ref = 0} \ (IF load THEN {} ELSE ReservedNodes)
  IN  IF hits # {}
      THEN {[tab |-> Hit(tab, n, Bypass /\ load), node |-> n, own |-> IsOwner(tab[n])] : n \in hits}
      ELSE {[tab |-> Claim(tab, n, k), node |-> n, own |-> TRUE] : n \in free}

(* The Handles of a set of shards are dropped; each pins a node once.       *)
ReleaseAll(tb, S) ==
  [n \in Nodes |-> [tb[n] EXCEPT !.ref = @ - Cardinality({s \in S : s.node = n})]]

HasRoom(q) == Len(q) < RunningDepth

Fails(t) == failureSet' = failureSet \cup {t}
Done(t) == done' = done \cup {t}

----------------------------------------------------------------------------
(* The caller: TaskWrapper::Submit and Wait                                 *)

QueueOf(t) == IF t \in Loads THEN "load" ELSE "dump"

Submit(t) ==
  LET q == QueueOf(t)  p == ProcOf[t]
  IN  /\ st[t] = "new" /\ KeysOf[t] # <<>>
      /\ st' = Step(st, t, "run")
      /\ IF Len(waiting[q][p]) < WaitingDepth
         THEN /\ waiting' = [waiting EXCEPT ![q][p] = Append(@, t)]
              /\ UNCHANGED <<failureSet, done>>
         ELSE Fails(t) /\ Done(t) /\ UNCHANGED waiting
      /\ UNCHANGED <<buffer, loadVars, dumpVars, backend>>

(* Wait takes the task out of the failure set when it reports the failure.  *)
WaitReturns(t) ==
  /\ t \in done
  /\ \/ st[t] = "run"   /\ st' = Step(st, t, IF t \in failureSet THEN "failed" ELSE "ok")
     \/ st[t] = "drain" /\ st' = Step(st, t, "timeout")
  /\ failureSet' = failureSet \ {t}
  /\ UNCHANGED <<buffer, loadVars, dumpVars, backend, waiting, done>>

(* The wait times out: the task is marked failed so that its stages skip    *)
(* it, and Wait goes on until the latch opens.                              *)
WaitExpires(t) ==
  /\ "timeout" \in Faults
  /\ st[t] = "run" /\ t \notin done
  /\ st' = Step(st, t, "drain")
  /\ Fails(t)
  /\ UNCHANGED <<buffer, loadVars, dumpVars, backend, waiting, done>>

----------------------------------------------------------------------------
(* Load dispatcher: DispatchOneTask                                         *)

DispatchTake(p) ==
  LET t == Head(waiting["load"][p])
  IN  /\ disp[p] = IdleDisp /\ waiting["load"][p] # <<>>
      /\ waiting' = [waiting EXCEPT !["load"][p] = Tail(@)]
      /\ IF t \in failureSet THEN Done(t) /\ UNCHANGED disp
         ELSE disp' = Step(disp, p, [IdleDisp EXCEPT !.t = t]) /\ UNCHANGED done
      /\ UNCHANGED <<buffer, running, xfer, holder, h2d, dev, dumpVars, backend, st, failureSet>>

(* Get a node for the next shard; its owner starts a backend load unless    *)
(* the node is READY.                                                       *)
NeedsLoad(r) == r.own /\ r.tab[r.node].st # "READY"

DispatchGet(p) ==
  LET d == disp[p]
  IN  /\ d.t # None /\ d.out = None
      /\ \E r \in Get(KeysOf[d.t][d.i], TRUE) :
           /\ tab' = r.tab
           /\ disp' = [disp EXCEPT ![p].out = ShardTask(d.t, d.i, r.node, NeedsLoad(r))]
           /\ bload' = IF NeedsLoad(r) THEN Step(bload, <<d.t, d.i>>, [st |-> "run", node |-> r.node]) ELSE bload
      /\ UNCHANGED <<data, running, xfer, holder, h2d, dev, dumpVars, disk, bdump, api, waiting>>

(* The backend rejects the load: the node is marked FAILED, the Handle is   *)
(* dropped and the latch opens, whatever earlier shards of the task do.     *)
DispatchRejected(p) ==
  LET d == disp[p]
  IN  /\ "submit" \in Faults
      /\ d.t # None /\ d.out = None
      /\ \E r \in Get(KeysOf[d.t][d.i], TRUE) :
           /\ NeedsLoad(r)
           /\ tab' = Release(Mark(r.tab, r.node, "FAILED"), r.node)
      /\ Fails(d.t) /\ Done(d.t)
      /\ disp' = Step(disp, p, IdleDisp)
      /\ UNCHANGED <<data, running, xfer, holder, h2d, dev, dumpVars, backend, st, waiting>>

(* running_.Push waits for room.                                            *)
DispatchPush(p) ==
  LET d == disp[p]
  IN  /\ d.out # None /\ HasRoom(running[p])
      /\ running' = Step(running, p, Append(running[p], d.out))
      /\ disp' = Step(disp, p, IF d.out.last THEN IdleDisp ELSE [d EXCEPT !.i = @ + 1, !.out = None])
      /\ UNCHANGED <<buffer, xfer, holder, h2d, dev, dumpVars, backend, api, waiting>>

----------------------------------------------------------------------------
(* Transfer thread: TransferOneTask                                         *)

TransferTake(p) ==
  LET s == Head(running[p])
  IN  /\ xfer[p] = None /\ running[p] # <<>> /\ s.t \notin failureSet
      /\ running' = Step(running, p, Tail(running[p]))
      /\ xfer' = Step(xfer, p, [s |-> s, stage |-> "wait"])
      /\ UNCHANGED <<buffer, disp, holder, h2d, dev, dumpVars, backend, api, waiting>>

(* Mutant of Dropped: holder_ is forgotten without dropping its Handles.    *)
DroppedAlone(p, s) == {s}
Dropped(p, s) == {s} \cup IF s.last THEN holder[p] ELSE {}

(* A shard of a failed task is dropped; the last one also clears holder_    *)
(* and opens the latch.                                                     *)
TransferSkip(p) ==
  LET s == Head(running[p])
  IN  /\ xfer[p] = None /\ running[p] # <<>> /\ s.t \in failureSet
      /\ running' = Step(running, p, Tail(running[p]))
      /\ tab' = ReleaseAll(tab, Dropped(p, s))
      /\ holder' = IF s.last THEN Step(holder, p, {}) ELSE holder
      /\ IF s.last THEN Done(s.t) ELSE UNCHANGED done
      /\ UNCHANGED <<data, disp, xfer, h2d, dev, dumpVars, backend, st, failureSet, waiting>>

(* Mutant of NodeReady: the owner does not wait for the backend.            *)
NodeReadyEarly(s) == IF s.own THEN bload[Id(s)].st # "fail" ELSE tab[s.node].st = "READY"

(* WaitBackendTaskReady: who started a backend load waits for it and        *)
(* settles the node, everybody else polls the node and the failure set.     *)
NodeReady(s) == IF s.own THEN bload[Id(s)].st = "ok" ELSE tab[s.node].st = "READY"
NodeFailed(s) == IF s.own THEN bload[Id(s)].st = "fail"
                 ELSE tab[s.node].st = "FAILED" \/ (tab[s.node].st = "LOADING" /\ s.t \in failureSet)

(* Mutant of Settle: MarkReady is forgotten.                                *)
SettleNotReady(tb, s, x) == IF s.own /\ x # "READY" THEN Mark(tb, s.node, x) ELSE tb
Settle(tb, s, x) == IF s.own THEN Mark(tb, s.node, x) ELSE tb

(* The node is ready and its copy to the device starts.                     *)
TransferCopy(p) ==
  LET s == xfer[p].s
  IN  /\ xfer[p] # None /\ xfer[p].stage = "wait" /\ NodeReady(s)
      /\ tab' = Settle(tab, s, "READY")
      /\ h2d' = h2d \cup {s}
      /\ IF s.last THEN xfer' = [xfer EXCEPT ![p].stage = "sync"] /\ UNCHANGED holder
         ELSE xfer' = Step(xfer, p, None) /\ holder' = Step(holder, p, holder[p] \cup {s})
      /\ UNCHANGED <<data, disp, running, dev, dumpVars, backend, api, waiting>>

(* The end of a shard in error: the latch opens if it was the last one, and *)
(* holder_ keeps the earlier shards.                                        *)
TransferFails(p, s, tb) ==
  /\ tab' = Release(tb, s.node)
  /\ Fails(s.t)
  /\ IF s.last THEN Done(s.t) ELSE UNCHANGED done
  /\ xfer' = Step(xfer, p, None)
  /\ UNCHANGED <<data, disp, running, h2d, dev, dumpVars, backend, st, waiting>>

TransferBackendFailed(p) ==
  LET s == xfer[p].s
  IN  /\ xfer[p] # None /\ xfer[p].stage = "wait" /\ NodeFailed(s)
      /\ TransferFails(p, s, Settle(tab, s, "FAILED"))
      /\ UNCHANGED holder

(* HostToDeviceAsync reports an error: no copy starts.                      *)
TransferCopyFails(p) ==
  LET s == xfer[p].s
  IN  /\ "device" \in Faults
      /\ xfer[p] # None /\ xfer[p].stage = "wait" /\ NodeReady(s)
      /\ TransferFails(p, s, Settle(tab, s, "READY"))
      /\ UNCHANGED holder

(* Mutant of Landed: the copies are not waited for.                         *)
LandedOrNot(p) == TRUE

(* Synchronize returns when every copy of the process has landed.           *)
Landed(p) == \A s \in h2d : ProcOf[s.t] # p

TransferSync(p) ==
  LET s == xfer[p].s
  IN  /\ xfer[p] # None /\ xfer[p].stage = "sync" /\ Landed(p)
      /\ tab' = ReleaseAll(tab, holder[p] \cup {s})
      /\ holder' = Step(holder, p, {})
      /\ xfer' = Step(xfer, p, None)
      /\ Done(s.t)
      /\ UNCHANGED <<data, disp, running, h2d, dev, dumpVars, backend, st, failureSet, waiting>>

(* Synchronize reports an error: holder_ is cleared all the same.           *)
TransferSyncFails(p) ==
  LET s == xfer[p].s
  IN  /\ "device" \in Faults
      /\ xfer[p] # None /\ xfer[p].stage = "sync"
      /\ TransferFails(p, s, ReleaseAll(tab, holder[p]))
      /\ holder' = Step(holder, p, {})

----------------------------------------------------------------------------
(* Dump thread: DispatchOneTask and DumpOneTask                             *)

DumpTake(p) ==
  LET t == Head(waiting["dump"][p])
  IN  /\ dump[p] = IdleDump /\ waiting["dump"][p] # <<>>
      /\ waiting' = [waiting EXCEPT !["dump"][p] = Tail(@)]
      /\ IF t \in failureSet THEN Done(t) /\ UNCHANGED dump
         ELSE dump' = Step(dump, p, [IdleDump EXCEPT !.t = t]) /\ UNCHANGED done
      /\ UNCHANGED <<buffer, loadVars, d2h, dumping, dumper, backend, st, failureSet>>

DumpsShard(p) == dump[p].t # None /\ dump[p].skip = {} /\ dump[p].i <= Len(KeysOf[dump[p].t])
NextKey(p) == KeysOf[dump[p].t][dump[p].i]
NextShard(p, n) == ShardTask(dump[p].t, dump[p].i, n, TRUE)

(* Somebody else references the node: it is left to them, and the Handle    *)
(* that was counted meanwhile is dropped.                                   *)
DumpFindsBusy(p) ==
  /\ DumpsShard(p)
  /\ \E r \in Get(NextKey(p), FALSE) :
       /\ ~r.own
       /\ tab' = r.tab
       /\ dump' = [dump EXCEPT ![p].skip = {NextShard(p, r.node)}]
  /\ UNCHANGED <<data, loadVars, d2h, dumping, dumper, backend, api, waiting>>

DumpSkips(p) ==
  /\ dump[p].skip # {}
  /\ tab' = ReleaseAll(tab, dump[p].skip)
  /\ dump' = [dump EXCEPT ![p].skip = {}, ![p].i = @ + 1]
  /\ UNCHANGED <<data, loadVars, d2h, dumping, dumper, backend, api, waiting>>

(* The owner copies the device into the node unless it is READY.            *)
DumpGet(p) ==
  /\ DumpsShard(p)
  /\ \E r \in Get(NextKey(p), FALSE) :
       /\ r.own
       /\ tab' = r.tab
       /\ d2h' = IF NeedsLoad(r) THEN d2h \cup {NextShard(p, r.node)} ELSE d2h
       /\ dump' = [dump EXCEPT ![p].i = @ + 1, ![p].held = @ \cup {NextShard(p, r.node)}]
  /\ UNCHANGED <<data, loadVars, dumping, dumper, backend, api, waiting>>

(* An error ends DumpOneTask: the Handles are dropped, nothing is marked.   *)
DumpFails(p, tb) ==
  /\ tab' = tb
  /\ Fails(dump[p].t) /\ Done(dump[p].t)
  /\ dump' = Step(dump, p, IdleDump)
  /\ UNCHANGED <<data, loadVars, d2h, dumping, dumper, backend, st, waiting>>

(* WaitEvent refuses the event that the device copies have to wait for.    *)
DumpEventFails(p) ==
  /\ "device" \in Faults
  /\ DumpsShard(p) /\ dump[p].i = 1
  /\ DumpFails(p, ReleaseAll(tab, dump[p].held))

(* A copy from the device is refused: the node just taken is dropped too.   *)
DumpCopyFails(p) ==
  /\ "device" \in Faults
  /\ DumpsShard(p)
  /\ \E r \in Get(NextKey(p), FALSE) :
       NeedsLoad(r) /\ DumpFails(p, ReleaseAll(r.tab, dump[p].held \cup {NextShard(p, r.node)}))

DumpsAll(p) == dump[p].t # None /\ dump[p].stage = "get" /\ dump[p].i > Len(KeysOf[dump[p].t])
MarkAll(tb, S) == [n \in Nodes |-> IF \E s \in S : s.node = n THEN Mark(tb, n, "READY")[n] ELSE tb[n]]

(* Mutant of NothingToDump: a single shard is left out.                     *)
AlmostNothing(S) == Cardinality(S) <= 1
NothingToDump(S) == S = {}

DumpNothing(p) ==
  /\ DumpsAll(p) /\ NothingToDump(dump[p].held)
  /\ Done(dump[p].t)
  /\ dump' = Step(dump, p, IdleDump)
  /\ UNCHANGED <<buffer, loadVars, d2h, dumping, dumper, backend, st, failureSet, waiting>>

(* Mutant of Synced: the copies are not waited for.                         *)
SyncedOrNot(p) == TRUE

(* Synchronize, MarkReady, then the backend dump of every node held.        *)
Synced(p) == \A s \in d2h : ProcOf[s.t] # p

DumpSubmit(p) ==
  /\ DumpsAll(p) /\ ~NothingToDump(dump[p].held) /\ Synced(p)
  /\ tab' = MarkAll(tab, dump[p].held)
  /\ bdump' = Step(bdump, dump[p].t, [st |-> "run", held |-> dump[p].held])
  /\ dump' = [dump EXCEPT ![p].stage = "push"]
  /\ UNCHANGED <<data, loadVars, d2h, dumping, dumper, disk, bload, api, waiting>>

DumpSyncFails(p) ==
  /\ "device" \in Faults
  /\ DumpsAll(p) /\ ~NothingToDump(dump[p].held)
  /\ DumpFails(p, ReleaseAll(tab, dump[p].held))

DumpRejected(p) ==
  /\ "submit" \in Faults
  /\ DumpsAll(p) /\ ~NothingToDump(dump[p].held) /\ Synced(p)
  /\ DumpFails(p, ReleaseAll(MarkAll(tab, dump[p].held), dump[p].held))

(* dumping_.Push waits for room; then the task is done for its caller.      *)
DumpPush(p) ==
  /\ dump[p].stage = "push" /\ HasRoom(dumping[p])
  /\ dumping' = Step(dumping, p, Append(dumping[p], dump[p].t))
  /\ Done(dump[p].t)
  /\ dump' = Step(dump, p, IdleDump)
  /\ UNCHANGED <<buffer, loadVars, d2h, dumper, backend, st, failureSet, waiting>>

(* BackendDumpStage: wait for the backend, then drop the Handles.  A        *)
(* failure is only logged.                                                  *)
DumperTake(p) ==
  /\ dumper[p] = None /\ dumping[p] # <<>>
  /\ dumper' = Step(dumper, p, Head(dumping[p]))
  /\ dumping' = Step(dumping, p, Tail(dumping[p]))
  /\ UNCHANGED <<buffer, loadVars, dump, d2h, backend, api, waiting>>

(* Mutant of Ended: the backend dump is not waited for.                     *)
EndedOrNot(t) == bdump[t].st # "none"
Ended(t) == bdump[t].st \in {"ok", "fail"}

DumperFinishes(p) ==
  /\ dumper[p] # None /\ Ended(dumper[p])
  /\ tab' = ReleaseAll(tab, bdump[dumper[p]].held)
  /\ dumper' = Step(dumper, p, None)
  /\ UNCHANGED <<data, loadVars, dump, d2h, dumping, backend, api, waiting>>

----------------------------------------------------------------------------
(* External: the backend store and the device's copy streams                *)

(* What the device holds for a dumped shard: the caller may reuse its       *)
(* memory once Wait has returned.                                           *)
Content(s) == IF st[s.t] \in {"run", "drain"} THEN KeyOf(s) ELSE None

BackendLoads(s) ==
  LET k == KeysOf[s[1]][s[2]]
  IN  /\ bload[s].st = "run" /\ disk[k] # None
      /\ data' = [data EXCEPT ![bload[s].node] = disk[k]]
      /\ bload' = [bload EXCEPT ![s].st = "ok"]
      /\ UNCHANGED <<tab, loadVars, dumpVars, disk, bdump, api, waiting>>

(* A load fails if the backend does not hold the key, or on an I/O error,   *)
(* which may leave part of the node overwritten.                            *)
BackendLoadFails(s) ==
  LET k == KeysOf[s[1]][s[2]]
  IN  /\ bload[s].st = "run"
      /\ \/ disk[k] = None /\ UNCHANGED data
         \/ "backend" \in Faults /\ data' = [data EXCEPT ![bload[s].node] = None]
      /\ bload' = [bload EXCEPT ![s].st = "fail"]
      /\ UNCHANGED <<tab, loadVars, dumpVars, disk, bdump, api, waiting>>

BackendDumps(t) ==
  LET held == bdump[t].held
  IN  /\ bdump[t].st = "run"
      /\ disk' = [k \in Keys |-> IF \E s \in held : KeyOf(s) = k
                                 THEN data[(CHOOSE s \in held : KeyOf(s) = k).node] ELSE disk[k]]
      /\ bdump' = [bdump EXCEPT ![t].st = "ok"]
      /\ UNCHANGED <<buffer, loadVars, dumpVars, bload, api, waiting>>

BackendDumpFails(t) ==
  /\ "backend" \in Faults /\ bdump[t].st = "run"
  /\ bdump' = [bdump EXCEPT ![t].st = "fail"]
  /\ UNCHANGED <<buffer, loadVars, dumpVars, disk, bload, api, waiting>>

CopyToDevice(s) ==
  /\ s \in h2d
  /\ dev' = Step(dev, Id(s), data[s.node])
  /\ h2d' = h2d \ {s}
  /\ UNCHANGED <<buffer, disp, running, xfer, holder, dumpVars, backend, api, waiting>>

CopyFromDevice(s) ==
  /\ s \in d2h
  /\ data' = Step(data, s.node, Content(s))
  /\ d2h' = d2h \ {s}
  /\ UNCHANGED <<tab, loadVars, dump, dumping, dumper, backend, api, waiting>>

----------------------------------------------------------------------------
Dispatcher(p) == DispatchTake(p) \/ DispatchGet(p) \/ DispatchRejected(p) \/ DispatchPush(p)
Transfer(p) == \/ TransferTake(p) \/ TransferSkip(p) \/ TransferCopy(p) \/ TransferBackendFailed(p)
               \/ TransferCopyFails(p) \/ TransferSync(p) \/ TransferSyncFails(p)
DumpThread(p) == \/ DumpTake(p) \/ DumpFindsBusy(p) \/ DumpSkips(p) \/ DumpGet(p) \/ DumpCopyFails(p)
                 \/ DumpEventFails(p) \/ DumpNothing(p) \/ DumpSubmit(p) \/ DumpSyncFails(p) \/ DumpRejected(p) \/ DumpPush(p)
Dumper(p) == DumperTake(p) \/ DumperFinishes(p)
BackendStep(s) == BackendLoads(s) \/ BackendLoadFails(s)
BackendDumpStep(t) == BackendDumps(t) \/ BackendDumpFails(t)
Copies == (\E s \in h2d : CopyToDevice(s)) \/ (\E s \in d2h : CopyFromDevice(s))

Next ==
  /\ \/ \E t \in Tasks : Submit(t) \/ WaitReturns(t) \/ WaitExpires(t) \/ BackendDumpStep(t)
     \/ \E p \in Procs : Dispatcher(p) \/ Transfer(p) \/ DumpThread(p) \/ Dumper(p)
     \/ \E s \in Shards : BackendStep(s)
     \/ Copies
  /\ UNCHANGED sc

Spec == Init /\ [][Next]_vars

(* Every thread keeps running, the caller waits for what it submitted, the  *)
(* backend answers, copies land and timers fire.                            *)
Fairness ==
  /\ \A p \in Procs : WF_store(Dispatcher(p)) /\ WF_store(Transfer(p))
                      /\ WF_store(DumpThread(p)) /\ WF_store(Dumper(p))
  /\ \A t \in Tasks : WF_store(WaitReturns(t)) /\ WF_store(WaitExpires(t)) /\ WF_store(BackendDumpStep(t))
  /\ \A s \in Shards : WF_store(BackendStep(s))
  /\ WF_store(Copies)

FairSpec == Spec /\ Fairness

----------------------------------------------------------------------------
(* Properties                                                               *)

(* A load whose Wait reports success has put every shard it asked for on    *)
(* the device, through whichever process loaded the node.                   *)
LoadCorrect ==
  \A t \in Loads : st[t] = "ok" =>
    \A i \in 1 .. Len(KeysOf[t]) : dev[<<t, i>>] = KeysOf[t][i]

(* Nothing fails, no Wait times out and loads ask for what the backend has. *)
Faultless == Faults = {} /\ \A t \in Loads : \A i \in 1 .. Len(KeysOf[t]) : KeysOf[t][i] \in OnDisk

(* A READY node holds the content of its key, so a cache hit is never       *)
(* stale.                                                                   *)
CacheCoherent == \A n \in Nodes : tab[n].st = "READY" => data[n] = tab[n].key

(* Without faults, and although the backend rejects and fails loads and     *)
(* dumps of tasks of one shard, loads and hits are right: only a longer     *)
(* task may leave a backend load behind.                                    *)
Tolerated == Faultless \/ (Faults \subseteq {"backend", "submit"} /\ \A t \in Tasks : Len(KeysOf[t]) <= 1)
FaultsStayLocal == Tolerated => LoadCorrect /\ CacheCoherent

(* The backend never stores the content of another key: a dump hands its    *)
(* node down only after the copies from the device have landed.             *)
DiskCorrect == Faultless => \A k \in Keys : disk[k] \in {None, k}

(* No copy is in flight for a task whose Wait has returned: the caller owns *)
(* its device memory again.                                                 *)
NoCopyAfterReturn == Faultless => \A s \in h2d \cup d2h : st[s.t] \in {"run", "drain"}

(* A node that may be reused holds nothing the backend does not have: a     *)
(* dumped node stays pinned until the backend dump has ended.               *)
EvictionSafe ==
  Faultless => \A n \in Nodes : (tab[n].st = "READY" /\ tab[n].ref = 0) => disk[tab[n].key] = tab[n].key

(* Every reference a node counts is a Handle that some stage still holds:   *)
(* no error path drops a Handle twice or forgets one.                       *)
LiveShards(p) ==
  {running[p][i] : i \in 1 .. Len(running[p])} \cup holder[p] \cup dump[p].held \cup dump[p].skip
    \cup (IF disp[p].out = None THEN {} ELSE {disp[p].out})
    \cup (IF xfer[p] = None THEN {} ELSE {xfer[p].s})
    \cup UNION {bdump[t].held : t \in {dumping[p][i] : i \in 1 .. Len(dumping[p])} \cup ({dumper[p]} \ {None})}
HandlesCounted ==
  \A n \in Nodes :
    tab[n].ref = Cardinality({s \in UNION {LiveShards(p) : p \in Procs} : s.node = n})

(* Every Wait returns: stages of one process and owners and readers of      *)
(* different processes never wait for each other in a circle.  A task is    *)
(* submitted once, so it suffices that again and again nobody waits.        *)
EveryWaitReturns == []<>(\A t \in Tasks : st[t] \in {"new", "ok", "failed", "timeout"})

(* A dump whose Wait reports success reaches the backend, unless something  *)
(* fails; what the backend has it keeps.                                    *)
DumpDurable ==
  []<>(Faultless => \A t \in Dumps : st[t] = "ok" => \A i \in 1 .. Len(KeysOf[t]) : disk[KeysOf[t][i]] # None)
=============================================================================
