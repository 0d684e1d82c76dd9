----------------------------- MODULE CpuAffinity -----------------------------
(***************************************************************************)
(* Which cores a worker and the threads of its store run on.  Every rank   *)
(* asks its Device for the cores near its accelerator (get_cpu_affinity),  *)
(* splits each run of them between worker and store (split_cores), starts  *)
(* the store and binds itself.  The connectors ask CUDA devices only; the  *)
(* answer of an NPU is modelled as the interface offers it.  On Ascend the *)
(* engine's own CpuAlloc, as patched, divides the cores of an NPU into     *)
(* worker, UCM, ACL and release cores instead.                             *)
(*                                                                         *)
(* A machine is a map of cores to NUMA nodes and of nodes to sockets; a    *)
(* cpulist is a sequence of runs <<first, last>>.  Tools that fail         *)
(* (npu-smi, lspci, lscpu, sysfs) are a set of the setup.                  *)
(***************************************************************************)
EXTENDS Integers, Sequences, FiniteSetsExt, SequencesExt

CONSTANT CpuSetups

VARIABLES qcfg,    \* machine, devices, failing tools
          qaff,    \* rank -> the cpulist it was given, or NoList
          qsplit,  \* rank -> its worker and its store cores
          qbound,  \* rank -> the cores its process is bound to
          qroles,  \* rank -> what CpuAlloc assigned to its NPU
          qpc
qvars == <<qcfg, qaff, qsplit, qbound, qroles, qpc>>

NoList == <<>>
CpuRanks == 0..(qcfg.ranks - 1)
Sorted(S) == [i \in 1..Cardinality(S) |-> CHOOSE c \in S : Cardinality({d \in S : d < c}) = i - 1]
NodeCores(n) == {c \in DOMAIN qcfg.node : qcfg.node[c] = n}
Works(tool) == tool \notin qcfg.broken

----------------------------------------------------------------------------
(* cpulists *)

\* _to_cpulist_str: the maximal runs of a set of cores.
ToCpulist(cores) ==
  LET starts == Sorted({c \in cores : c - 1 \notin cores})
      EndOf(a) == CHOOSE b \in cores : b >= a /\ a..b \subseteq cores /\ b + 1 \notin cores
  IN  [i \in DOMAIN starts |-> <<starts[i], EndOf(starts[i])>>]
CoresOf(list) == UNION {list[i][1]..list[i][2] : i \in DOMAIN list}

\* Mutant: the first ranks do not shift the later ones by their extra core.
CoreSliceUnshifted(cores, rank, total) ==
  LET base == Len(cores) \div total
      len  == base + (IF rank < Len(cores) % total THEN 1 ELSE 0)
  IN  SubSeq(cores, rank * base + 1, rank * base + len)
\* The share of a rank when the cores are cut into one slice per device.
CoreSlice(cores, rank, total) ==
  LET base  == Len(cores) \div total
      extra == Len(cores) % total
      start == rank * base + (IF rank < extra THEN rank ELSE extra)
      len   == base + (IF rank < extra THEN 1 ELSE 0)
  IN  SubSeq(cores, start + 1, start + len)

\* _fallback_cpu_affinity
TotalDevices == IF qcfg.visible # <<>> THEN Len(qcfg.visible) ELSE qcfg.devices
Fallback(r) ==
  IF r >= TotalDevices THEN NoList
  ELSE ToCpulist(ToSet(CoreSlice(Sorted(qcfg.allowed), r, TotalDevices)))

----------------------------------------------------------------------------
(* get_cpu_affinity *)

\* CUDA: the cores of the NUMA node of the GPU's PCI address.
CudaAffinity(r) ==
  IF Works("sysfs") /\ qcfg.numa[r + 1] >= 0 THEN ToCpulist(NodeCores(qcfg.numa[r + 1])) ELSE Fallback(r)

\* The device behind a local rank, from the visible devices.
DeviceId(r) == IF r < Len(qcfg.visible) THEN qcfg.visible[r + 1] ELSE r
\* _get_device_map_info: the devices npu-smi lists.
MappedDevices == IF Works("npu-smi") THEN 0..(Len(qcfg.numa) - 1) ELSE {}
VisibleDevices == IF qcfg.visible # <<>> THEN qcfg.visible ELSE Sorted(MappedDevices)
\* _get_pcie_info and _get_numa_info: sysfs first, lspci if it does not say.
RealNuma(d) ==
  IF Works("board") /\ (Works("sysfs") \/ Works("lspci")) THEN qcfg.numa[d + 1] ELSE -1
\* _get_numa_info_v2: the visible devices spread evenly over the nodes.
EvenNuma(d) ==
  LET nodes == Cardinality(Range(qcfg.node))
      share == Len(VisibleDevices) \div nodes
      tail  == Len(VisibleDevices) % nodes
      End(n) == (n + 1) * share + (IF n + 1 < tail THEN n + 1 ELSE tail)
      pos   == CHOOSE i \in DOMAIN VisibleDevices : VisibleDevices[i] = d
  IN  CHOOSE n \in 0..(nodes - 1) : pos <= End(n) /\ \A k \in 0..(n - 1) : pos > End(k)
KnowsNuma == \E d \in ToSet(VisibleDevices) \intersect MappedDevices : RealNuma(d) >= 0
NumaOf(d) ==
  IF KnowsNuma THEN RealNuma(d) ELSE IF d \in ToSet(VisibleDevices) THEN EvenNuma(d) ELSE -1
\* _get_node_socket_map and _get_cpu_info: the cores of each node of the socket.
SocketNodes(n) == {k \in Range(qcfg.node) : qcfg.socket[k] = qcfg.socket[n]}
SocketCpulist(n) == FlattenSeq([i \in 1..Cardinality(SocketNodes(n)) |->
                                  ToCpulist(NodeCores(Sorted(SocketNodes(n))[i]))])
NpuAffinity(r) ==
  LET d == DeviceId(r) IN
  IF d \notin MappedDevices THEN Fallback(r)
  ELSE IF NumaOf(d) < 0 \/ ~Works("lscpu") THEN Fallback(r)
  ELSE SocketCpulist(NumaOf(d))

----------------------------------------------------------------------------
(* split_cores: each run is halved, the worker first. *)

Half(n) == IF n \div 2 > 1 THEN n \div 2 ELSE 1
WorkerPart(run) == run[1]..(run[1] + Half(run[2] - run[1] + 1) - 1)
StorePart(run)  == (run[1] + Half(run[2] - run[1] + 1))..run[2]
SplitCores(list) ==
  [worker |-> UNION {WorkerPart(list[i]) : i \in DOMAIN list},
   store  |-> UNION {StorePart(list[i]) : i \in DOMAIN list}]

----------------------------------------------------------------------------
(* The patched CpuAlloc of vllm-ascend. *)

\* _split_contiguous_halves: as above, but never without a UCM core if there are two.
ContiguousHalves(cores) ==
  LET both   == SplitCores(ToCpulist(cores))
      sorted == Sorted(cores)
      middle == Half(Len(sorted))
  IN  IF Cardinality(cores) < 2 THEN [worker |-> cores, store |-> {}]
      ELSE IF both.store # {} THEN both
      ELSE [worker |-> ToSet(SubSeq(sorted, 1, middle)),
            store |-> ToSet(SubSeq(sorted, middle + 1, Len(sorted)))]
\* assign_cpu_roles
CpuRoles(main, acl, rel) ==
  LET halves == ContiguousHalves(main) IN
  IF qcfg.affinity
  THEN [main |-> IF halves.store # {} THEN halves.worker ELSE main, ucm |-> halves.store, acl |-> acl, rel |-> rel]
  ELSE [main |-> main, ucm |-> {}, acl |-> acl, rel |-> rel]
\* allocate: two cores at each end of the pool are set apart, in 0.22.1 and
\* later the first two only if the driver wants them for its interrupts; an
\* Ascend 950 gives its whole cluster to worker and UCM.
MainCores(pool) ==
  SubSeq(pool, IF qcfg.irq THEN 3 ELSE 1, Len(pool) - 2)
AllocatedRoles(pool) ==
  IF qcfg.a950 THEN CpuRoles(ToSet(pool), {}, {})
  ELSE CpuRoles(ToSet(MainCores(pool)), {pool[Len(pool) - 1]}, {pool[Len(pool)]})
\* The engine gives every NPU its slice of the pool.
CpuPool(r) == CoreSlice(Sorted(qcfg.pool), r, qcfg.ranks)
NoRoles == [main |-> {}, ucm |-> {}, acl |-> {}, rel |-> {}]

----------------------------------------------------------------------------
CpuInit ==
  /\ qcfg \in CpuSetups
  /\ qaff = [r \in 0..(qcfg.ranks - 1) |-> NoList]
  /\ qsplit = [r \in 0..(qcfg.ranks - 1) |-> [worker |-> {}, store |-> {}]]
  /\ qbound = [r \in 0..(qcfg.ranks - 1) |-> {}]
  /\ qroles = [r \in 0..(qcfg.ranks - 1) |-> NoRoles]
  /\ qpc = [r \in 0..(qcfg.ranks - 1) |-> IF qcfg.via = "alloc" THEN "allocate" ELSE "ask"]

AskCuda(r) ==
  /\ qpc[r] = "ask" /\ qcfg.via = "cuda"
  /\ qaff' = [qaff EXCEPT ![r] = CudaAffinity(r)]
  /\ qpc' = [qpc EXCEPT ![r] = "split"]
  /\ UNCHANGED <<qcfg, qsplit, qbound, qroles>>
AskNpu(r) ==
  /\ qpc[r] = "ask" /\ qcfg.via = "npu"
  /\ qaff' = [qaff EXCEPT ![r] = NpuAffinity(r)]
  /\ qpc' = [qpc EXCEPT ![r] = "split"]
  /\ UNCHANGED <<qcfg, qsplit, qbound, qroles>>
\* split_cores, and the store created with the store cores.
Split(r) ==
  /\ qpc[r] = "split"
  /\ qsplit' = [qsplit EXCEPT ![r] = SplitCores(qaff[r])]
  /\ qpc' = [qpc EXCEPT ![r] = "bind"]
  /\ UNCHANGED <<qcfg, qaff, qbound, qroles>>
\* The worker binds itself; cores it may not use are left out by the system,
\* and if none is left the refusal is only logged.
Bind(r) ==
  LET cores == qsplit[r].worker \intersect qcfg.allowed IN
  /\ qpc[r] = "bind"
  /\ qbound' = [qbound EXCEPT ![r] = IF cores = {} THEN qcfg.allowed ELSE cores]
  /\ qpc' = [qpc EXCEPT ![r] = "done"]
  /\ UNCHANGED <<qcfg, qaff, qsplit, qroles>>

\* CpuAlloc.allocate raises if the pool of an NPU is too small.
RolesRefused(r) ==
  /\ qpc[r] = "allocate" /\ ~qcfg.a950
  /\ Len(CpuPool(r)) < qcfg.least
  /\ qpc' = [qpc EXCEPT ![r] = "raised"]
  /\ UNCHANGED <<qcfg, qaff, qsplit, qbound, qroles>>
AllocateRoles(r) ==
  /\ qpc[r] = "allocate"
  /\ qcfg.a950 \/ Len(CpuPool(r)) >= qcfg.least
  /\ qroles' = [qroles EXCEPT ![r] = AllocatedRoles(CpuPool(r))]
  /\ qpc' = [qpc EXCEPT ![r] = "threads"]
  /\ UNCHANGED <<qcfg, qaff, qsplit, qbound>>
\* bind_threads: the process, then the store's threads that exist by now.
BindThreads(r) ==
  LET roles == qroles[r] IN
  /\ qpc[r] = "threads"
  /\ qbound' = [qbound EXCEPT ![r] = roles.main]
  /\ qsplit' = [qsplit EXCEPT ![r] =
                  [worker |-> roles.main,
                   store |-> IF qcfg.affinity /\ roles.ucm # {} THEN roles.ucm ELSE roles.main]]
  /\ qpc' = [qpc EXCEPT ![r] = "done"]
  /\ UNCHANGED <<qcfg, qaff, qroles>>
CpuDone == (\A r \in CpuRanks : qpc[r] \in {"done", "raised"}) /\ UNCHANGED qvars

CpuNext ==
  \/ \E r \in CpuRanks : AskCuda(r)
  \/ \E r \in CpuRanks : AskNpu(r)
  \/ \E r \in CpuRanks : Split(r)
  \/ \E r \in CpuRanks : Bind(r)
  \/ \E r \in CpuRanks : RolesRefused(r)
  \/ \E r \in CpuRanks : AllocateRoles(r)
  \/ \E r \in CpuRanks : BindThreads(r)
  \/ CpuDone
CpuSpec == CpuInit /\ [][CpuNext]_qvars

----------------------------------------------------------------------------
Divided == {r \in CpuRanks : qpc[r] \in {"bind", "done"} /\ qcfg.via # "alloc"}

\* A split gives every core near the device to the worker or to the store,
\* none to both, and the worker is never left without one.
SplitExact ==
  \A r \in Divided :
    /\ qsplit[r].worker \intersect qsplit[r].store = {}
    /\ qsplit[r].worker \union qsplit[r].store = CoresOf(qaff[r])
    /\ qaff[r] # NoList => qsplit[r].worker # {}
\* Ranks that fell back to slices of the allowed cores share none of them,
\* and leave none unused.
SlicesApart ==
  ~(Works("sysfs") \/ Works("npu-smi")) /\ qcfg.via # "alloc" =>
    /\ \A r, s \in Divided : r # s => CoresOf(qaff[r]) \intersect CoresOf(qaff[s]) = {}
    /\ (Divided = CpuRanks /\ TotalDevices = qcfg.ranks) =>
         UNION {CoresOf(qaff[r]) : r \in CpuRanks} = qcfg.allowed
\* A rank whose device names its NUMA node is given all cores of that node.
NearDevice ==
  \A r \in Divided :
    LET d == IF qcfg.via = "npu" THEN DeviceId(r) ELSE r
        n == IF d < Len(qcfg.numa) THEN qcfg.numa[d + 1] ELSE -1
    IN  n >= 0 /\ qcfg.broken = {} => NodeCores(n) \subseteq CoresOf(qaff[r])
\* The roles of an NPU are disjoint parts of its pool; with affinity on, the
\* threads of the store leave the worker its own cores.
RolesApart ==
  \A r \in CpuRanks : qpc[r] \in {"threads", "done"} /\ qcfg.via = "alloc" =>
    LET a == qroles[r] IN
    /\ a.main # {} /\ a.main \intersect a.ucm = {}
    /\ (a.main \union a.ucm) \intersect (a.acl \union a.rel) = {} /\ a.acl \intersect a.rel = {}
    /\ a.main \union a.ucm \union a.acl \union a.rel \subseteq ToSet(CpuPool(r))
    /\ (qpc[r] = "done" /\ qcfg.affinity /\ Cardinality(a.main) > 1) =>
         qsplit[r].worker \intersect qsplit[r].store = {}

(* CoresRight: split_cores and the patched CpuAlloc divide the cores of a  *)
(* rank without overlap or loss, wherever the cores were found.            *)
CoresRight == qpc # <<>> => SplitExact /\ SlicesApart /\ NearDevice /\ RolesApart
=============================================================================
