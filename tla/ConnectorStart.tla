--------------------------- MODULE ConnectorStart ---------------------------
(***************************************************************************)
(* How the processes of an engine come to talk about the same store:       *)
(* UCMConnector.__init__ picks one of eight connectors in every worker and *)
(* in the scheduler, the workers agree on a unique id and leave it in a    *)
(* file that the scheduler reads, and each process creates its own store   *)
(* objects (integration/vllm/ucm_connector.py, hla_connector.py and        *)
(* hma_connector.py).  The last part has the two connectors that only      *)
(* watch: UCMMockConnector and UCMLiteConnector.                           *)
(*                                                                         *)
(* Processes are <<"sched", e>> and <<"work", e, r>> for engine e and rank *)
(* r.  The engine (external) starts its scheduler when its workers have    *)
(* registered their caches.  A start-up takes less than the ten minutes    *)
(* after which files are removed.                                          *)
(***************************************************************************)
EXTENDS ConnectorMeta, SequencesExt, TLC

CONSTANT StartSetups

VARIABLES ucfg,    \* setup: configuration, groups of the KV cache, processes, files left behind
          uproc,   \* process -> pc, connector class, unique id, hash block size, stores
          uid,     \* world group -> unique id that its rank 0 broadcasts
          ufiles,  \* pid -> unique id and age of the file /dev/shm/ucm_uniqueid_<pid>
          uask,    \* the last answer of a mock or lite connector and what it will load
          umetas   \* requests_meta of the lite connector, and the live requests

uvars == <<ucfg, uproc, uid, ufiles, uask, umetas>>

Engines == 1..ucfg.dp
Ranks   == 0..(ucfg.tp - 1)
Workers(e) == {<<"work", e, r>> : r \in Ranks}
Procs   == UNION {Workers(e) \union {<<"sched", e>>} : e \in Engines}
IsSched(p) == p[1] = "sched"

\* The world group spans the engines of one instance, or each engine is an instance.
Group(e) == IF ucfg.spans THEN 1 ELSE e

\* Process ids: the workers are children of the engine's process, or run in it.
Api(e)  == <<"api", Group(e)>>
Core(e) == <<"core", e>>
ParentOfWorker(e) == IF ucfg.multi THEN Core(e) ELSE Api(e)

NoUid  == <<"none", 0>>
NoProc == [pc |-> "none", cls |-> "none", uid |-> NoUid, hbs |-> 0, stores |-> {}]
NoAsk  == [tokens |-> 0, loads |-> 0, n |-> 0]

StartInit ==
  /\ ucfg \in StartSetups
  /\ uproc = [p \in Procs |-> NoProc]
  /\ uid = [g \in 1..ucfg.dp |-> NoUid]
  /\ ufiles = ucfg.files
  /\ uask = NoAsk /\ umetas = [meta |-> {}, live |-> {}]

----------------------------------------------------------------------------
(* The choice of a connector.  A group of the KV cache gives its representative spec. *)

Specs == {ucfg.groups[i].spec : i \in DOMAIN ucfg.groups}

\* can_handle_kv_cache_config: window groups of multi-head latent attention.
AscendWindow == "AscendSlidingWindowMLASpec" \in Specs
FawaHandles  == "SlidingWindowMLASpec" \in Specs \/ AscendWindow

\* layer_name_to_kv_cache_spec: the specs of the layers that share a raw tensor.
SharedSpecs(t) == {ucfg.groups[i].spec : i \in t}
\* supports_kv_cache_layout: a raw tensor shared by attention and aligned state.
HlaSupports ==
  /\ ucfg.platform \in {"cuda", "npu"}
  /\ \E t \in ucfg.tensors : {"FullAttentionSpec", "MambaAlignSpec"} \subseteq SharedSpecs(t)

\* UCMConnector.__init__; a state-space model is served layer by layer unless it is
\* switched off.
Chosen ==
  IF ucfg.lite THEN "lite"
  ELSE IF ucfg.pp > 1 /\ ~ucfg.lw THEN "raises"
  ELSE IF FawaHandles THEN "fawa"
  ELSE IF ucfg.ratio # <<>> THEN "mock"
  ELSE IF ucfg.cp > 1 THEN "cp"
  ELSE IF HlaSupports THEN IF ucfg.lw /\ ucfg.lwHybrid THEN "hla_lw" ELSE "hla"
  ELSE IF ucfg.lw THEN "layerwise" ELSE "direct"
Hybrid == Chosen \in {"hla", "hla_lw"}

\* cache_config.block_size: the scheduler's is lowered to that of the smallest group.
CacheBlockSize(p) ==
  IF IsSched(p) /\ ucfg.groups # <<>> THEN Min({ucfg.groups[i].bs : i \in DOMAIN ucfg.groups})
  ELSE ucfg.base

C4 == 4
\* _get_ascend_base_block_size: the block size of the full-attention group of ratio 4.
AscendBase ==
  {ucfg.groups[i].bs : i \in {i \in DOMAIN ucfg.groups : ~ucfg.groups[i].window /\ ucfg.groups[i].ratio = C4}}
AscendRaises == Cardinality(AscendBase) # 1 \/ ~(AscendBase \subseteq {32, 64, 128})

GroupsLcm == Min({k \in 1..512 : \A i \in DOMAIN ucfg.groups : k % ucfg.groups[i].bs = 0})

\* Mutant of HashBlock: the process's own block size is taken where the group's should be.
HashBlockOwn(p) ==
  IF Chosen = "fawa" THEN IF AscendWindow THEN CacheBlockSize(p) * C4 ELSE 256
  ELSE IF Hybrid /\ IsSched(p) THEN GroupsLcm ELSE CacheBlockSize(p)

\* The tokens under one key.  The state-space connector takes the least common multiple of
\* its groups in the scheduler, which alone hashes.
HashBlock(p) ==
  IF Chosen = "fawa" THEN IF AscendWindow THEN Min(AscendBase) * C4 ELSE 256
  ELSE IF Hybrid /\ IsSched(p) THEN GroupsLcm ELSE CacheBlockSize(p)

\* _init_group_metas refuses groups whose largest block is no multiple of the hash block.
MetasRaise(p) ==
  LET span(i) == ucfg.groups[i].bs * (IF AscendWindow THEN ucfg.groups[i].ratio ELSE 1)
  IN  (AscendWindow /\ AscendRaises) \/ Max({span(i) : i \in DOMAIN ucfg.groups}) % HashBlock(p) # 0

Raises(p) == Chosen = "raises" \/ (Chosen = "fawa" /\ MetasRaise(p))

----------------------------------------------------------------------------
(* Stores. *)

\* _set_default_shm_buffer_capacity: 128 GB, half of it for each store of FAWA.
Capacity(parts) == IF ucfg.share THEN 128 \div parts ELSE 0

\* posix_gc_enable of a process.
Collects(p) == IsSched(p) /\ p[2] = 1

\* _create_fa_store and _create_wa_store through _base_store_config: ids and directories
\* with a suffix of their own.
FawaStore(p, id, suffix) ==
  [id |-> <<id, suffix>>, dir |-> <<"fawa", suffix>>, gc |-> Collects(p), cap |-> Capacity(2)]

DirectStore(p, id) == [id |-> <<id, "">>, dir |-> <<"", "">>, gc |-> Collects(p), cap |-> Capacity(1)]

StoresOf(p, id) ==
  CASE Chosen = "lite" -> {}
    [] Chosen = "fawa" -> {FawaStore(p, id, "fa"), FawaStore(p, id, "wa")}
    [] OTHER           -> {DirectStore(p, id)}

----------------------------------------------------------------------------
(* Start-up. *)

\* Only shared buffers need an id that no other instance has.
NeedsUid == ucfg.share /\ Chosen # "lite"

\* _worker_generate_unique_id on rank 0 of a world group: old files are removed, a new id
\* is broadcast.
MakeUid ==
  \E g \in {Group(e) : e \in Engines} :
    /\ NeedsUid /\ uid[g] = NoUid
    /\ uid' = [uid EXCEPT ![g] = <<"uuid", g>>]
    /\ ufiles' = [k \in {k \in DOMAIN ufiles : ufiles[k].age = "young"} |-> ufiles[k]]
    /\ UNCHANGED <<ucfg, uproc, uask, umetas>>

\* A worker constructs its connector: it writes the id that it received to the file of
\* its parent, atomically.
WorkerBuilds ==
  \E e \in Engines : \E p \in Workers(e) :
    /\ uproc[p].pc = "none" /\ (NeedsUid => uid[Group(e)] # NoUid)
    /\ IF Raises(p)
       THEN /\ uproc' = [uproc EXCEPT ![p].pc = "raised"]
            /\ UNCHANGED ufiles
       ELSE /\ uproc' = [uproc EXCEPT ![p] = [NoProc EXCEPT !.pc = "built", !.cls = Chosen, !.hbs = HashBlock(p),
                                                !.uid = IF NeedsUid THEN uid[Group(e)] ELSE <<"engine", Group(e)>>]]
            /\ ufiles' = IF NeedsUid
                         THEN (ParentOfWorker(e) :> [id |-> uid[Group(e)], age |-> "young"]) @@ ufiles
                         ELSE ufiles
    /\ UNCHANGED <<ucfg, uid, uask, umetas>>

\* register_kv_caches: the worker creates its stores.
WorkerRegisters ==
  \E p \in Procs :
    /\ ~IsSched(p) /\ uproc[p].pc = "built"
    /\ uproc' = [uproc EXCEPT ![p].pc = "ready", ![p].stores = StoresOf(p, uproc[p].uid)]
    /\ UNCHANGED <<ucfg, uid, ufiles, uask, umetas>>

\* _scheduler_read_unique_id: the file of the own process, then the parent's.
FoundUid(e) ==
  IF ~NeedsUid THEN <<"engine", Group(e)>>
  ELSE IF Core(e) \in DOMAIN ufiles THEN ufiles[Core(e)].id
  ELSE IF Api(e) \in DOMAIN ufiles THEN ufiles[Api(e)].id ELSE NoUid

\* The scheduler constructs its connector and its stores.
SchedulerBuilds ==
  \E e \in Engines : LET p == <<"sched", e>> IN
    /\ uproc[p].pc = "none" /\ \A w \in Workers(e) : uproc[w].pc = "ready"
    /\ uproc' = [uproc EXCEPT ![p] =
                   IF Raises(p) \/ FoundUid(e) = NoUid THEN [NoProc EXCEPT !.pc = "raised"]
                   ELSE [pc |-> "ready", cls |-> Chosen, uid |-> FoundUid(e), hbs |-> HashBlock(p),
                         stores |-> StoresOf(p, FoundUid(e))]]
    /\ UNCHANGED <<ucfg, uid, ufiles, uask, umetas>>

\* Ten minutes pass while no engine is between its workers' file and its scheduler.
FilesAge ==
  /\ ufiles # <<>> /\ \A e \in Engines : uproc[<<"sched", e>>].pc # "none" \/
                                         \A w \in Workers(e) : uproc[w].pc = "none"
  /\ ufiles' = [k \in DOMAIN ufiles |-> [ufiles[k] EXCEPT !.age = "old"]]
  /\ UNCHANGED <<ucfg, uproc, uid, uask, umetas>>

----------------------------------------------------------------------------
(* The connectors that watch. *)

Ready(e) == uproc[<<"sched", e>>].pc = "ready"

\* UCMMockConnector.get_num_new_matched_tokens for n prompt tokens with hbm blocks in
\* device memory and ext in the store: at most ratio of the prompt is hit.
MockMatched(n, hbm, ext) ==
  LET c    == [hbs |-> ucfg.base, cp |-> 1, lw |-> FALSE, spec |-> 0]
      hit  == HitTokens(c, n, hbm, ext)
      most == (n * ucfg.ratio[1]) \div ucfg.ratio[2]
      blks == most \div ucfg.base
      meta == NewMeta(c, n, hbm, ext)
  IN  IF hit <= most THEN [tokens |-> hit, loads |-> meta.total - meta.hbm, n |-> n]
      ELSE [tokens |-> blks * ucfg.base, loads |-> blks - Min({blks, meta.hbm}), n |-> n]

MockAsked ==
  /\ Chosen = "mock" /\ Ready(1)
  /\ \E n \in ucfg.prompts, hbm \in ucfg.local : \E ext \in 1..((n \div ucfg.base) - hbm) :
       uask' = MockMatched(n, hbm, ext)
  /\ UNCHANGED <<ucfg, uproc, uid, ufiles, umetas>>

\* UCMLiteConnector: a request of at least a block is hashed and remembered once; there
\* are no hits and no transfers.
LiteHashes(n) == NumHashes([hbs |-> ucfg.base], n)

LiteAsked ==
  /\ Chosen = "lite" /\ Ready(1)
  /\ \E r \in ucfg.requests, n \in ucfg.prompts :
       LET known == \E x \in umetas.meta : x[1] = r
       IN  umetas' = [live |-> umetas.live \union {r},
                      meta |-> IF LiteHashes(n) < 1 \/ known THEN umetas.meta
                               ELSE umetas.meta \union {<<r, LiteHashes(n)>>}]
  /\ UNCHANGED <<ucfg, uproc, uid, ufiles, uask>>

\* request_finished, or the finished requests of the next step.
LiteFinished ==
  /\ \E r \in umetas.live : umetas' = [live |-> umetas.live \ {r}, meta |-> {x \in umetas.meta : x[1] # r}]
  /\ UNCHANGED <<ucfg, uproc, uid, ufiles, uask>>

StartDone ==
  /\ \A e \in Engines : Ready(e) \/ \E p \in Workers(e) \union {<<"sched", e>>} : uproc[p].pc = "raised"
  /\ UNCHANGED uvars

StartNext == \/ MakeUid \/ WorkerBuilds \/ WorkerRegisters \/ SchedulerBuilds \/ FilesAge
             \/ MockAsked \/ LiteAsked \/ LiteFinished \/ StartDone
StartSpec == StartInit /\ [][StartNext]_uvars

----------------------------------------------------------------------------
(* Properties. *)

Names(p) == {<<s.id, s.dir>> : s \in uproc[p].stores}

\* A started engine is of one mind: its scheduler and its workers have the same connector
\* and the same blocks under a key, and their stores are the same, so that a hit the
\* scheduler finds is what the workers load.
StartAgrees ==
  \A e \in Engines : Ready(e) =>
    \A w \in Workers(e) : /\ uproc[w].cls = uproc[<<"sched", e>>].cls
                          /\ Hybrid \/ uproc[w].hbs = uproc[<<"sched", e>>].hbs
                          /\ Names(w) = Names(<<"sched", e>>)

\* No scheduler misses the file of its workers, whatever files are around.
StartFinds == \A e \in Engines : (uproc[<<"sched", e>>].pc = "raised") => Raises(<<"sched", e>>)

\* Stores of one process share neither name nor directory; instances with shared buffers
\* share no name; a store's directory is collected by one process of an instance at most; the
\* shared buffers of a process take 128 GB by default.
StoresApart ==
  /\ \A p \in Procs : \A s, t \in uproc[p].stores : s # t => s.id # t.id /\ s.dir # t.dir
  /\ \A p, q \in Procs : (ucfg.share /\ Group(p[2]) # Group(q[2])) =>
       {s.id : s \in uproc[p].stores} \intersect {s.id : s \in uproc[q].stores} = {}
  /\ ucfg.spans =>
       \A d \in UNION {{s.dir : s \in uproc[p].stores} : p \in Procs} :
         Cardinality({p \in Procs : \E s \in uproc[p].stores : s.dir = d /\ s.gc}) <= 1
  /\ \A p \in Procs : MapThenSumSet(LAMBDA s : s.cap, uproc[p].stores) <= 128

\* The lite connector remembers no request that is gone.
LiteRemembersLive == \A x \in umetas.meta : x[1] \in umetas.live

StartRight == uproc # <<>> => StartAgrees /\ StartFinds /\ StoresApart /\ LiteRemembersLive
=============================================================================
