---------------------------- MODULE UcmConnector ----------------------------
(***************************************************************************)
(* The vLLM connector (integration/vllm/ucm_connector.py): one scheduler   *)
(* role and one worker role per rank, around the engine's step loop        *)
(*                                                                         *)
(*   schedule -> build_connector_meta -> on every rank: preemptions, load, *)
(*   forward, save, get_finished -> update_from_output                     *)
(*                                                                         *)
(* with dumps that go on while later steps run.  UCMDirectConnector moves  *)
(* whole blocks before and after the forward; UCMLayerWiseConnector moves  *)
(* layer l+1 while layer l is computed and defers the layers of a          *)
(* multi-token predictor; UCMCPConnector splits the blocks over ranks.     *)
(*                                                                         *)
(* The engine (scheduling, memory, forward) and the store are external and *)
(* modelled by what the connector relies on.  A cell of device memory      *)
(* tells which block it holds, how many tokens of it are taken for filled, *)
(* and how many of those are right, so a dump that reads a reused block,   *)
(* or a forward over a context that was never loaded, leaves a visible     *)
(* trace.  The others are lost: wrong because of a failed load, in a way   *)
(* that the engine's scan for invalid blocks does not mend.                *)
(***************************************************************************)
EXTENDS RankConsistency, ConnectorMeta, TLC

CONSTANTS Setups      \* the deployments and workloads, records (see MCUcmConnector)

\* The blocks of all prompts.
AllBlocks(c) == UNION {ToSet(c.chain[r]) : r \in DOMAIN c.prompt}

\* Sizes are positive, a prompt is not empty and not longer than the request may become, chains
\* give the hash of every full block, and the tokens that the engine must compute itself after a
\* full hit fit into a block.  The direct connector moves a block with all its layers as one
\* piece, so it has one layer here.  There are finitely many blocks.
ASSUME SetupAssumption ==
  \A c \in Setups :
    /\ c.hbs \in Nat \ {0} /\ c.cp \in Nat \ {0} /\ c.spec \in Nat /\ c.threshold \in Int
    /\ c.chunks \subseteq Nat /\ c.vblocks \in Nat
    /\ RecomputeTokens(c) <= BlockTokens(c)
    /\ c.ranks \in Nat \ {0} /\ c.layers \in Nat \ {0} /\ (~c.lw => c.layers = 1 /\ ~c.mtp)
    /\ c.limit \in Nat /\ IsFiniteSet(AllBlocks(c))
    /\ \A r \in DOMAIN c.prompt : /\ c.prompt[r] \in Nat \ {0} /\ c.max[r] \in Nat
                                  /\ c.prompt[r] <= c.max[r]
                                  /\ c.chain[r] = [i \in 1..Len(c.chain[r]) |-> c.chain[r][i]]
                                  /\ Len(c.chain[r]) \in Nat /\ NumHashes(c, c.max[r]) <= Len(c.chain[r])

VARIABLES
  cfg,       \* the setup, fixed
  phase,     \* "sched", "work": whose turn it is
  \* --- engine scheduler
  status,    \* request -> "waiting", "running", "held", "done"
  ntok,      \* request -> tokens, prompt and output
  ncomp,     \* request -> num_computed_tokens
  ncached,   \* request -> num_cached_tokens, or Unset
  blocks,    \* request -> its engine blocks
  plan,      \* scheduler_output under construction
  told,      \* finished_req_ids of the next step
  left,      \* request -> ranks that have not reported its transfers (aggregator)
  budget,    \* preemptions and faults left
  \* --- connector, scheduler role
  meta,      \* requests_meta: known request -> its RequestMeta
  sasync,    \* _async_dump_req_ids
  marks,     \* the tracker's inconsistent blocks
  \* --- connector, worker roles
  job,       \* connector metadata of the step: request -> load and dump
  wpc, pos,  \* rank -> hook it is in, visit of a layer
  wfail,     \* rank -> requests whose load failed in this step
  wasync,    \* rank -> _async_dump_req_ids
  deferred,  \* rank -> _deferred_mtp_dumps is not empty
  pend,      \* rank -> _pending_dump_tasks, each in a slot of its own (their order has no effect)
  acct,      \* rank -> its RankConsistencyManager and worker metadata
  invalid,   \* rank -> _invalid_block_ids
  rep,       \* rank -> what it reports at the end of the step
  \* --- device memory and store
  kv, store

engine  == <<status, ntok, ncomp, ncached, blocks>>
link    == <<told, left>>
srole   == <<meta, sasync, marks>>
wrole   == <<wpc, pos, wfail, wasync, deferred, pend, acct, invalid, rep>>
vars    == <<cfg, phase, engine, plan, link, budget, srole, job, wrole, kv, store>>

Unset == -1
NoId  == "junk"
Right(id, n) == [id |-> id, n |-> n, ok |-> n]
Lost(id, n)  == [id |-> id, n |-> n, ok |-> 0]
Empty == Right(NoId, 0)

\* A cell after right content was written to it: what else it holds of the block stays.
Filled(cell, new) ==
  IF cell.id # new.id THEN new
  ELSE [id |-> new.id, n |-> Max({cell.n, new.n}), ok |-> Max({cell.ok, new.ok})]

Requests == DOMAIN cfg.prompt
Ranks    == 0..(cfg.ranks - 1)
VBlocks  == 1..cfg.vblocks
Layers   == 0..(cfg.layers - 1)
BS       == BlockTokens(cfg)
CeilDiv(a, b) == (a + b - 1) \div b

\* A fault of kind f may still happen; n faults happen now.
Faulty(f) == f \in cfg.faults /\ budget.faults > 0
Spend(n)  == budget' = [budget EXCEPT !.faults = @ - n]

\* The order in which a forward visits layers: a predictor's layer comes last
\* and is visited again for every speculative token.
Visits == [i \in 1..cfg.layers |-> i - 1] \o
          (IF cfg.mtp THEN <<cfg.layers - 1>> ELSE <<>>)

\* _is_mtp_layer, with the range of _refresh_mtp_layer_range.
IsMtpLayer(l) == cfg.mtp /\ l = cfg.layers - 1

\* RequestHasher: the key of a block depends on the rank unless ranks share it.
KeyOf(k, id, l) == <<IF cfg.mla \/ cfg.cp > 1 THEN 0 ELSE k, id, l>>
Ids(r) == SubSeq(cfg.chain[r], 1, NumHashes(cfg, ntok[r]))

\* What rank k should hold in the i-th engine block of request r.
WantId(r, i, k) == RankIds(cfg, Slice(cfg.chain[r], (i - 1) * cfg.cp, i * cfg.cp), k)[1]
Reaches(mem, v, r, i, k, l, a) ==
  mem[v][k][l].id = WantId(r, i, k) /\ mem[v][k][l].n >= a
RightIn(mem, v, r, i, k, l, a) == Reaches(mem, v, r, i, k, l, a) /\ mem[v][k][l].ok >= a
PartOf(i, n) == Min({BS, n - (i - 1) * BS})

\* How many of its blocks the scan for invalid blocks looks at: num_cached_tokens, which a
\* preempted request keeps from its first admission (_update_requests_with_invalid_blocks).
Scannable(r) == Min({CeilDiv(ncached[r], BS), Len(blocks[r])})

InPlan == DOMAIN plan.n
NoPlan == [n |-> <<>>, vb |-> <<>>, new |-> {}, load |-> {}, pre |-> {}, fin |-> {}]
With(f, r, x) == [q \in DOMAIN f \union {r} |-> IF q = r THEN x ELSE f[q]]
Sorted(S) == [i \in 1..Cardinality(S) |-> CHOOSE x \in S : Cardinality({y \in S : y < x}) = i - 1]

Init ==
  /\ cfg \in Setups
  /\ phase = "sched"
  /\ status = [r \in Requests |-> "waiting"]
  /\ ntok = cfg.prompt
  /\ ncomp = [r \in Requests |-> 0]
  /\ ncached = [r \in Requests |-> Unset]
  /\ blocks = [r \in Requests |-> <<>>]
  /\ plan = NoPlan
  /\ told = {}
  /\ left = [r \in Requests |-> cfg.ranks]
  /\ budget = [preempts |-> cfg.preempts, faults |-> cfg.nfaults]
  /\ meta = <<>>
  /\ sasync = {}
  /\ marks = {}
  /\ job = <<>>
  /\ wpc = [k \in Ranks |-> "idle"]
  /\ pos = [k \in Ranks |-> 1]
  /\ wfail = [k \in Ranks |-> {}]
  /\ wasync = [k \in Ranks |-> {}]
  /\ deferred = [k \in Ranks |-> FALSE]
  /\ pend = [k \in Ranks |-> <<>>]
  /\ acct = [k \in Ranks |-> NewAccount(Requests)]
  /\ invalid = [k \in Ranks |-> {}]
  /\ rep = [k \in Ranks |-> <<>>]
  /\ kv = [v \in VBlocks |-> [k \in Ranks |-> [l \in Layers |-> Empty]]]
  /\ store = [x \in cfg.stored |-> "right"]

----------------------------------------------------------------------------
(* The engine's scheduler (external), with the connector hooks it calls. *)

Free == VBlocks \ UNION {ToSet(blocks[r]) : r \in Requests}
Lowest(S, n) == SubSeq(Sorted(S), 1, n)

\* The engine's prefix cache offers blocks that were filled with the content wanted, lost
\* or not, and the blocks that an earlier request of the same step is about to fill.
Local(r, i) ==
  {v \in VBlocks \ plan.new : \A k \in Ranks, l \in Layers : Reaches(kv, v, r, i, k, l, BS)} \union
  {blocks[q][i] : q \in {q \in InPlan : /\ cfg.share /\ q < r
                                        /\ i * BS <= ncomp[q] + plan.n[q]
                                        /\ \A j \in 1..(i * cfg.cp) :
                                             cfg.chain[q][j] = cfg.chain[r][j]}}
LocalHit(r) ==
  IF cfg.apc
  THEN Max({n \in 0..((ntok[r] - 1) \div BS) : \A i \in 1..n : Local(r, i) # {}})
  ELSE 0

\* Chunks of a prefill: one of the given sizes or all that is left.
Chunks(rest) == {n \in cfg.chunks \union {rest} : 0 < n /\ n <= rest}

\* Blocks of rank 0 that the scheduler's store finds.
Present == {x[2] : x \in {y \in DOMAIN store : y[1] = 0 /\ y[3] = 0}}

\* get_num_new_matched_tokens with hbm local blocks and found hashes in the
\* store.  Below the threshold, or with nothing left to ask for, an earlier
\* RequestMeta is left as it is.
Matched(r, hbm, found) ==
  LET skip == cfg.threshold > ntok[r] \/ NumHashes(cfg, ntok[r]) <= hbm * cfg.cp
      ext  == found \div cfg.cp
  IN  IF skip THEN [tokens |-> 0, meta |-> meta]
      ELSE [tokens |-> HitTokens(cfg, ntok[r], hbm, ext),
            meta |-> With(meta, r, NewMeta(cfg, ntok[r], hbm, ext))]

\* A waiting or preempted request is scheduled: its hits are asked for (a lookup
\* that raises finds nothing), blocks are allocated behind the local ones.
Admit(r) ==
  LET hbm == LocalHit(r)
      own == [i \in 1..hbm |-> Min(Local(r, i))]
      ids == Slice(Ids(r), hbm * cfg.cp, Len(Ids(r)))
  IN /\ phase = "sched" /\ status[r] = "waiting" /\ r \notin InPlan /\ plan.pre = {}
     /\ \E lost \in {0} \union (IF Faulty("lookup") THEN {1} ELSE {}) :
        LET found == IF lost = 1 THEN 0
                     ELSE LookupOnPrefix(IF cfg.cm THEN marks ELSE {}, ids, Present)
            hit   == Matched(r, hbm, found)
            start == hbm * BS + hit.tokens
            room  == Free \ ToSet(own)
        IN \E n \in Chunks(ntok[r] - start) :
           LET need == CeilDiv(start + n, BS) - hbm
               new  == Lowest(room, need)
           IN /\ Cardinality(room) >= need
              /\ blocks' = [blocks EXCEPT ![r] = own \o new]
              /\ plan' = [plan EXCEPT !.n = With(@, r, n), !.load = @ \union {r},
                                      !.vb = With(@, r, own \o new),
                                      !.new = @ \union ToSet(new)]
              /\ meta' = hit.meta
              /\ ncomp' = [ncomp EXCEPT ![r] = start]
              /\ ncached' = [ncached EXCEPT ![r] = IF @ = Unset THEN start ELSE @]
              /\ Spend(lost)
     /\ status' = [status EXCEPT ![r] = "running"]
     /\ UNCHANGED <<cfg, phase, ntok, link, sasync, marks, job, wrole, kv, store>>

\* A running request gets more tokens, in the order of the running list.
Continue(r) ==
  /\ phase = "sched" /\ status[r] = "running" /\ r \notin InPlan
  /\ \A q \in Requests : (q < r /\ status[q] = "running") => q \in InPlan
  /\ \E n \in Chunks(ntok[r] - ncomp[r]) :
     LET need == Max({0, CeilDiv(ncomp[r] + n, BS) - Len(blocks[r])})
         new  == Lowest(Free, need)
     IN /\ Cardinality(Free) >= need
        /\ blocks' = [blocks EXCEPT ![r] = @ \o new]
        /\ plan' = [plan EXCEPT !.n = With(@, r, n), !.vb = With(@, r, new),
                                !.new = @ \union ToSet(new)]
  /\ UNCHANGED <<cfg, phase, status, ntok, ncomp, ncached, link, budget, srole, job,
                 wrole, kv, store>>

\* A running request loses its blocks and waits again.
Preempt(r) ==
  /\ phase = "sched" /\ status[r] = "running" /\ r \notin InPlan
  /\ budget.preempts > 0
  /\ budget' = [budget EXCEPT !.preempts = @ - 1]
  /\ status' = [status EXCEPT ![r] = "waiting"]
  /\ blocks' = [blocks EXCEPT ![r] = <<>>]
  /\ ncomp' = [ncomp EXCEPT ![r] = 0]
  /\ plan' = [plan EXCEPT !.pre = @ \union {r}]
  /\ UNCHANGED <<cfg, phase, ntok, ncached, link, srole, job, wrole, kv, store>>

\* request_finished: a request that ever had something to dump keeps its blocks
\* until every rank has reported it.
Delayed(r) == r \in sasync

\* The requests over end: the engine tells the workers with the next step.
Ended(over) ==
  /\ status' = [r \in Requests |-> IF r \notin over THEN status[r]
                                   ELSE IF Delayed(r) THEN "held" ELSE "done"]
  /\ sasync' = sasync \ over
  /\ told' = told \union over

\* The client gives up between two steps.
Abort(r) ==
  /\ phase = "sched" /\ plan = NoPlan /\ Faulty("abort") /\ Spend(1)
  /\ status[r] \in {"waiting", "running"}
  /\ Ended({r})
  /\ blocks' = IF Delayed(r) THEN blocks ELSE [blocks EXCEPT ![r] = <<>>]
  /\ UNCHANGED <<cfg, phase, ntok, ncomp, ncached, plan, left, meta, marks, job, wrole,
                 kv, store>>

\* build_connector_meta with _track_async_dump_requests: load and dump of every
\* scheduled request that has metadata; finished requests are forgotten.
BuildConnectorMeta ==
  LET known == InPlan \intersect DOMAIN meta
      d     == [r \in known |-> DispatchMeta(cfg, meta[r],
                  SubSeq(cfg.chain[r], 1, meta[r].nids), plan.n[r], plan.vb[r],
                  r \in plan.load)]
  IN /\ phase = "sched" /\ (InPlan # {} \/ plan.pre # {} \/ told # {})
     /\ job' = [r \in known |-> [load |-> d[r].load, dump |-> d[r].dump]]
     /\ meta' = [r \in DOMAIN meta \ told |-> IF r \in known THEN d[r].meta ELSE meta[r]]
     /\ sasync' = sasync \union {r \in known : d[r].dump.ids # <<>>}
     /\ ncomp' = [r \in Requests |-> IF r \in InPlan THEN ncomp[r] + plan.n[r]
                                     ELSE ncomp[r]]
     /\ plan' = [plan EXCEPT !.fin = told]
     /\ told' = {}
     /\ phase' = "work"
     /\ wpc' = [k \in Ranks |-> "begin"]
     /\ UNCHANGED <<cfg, status, ntok, ncached, blocks, left, budget, marks, pos, wfail,
                    wasync, deferred, pend, acct, invalid, rep, kv, store>>

----------------------------------------------------------------------------
(* The worker role of rank k. *)

Goto(k, hook) == wpc' = [wpc EXCEPT ![k] = hook]
Settled(t) == t.st # "flying"

\* Requests of the step with something to dump, as rank k sees them.
Dumping(k) == {r \in DOMAIN job : RankIds(cfg, job[r].dump.ids, k) # <<>>}

\* _wait_pending_dump_task for some tasks of a rank: failures go to its account.
Waited(tasks, a) ==
  LET lost(r) == UNION {t.ctx[r] : t \in {t \in tasks : t.st = "fail" /\ r \in DOMAIN t.ctx}}
  IN  DumpFailed(a, [r \in DOMAIN a.failed |-> lost(r)])

\* A list of tasks with a new one, and without the tasks gone.
Slot(p) == Min((1..Cardinality(DOMAIN p) + 1) \ DOMAIN p)
Added(p, t) == With(p, Slot(p), t)
Without(p, gone) == [i \in {j \in DOMAIN p : p[j] \notin gone} |-> p[i]]

\* Mutant of Flushed: nothing is waited for.
FlushedNone(k, reqs) == {}

\* The tasks of rank k that _flush_pending_dump_tasks(reqs) and get_finished wait for.
Flushed(k, reqs) == {t \in ToSet(pend[k]) : t.reqs \intersect reqs # {}}

\* handle_preemptions: dumps of preempted requests are waited for before their
\* blocks, which others own now, are written.  Then the step starts: what new
\* blocks held is gone, and a step without tokens only looks after dumps.
HandlePreemptions(k) ==
  LET gone == Flushed(k, plan.pre)
  IN /\ wpc[k] = "begin"
     /\ \A t \in gone : Settled(t)
     /\ pend' = [pend EXCEPT ![k] = Without(@, gone)]
     /\ acct' = [acct EXCEPT ![k] = Waited(gone, @)]
     /\ wfail' = [wfail EXCEPT ![k] = {}]
     /\ pos' = [pos EXCEPT ![k] = 1]
     /\ kv' = [v \in VBlocks |->
                 IF v \in plan.new THEN [kv[v] EXCEPT ![k] = [l \in Layers |-> Empty]]
                 ELSE kv[v]]
     /\ Goto(k, IF InPlan = {} THEN "wait" ELSE "load")
     /\ UNCHANGED <<cfg, phase, engine, plan, link, budget, srole, job, wasync, deferred,
                    invalid, rep, store>>

\* The requests whose load of the layer visited by rank k is submitted
\* (_submit_request_load_tasks_for_layer, called a layer ahead): those that have not
\* failed in this step.  A second visit of a layer finds no load task.
Asked(k)   == IF pos[k] > cfg.layers THEN {} ELSE {r \in DOMAIN job : job[r].load.ids # <<>>}
Loading(k) == Asked(k) \ wfail[k]

\* Device memory after layer l of the requests good has arrived at rank k.  A block that
\* was tainted (see Landed) is lost; so is a block that did not arrive, if the scan for
\* invalid blocks will not look at it.
Loaded(k, l, good) ==
  LET cells == UNION {Pairs(cfg, job[r].load, k) : r \in good}
      owner(v)   == CHOOSE r \in DOMAIN job : v \in ToSet(job[r].load.vb)
      unlooked(v) == \A i \in 1..Scannable(owner(v)) : blocks[owner(v)][i] # v
      missing == {x \in UNION {Pairs(cfg, job[r].load, k) : r \in Asked(k) \ good} : unlooked(x[2])}
      kind(x) == store[KeyOf(k, x[1], l)]
      cell(v) == LET x == CHOOSE y \in cells \union missing : y[2] = v
                 IN  IF x \notin cells \/ kind(x) = "tainted" THEN Lost(x[1], BS)
                     ELSE IF kind(x) = "right" THEN Right(x[1], BS) ELSE Empty
  IN  [v \in VBlocks |-> IF \E x \in cells \union missing : x[2] = v
                         THEN [kv[v] EXCEPT ![k][l] = cell(v)]
                         ELSE kv[v]]

\* _record_load_error: blocks that the engine is told of for requests whose load failed.
InvalidBlocks(failed) ==
  UNION {ToSet(job[r].load.vb) \union ToSet(job[r].dump.vb) : r \in failed}

\* start_load_kv, or wait_for_layer_load of one layer: a load fails when the store
\* breaks it, or does not find what it asks for.
LoadKv(k) ==
  LET l == Visits[pos[k]]
      absent == {r \in Loading(k) : \E x \in Pairs(cfg, job[r].load, k) :
                                      KeyOf(k, x[1], l) \notin DOMAIN store}
  IN /\ wpc[k] = "load"
     /\ \E broken \in SUBSET Loading(k) :
        LET failed == absent \union broken
        IN /\ broken # {} => Faulty("load")
           /\ Spend(IF broken = {} THEN 0 ELSE 1)
           /\ kv' = Loaded(k, l, Loading(k) \ failed)
           /\ invalid' = [invalid EXCEPT ![k] = @ \union InvalidBlocks(failed)]
           /\ acct' = [acct EXCEPT ![k] =
                         LoadFailed(@, failed, failed \ broken,
                                    UNION {ToSet(job[r].load.ids) : r \in failed \ broken})]
           /\ wfail' = [wfail EXCEPT ![k] = @ \union failed]
     /\ Goto(k, "fwd")
     /\ UNCHANGED <<cfg, phase, engine, plan, link, srole, job, pos, wasync, deferred,
                    pend, rep, store>>

\* The forward of one layer (external) on all ranks together: a token is right when
\* all of its context is right on every rank in the layers so far, and lost when what
\* is wrong with its context is only lost content, or invalid blocks that the scan will not look
\* at.  The predictor's layer is complete after its last visit only.
Unlooked(r, i, inv) == i > Scannable(r) /\ blocks[r][i] \in inv
Sees(mem, r, l, lostToo) ==
  \A i \in 1..Len(blocks[r]), k \in Ranks, m \in 0..l :
    LET a == PartOf(i, ncomp[r] - plan.n[r])
    IN  \/ a <= 0 \/ RightIn(mem, blocks[r][i], r, i, k, m, a)
        \/ lostToo /\ \/ Reaches(mem, blocks[r][i], r, i, k, m, a)
                      \/ Unlooked(r, i, UNION {invalid[j] : j \in Ranks})

Forward ==
  LET p == pos[0]
      l == Visits[p]
      last == p = Len(Visits) \/ Visits[p + 1] # l
      write(r, mem) ==
        LET ctx     == ncomp[r] - plan.n[r]
            touched == {i \in 1..Len(blocks[r]) : i * BS > ctx /\ (i - 1) * BS < ncomp[r]}
            size(i) == Max({0, PartOf(i, IF last THEN ncomp[r] ELSE ctx)})
            cell(i, k) == IF Sees(mem, r, l, FALSE)
                          THEN Filled(mem[blocks[r][i]][k][l], Right(WantId(r, i, k), size(i)))
                          ELSE IF Sees(mem, r, l, TRUE) THEN Lost(WantId(r, i, k), size(i))
                          ELSE Empty
        IN  [v \in VBlocks |->
               IF \E i \in touched : blocks[r][i] = v
               THEN LET i == CHOOSE j \in touched : blocks[r][j] = v
                    IN  [k \in Ranks |-> [mem[v][k] EXCEPT ![l] = cell(i, k)]]
               ELSE mem[v]]
  IN /\ \A k \in Ranks : wpc[k] = "fwd" /\ pos[k] = p
     /\ kv' = FoldLeft(LAMBDA mem, r : write(r, mem), kv, Sorted(InPlan))
     /\ wpc' = [k \in Ranks |-> "save"]
     /\ UNCHANGED <<cfg, phase, engine, plan, link, budget, srole, job, pos, wfail,
                    wasync, deferred, pend, acct, invalid, rep, store>>

\* The store refuses a task with other numbers of hashes and blocks (MakeTaskDesc: "invalid
\* dim").  A request never dumps more blocks than hashes, so differences do not cancel out.
Misfit(k) == \E r \in Dumping(k) : Len(RankIds(cfg, job[r].dump.ids, k)) # Len(job[r].dump.vb)

\* submit_dump of layer l for all dumping requests, appended to the pending tasks
\* unless the store refuses: the account a and the tasks p afterwards.  Without any block
\* the direct connector fails before it asks.
Submitted(k, l, a, p, refused) ==
  LET reqs == Dumping(k)
      ctx  == [r \in (IF cfg.cm THEN reqs ELSE {}) |->
                 ToSet(RankIds(cfg, job[r].dump.ids, k))]
      task == [reqs |-> reqs, ctx |-> ctx, layer |-> l, st |-> "flying",
               cells |-> UNION {Pairs(cfg, job[r].dump, k) : r \in reqs},
               taint |-> \E j \in Ranks : wfail[j] # {}]
  IN  IF reqs = {} \/ (~cfg.lw /\ \A r \in reqs : job[r].dump.vb = <<>>)
      THEN [acct |-> a, pend |-> p]
      ELSE IF refused \/ Misfit(k) THEN [acct |-> DumpFailed(DumpSubmitted(a, ctx), ctx), pend |-> p]
      ELSE [acct |-> DumpSubmitted(a, ctx), pend |-> Added(p, task)]

\* MLA ranks other than 0 dump nothing.
DumpsAt(k) == ~cfg.mla \/ k = 0
Refusals(k) == {FALSE} \union (IF Faulty("submit") /\ Dumping(k) # {} THEN {TRUE} ELSE {})

\* Whether save_kv_layer puts layer l off until wait_for_save.
Defers(l) == IsMtpLayer(l)

\* save_kv_layer: a layerwise connector dumps the layer at once or defers it.
SaveKvLayer(k) ==
  LET l == Visits[pos[k]]
  IN /\ wpc[k] = "save"
     /\ \/ /\ cfg.lw /\ DumpsAt(k) /\ ~Defers(l)
           /\ \E no \in Refusals(k) :
              LET done == Submitted(k, l, acct[k], pend[k], no)
              IN /\ acct' = [acct EXCEPT ![k] = done.acct]
                 /\ pend' = [pend EXCEPT ![k] = done.pend]
                 /\ Spend(IF no THEN 1 ELSE 0)
           /\ UNCHANGED deferred
        \/ /\ ~(cfg.lw /\ DumpsAt(k) /\ ~Defers(l))
           /\ deferred' = [deferred EXCEPT ![k] =
                             @ \/ (cfg.lw /\ DumpsAt(k) /\ Dumping(k) # {})]
           /\ UNCHANGED <<acct, pend, budget>>
     /\ IF pos[k] < Len(Visits)
        THEN Goto(k, "load") /\ pos' = [pos EXCEPT ![k] = @ + 1]
        ELSE Goto(k, "wait") /\ UNCHANGED pos
     /\ UNCHANGED <<cfg, phase, engine, plan, link, srole, job, wfail, wasync, invalid,
                    rep, kv, store>>

\* Mutant of Remembered: a rank that dumps nothing itself remembers nothing.
RememberedByDumper(k) == IF DumpsAt(k) THEN Dumping(k) ELSE {}

\* The requests wait_for_save adds to _async_dump_req_ids, on every rank.
Remembered(k) == Dumping(k)

\* Whether rank k submits a dump in wait_for_save: the direct connector its only one,
\* the layerwise one what _flush_deferred_mtp_dumps finds.
SubmitsLate(k) == IF cfg.lw THEN deferred[k] ELSE DumpsAt(k)

\* wait_for_save: settled dumps are collected (_poll_pending_dump_tasks), the
\* step's dumping requests are remembered.  The direct connector polls before it
\* submits its one dump, the layerwise one after _flush_deferred_mtp_dumps.
WaitForSave(k) ==
  LET settled == {t \in ToSet(pend[k]) : Settled(t)}
      polled  == Waited(settled, acct[k])
      flying  == Without(pend[k], settled)
  IN /\ wpc[k] = "wait"
     /\ \E no \in (IF SubmitsLate(k) THEN Refusals(k) ELSE {FALSE}) :
        LET done == IF SubmitsLate(k)
                    THEN Submitted(k, cfg.layers - 1, polled, flying, no)
                    ELSE [acct |-> polled, pend |-> flying]
        IN /\ acct' = [acct EXCEPT ![k] = done.acct]
           /\ pend' = [pend EXCEPT ![k] = done.pend]
           /\ Spend(IF no THEN 1 ELSE 0)
     /\ deferred' = [deferred EXCEPT ![k] = FALSE]
     /\ wasync' = [wasync EXCEPT ![k] = @ \union Remembered(k)]
     /\ Goto(k, "fin")
     /\ UNCHANGED <<cfg, phase, engine, plan, link, srole, job, pos, wfail, invalid, rep,
                    kv, store>>

\* What a rank reports: finished requests, invalid blocks, worker metadata
\* (get_block_ids_with_load_errors, build_connector_worker_meta).
Report(k, fin, a) == [fin |-> fin, inv |-> invalid[k], meta |-> WorkerMeta(a, cfg.cm)]

\* get_finished, get_block_ids_with_load_errors and build_connector_worker_meta:
\* dumps of finished requests are waited for, and the rank reports.
GetFinished(k) ==
  LET fin  == plan.fin \intersect wasync[k]
      gone == Flushed(k, fin)
      a    == FinishDump(Waited(gone, acct[k]), fin)
  IN /\ wpc[k] = "fin"
     /\ \A t \in gone : Settled(t)
     /\ pend' = [pend EXCEPT ![k] = Without(@, gone)]
     /\ wasync' = [wasync EXCEPT ![k] = @ \ fin]
     /\ rep' = [rep EXCEPT ![k] = Report(k, fin, a)]
     /\ acct' = [acct EXCEPT ![k] = Reported(a)]
     /\ invalid' = [invalid EXCEPT ![k] = {}]
     /\ Goto(k, "out")
     /\ UNCHANGED <<cfg, phase, engine, plan, link, budget, srole, job, pos, wfail,
                    deferred, kv, store>>

----------------------------------------------------------------------------
(* The store (external). *)

\* The store keeps the first data written under a key.  Data that differs from what
\* the key promises is "tainted" when it is lost or a load of the dumping step had
\* failed, "wrong" otherwise.
Landed(k, t, cells) ==
  LET key(x) == KeyOf(k, x[1], t.layer)
      val(x) == LET c == kv[x[2]][k][t.layer]
                IN  IF c = Right(x[1], BS) THEN "right"
                    ELSE IF t.taint \/ c.ok < c.n THEN "tainted" ELSE "wrong"
  IN  [y \in DOMAIN store \union {key(x) : x \in cells} |->
         IF y \in DOMAIN store THEN store[y] ELSE val(CHOOSE x \in cells : key(x) = y)]

DumpLand(k, i) ==
  /\ ~Settled(pend[k][i])
  /\ store' = Landed(k, pend[k][i], pend[k][i].cells)
  /\ pend' = [pend EXCEPT ![k][i].st = "ok"]
  /\ UNCHANGED <<cfg, phase, engine, plan, link, budget, srole, job, wpc, pos, wfail,
                 wasync, deferred, acct, invalid, rep, kv>>

\* A dump fails after some of its blocks were written.
DumpFail(k, i) ==
  /\ ~Settled(pend[k][i]) /\ Faulty("dump") /\ Spend(1)
  /\ \E part \in SUBSET pend[k][i].cells : store' = Landed(k, pend[k][i], part)
  /\ pend' = [pend EXCEPT ![k][i].st = "fail"]
  /\ UNCHANGED <<cfg, phase, engine, plan, link, srole, job, wpc, pos, wfail, wasync,
                 deferred, acct, invalid, rep, kv>>

\* The store's garbage collection removes a key.
Gc(x) ==
  /\ Faulty("gc") /\ Spend(1)
  /\ store' = [y \in DOMAIN store \ {x} |-> store[y]]
  /\ UNCHANGED <<cfg, phase, engine, plan, link, srole, job, wrole, kv>>

----------------------------------------------------------------------------
(* The end of a step. *)

\* Mutant of Scanned: invalid blocks are ignored.
ScannedNone(inv) == [comp |-> ncomp, hit |-> {}]

\* _update_requests_with_invalid_blocks over the running requests in order: a
\* request is cut at its first invalid block that no earlier request recomputes,
\* or falls back to its cached tokens; only blocks that num_cached_tokens covers
\* are looked at.
InvalidIn(r, inv) == {i \in 1..Scannable(r) : blocks[r][i] \in inv}
Affected(inv) == {r \in Requests : status[r] = "running" /\ InvalidIn(r, inv) # {}}
Recomputed(r, inv) ==
  {i \in InvalidIn(r, inv) : \A q \in Affected(inv) : q < r =>
                                \A j \in InvalidIn(q, inv) : blocks[q][j] # blocks[r][i]}
Scanned(inv) ==
  [hit  |-> Affected(inv),
   comp |-> [r \in Requests |->
               IF r \notin Affected(inv) THEN ncomp[r]
               ELSE IF Recomputed(r, inv) = {} THEN ncached[r]
               ELSE (Min(Recomputed(r, inv)) - 1) * BS]]

\* update_connector_output: after a miss a request dumps again what it recomputes,
\* after another failure it dumps no more.
Recovered(w) ==
  [r \in DOMAIN meta \ (w.loadFailed \ w.missReqs) |->
     IF r \in w.loadFailed
     THEN [meta[r] EXCEPT !.total = meta[r].hbm, !.done = meta[r].hbm * BS]
     ELSE meta[r]]

\* The invalid blocks that a request leaves to an earlier one to compute again, and those of
\* a request that the scan does not look at: it goes on as if they were computed.
LeftToOthers(inv) ==
  {x \in (Requests \X (1 .. cfg.vblocks)) :
     LET r == x[1] i == x[2]
     IN  /\ status[r] = "running" /\ i <= Len(blocks[r])
         /\ \/ i \in InvalidIn(r, inv) \ Recomputed(r, inv)
            \/ r \notin Affected(inv) /\ Unlooked(r, i, inv)}
Awaited(inv) ==
  [v \in VBlocks |->
     IF \E x \in LeftToOthers(inv) : blocks[x[1]][x[2]] = v
     THEN LET x == CHOOSE y \in LeftToOthers(inv) : blocks[y[1]][y[2]] = v
          IN  [k \in Ranks |-> [l \in Layers |-> Lost(WantId(x[1], x[2], k), BS)]]
     ELSE kv[v]]

\* KVOutputAggregator: requests that the last missing rank has reported.
Sent(r) == Cardinality({k \in Ranks : r \in rep[k].fin})
AllSent == {r \in Requests : Sent(r) > 0 /\ Sent(r) = left[r]}

\* The connector's metadata after the requests hit were found to have invalid blocks: the
\* engine of recovery "pop" drops their metadata (_handle_invalid_blocks), the one of
\* recovery "meta" hands worker metadata w to update_connector_output.
Rescheduled(hit, w) ==
  IF cfg.recovery = "pop" THEN [r \in DOMAIN meta \ hit |-> meta[r]] ELSE Recovered(w)

\* update_from_output: affected requests are rescheduled, others sample a token when
\* all tokens are computed, the last one ends the request; reports of all ranks
\* free what finished_sending names.
UpdateFromOutput ==
  LET inv   == UNION {rep[k].inv : k \in Ranks}
      s     == Scanned(inv)
      w     == Aggregate({rep[k].meta : k \in Ranks}, cfg.mla)
      full  == {r \in InPlan \ s.hit : ncomp[r] = ntok[r]}
      over  == {r \in full : ntok[r] = cfg.max[r]}
      freed == AllSent
      kept  == {r \in over : Delayed(r)}
  IN /\ phase = "work" /\ \A k \in Ranks : wpc[k] = "out"
     /\ ncomp' = s.comp
     /\ ntok' = [r \in Requests |-> IF r \in full \ over THEN ntok[r] + 1 ELSE ntok[r]]
     /\ status' = [r \in Requests |-> IF r \in freed \/ r \in over \ kept THEN "done"
                                      ELSE IF r \in kept THEN "held" ELSE status[r]]
     /\ sasync' = sasync \ over
     /\ told' = told \union over
     /\ blocks' = [r \in Requests |-> IF r \in freed \/ r \in over \ kept THEN <<>>
                                      ELSE blocks[r]]
     /\ left' = [r \in Requests |-> IF r \in freed THEN cfg.ranks ELSE left[r] - Sent(r)]
     /\ meta' = Rescheduled(s.hit, w)
     /\ marks' \in (IF cfg.cm /\ cfg.recovery = "meta"
                     THEN ApplyWorkerMeta(marks, w, cfg.limit) ELSE {marks})
     /\ plan' = NoPlan /\ job' = <<>>
     /\ rep' = [k \in Ranks |-> <<>>]
     /\ phase' = "sched"
     /\ wpc' = [k \in Ranks |-> "idle"]
     /\ wfail' = [k \in Ranks |-> {}]
     /\ kv' = Awaited(inv)
     /\ UNCHANGED <<cfg, ncached, budget, pos, wasync, deferred, pend, acct, invalid, store>>

\* An engine without work to do idles, held requests or not.
Idle == /\ \A r \in Requests : status[r] \in {"done", "held"}
        /\ told = {} /\ phase = "sched"
        /\ UNCHANGED vars

SchedNext == \E r \in Requests : Admit(r) \/ Continue(r) \/ Preempt(r) \/ Abort(r)
WorkerStep(k) == \/ HandlePreemptions(k) \/ LoadKv(k) \/ SaveKvLayer(k)
                 \/ WaitForSave(k) \/ GetFinished(k)
Settle(k) == \E i \in DOMAIN pend[k] : DumpLand(k, i) \/ DumpFail(k, i)

Next ==
  \/ SchedNext
  \/ BuildConnectorMeta
  \/ \E k \in Ranks : WorkerStep(k) \/ Settle(k)
  \/ Forward
  \/ \E x \in DOMAIN store : Gc(x)
  \/ UpdateFromOutput
  \/ Idle

\* A started step of the engine ends, and the store goes on.
EngineStep == BuildConnectorMeta \/ (\E k \in Ranks : WorkerStep(k)) \/ Forward \/ UpdateFromOutput
Fairness == WF_vars(EngineStep) /\ WF_vars(\E k \in Ranks : Settle(k))
Spec == Init /\ [][Next]_vars /\ Fairness

----------------------------------------------------------------------------
(* Properties. *)

\* No token is sampled from a context that is wrong on any rank or layer: whatever
\* failed to load, was never dumped or was reused, the requests that build on it are
\* found by the scan for invalid blocks and are not in this step's output.  Excepted is
\* what the scan does not mend: invalid blocks of a resumed request behind its
\* num_cached_tokens, blocks it leaves to another request to compute again that does not get to
\* it, what was dumped by a step with a failed load and is loaded again, and what was
\* computed from any of these.
OutputRight ==
  (phase = "work" /\ \A k \in Ranks : wpc[k] = "out") =>
    LET inv == UNION {rep[k].inv : k \in Ranks}
        s   == Scanned(inv)
    IN  \A r \in InPlan \ s.hit : ncomp[r] = ntok[r] =>
          \A i \in 1..Len(blocks[r]), k \in Ranks, l \in Layers :
            LET a == PartOf(i, ncomp[r])
            IN  a <= 0 \/ Reaches(kv, blocks[r][i], r, i, k, l, a) \/ Unlooked(r, i, inv)

\* What the store keeps under a key is the block the key was derived from, although
\* dumps read device blocks while later steps run, preempt, finish and reuse them.
\* Excepted are dumps of a step in which a load failed: those blocks are "tainted".
StoredRightUnlessFailed == \A x \in DOMAIN store : store[x] # "wrong"

\* What the connector has dispatched of a request has not run ahead of what the engine has
\* computed.  It does where update_connector_output recovers failed loads: a request that
\* only shares a block with the failed one is computed again, but token_processed stays.
InStep(r) == \/ cfg.recovery = "pop"
             \/ meta[r].done <= ncomp[r] /\ meta[r].done <= meta[r].ntok

\* Each rank is given as many hashes as engine blocks, for loads and for dumps, also
\* for a request that resumes, recovers or is looked up again, and the indices of a
\* RequestMeta stay within the blocks of its request.
DispatchAligned ==
  /\ \A r \in DOMAIN job :
       /\ Len(job[r].load.ids) = cfg.cp * Len(job[r].load.vb)
       /\ InStep(r) => Len(job[r].dump.ids) = cfg.cp * Len(job[r].dump.vb)
  /\ \A r \in DOMAIN meta : /\ 0 <= meta[r].hbm /\ meta[r].hbm <= meta[r].total
                            /\ meta[r].total * cfg.cp <= meta[r].nids
                            /\ meta[r].nids * cfg.hbs <= ntok[r]

\* A block leaves the tracker of inconsistent blocks only when every rank has stored
\* it in every layer (unless garbage collection removes it again or the tracker is full:
\* then new marks push out old ones).
ClearedIsStored ==
  [][("gc" \notin cfg.faults /\ Cardinality(marks') < cfg.limit) =>
       \A b \in marks \ marks' : \A k \in Ranks, l \in Layers : KeyOf(k, b, l) \in DOMAIN store]_vars

\* Finished requests whose blocks are kept for their dumps give them back: every rank
\* reports them, whatever the dumps came to.  A request is held once, so that each of them
\* is freed by the time none is held.
HeldIsFreed ==
  (\E r \in Requests : status[r] = "held") ~> (\A r \in Requests : status[r] # "held")
=============================================================================
