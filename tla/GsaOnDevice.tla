---------------------------- MODULE GsaOnDevice ----------------------------
(***************************************************************************)
(* GSAOnDevice (sparse/gsa_on_device): while it decodes a long request, a  *)
(* layer attends to the blocks whose key hashes are nearest to the query.  *)
(* The method keeps the hash of every key beside the KV cache, and before  *)
(* the attention of a layer swaps the block table and length in the        *)
(* metadata shared by all layers, restoring them after it.  Models with    *)
(* grouped keys (GQA) and with latent keys (MLA), CUDA and NPU, differ in  *)
(* which rows are decodes, when keys are written and what is prepared.     *)
(*                                                                         *)
(* A cell names the token whose key, or whose key's hash, it holds.  The   *)
(* engine (admission, chunks, preemption, block pool), the store and the   *)
(* kernel that ranks blocks are external.                                  *)
(***************************************************************************)
EXTENDS Integers, Sequences, FiniteSets, SequencesExt, FiniteSetsExt, TLC

CONSTANT GsaSetups

VARIABLES
  gcfg,    \* the setup, fixed
  gpc,     \* part of the step under way
  gat,     \* layer and phase under way
  greq,    \* request -> status, tokens, computed tokens, resumed
  gtab,    \* request -> its blocks
  gplan,   \* scheduler output: tokens per request, admitted ones and their external tokens
  gleft,   \* preemptions left
  gflag,   \* is_prefill_flag
  gs,      \* fields of the sparse method
  gm,      \* attention metadata: request -> block table and length
  gkv, ghash,   \* hashed layer -> slot -> cell: keys, and hashes of keys
  gcap,    \* batch sizes with a captured decode graph, without and with GSA
  goff,    \* requests whose rebuilt hashes are known to be off
  gerr     \* failed assertions

gengine == <<greq, gtab, gplan, gleft>>
gmemory == <<gkv, ghash>>
gvars   == <<gcfg, gpc, gat, gengine, gflag, gs, gm, gmemory, gcap, goff, gerr>>

GB      == gcfg.bs
GReqs   == DOMAIN gcfg.prompt
GKind   == gcfg.layers[gat.layer]
GHashed == {l \in DOMAIN gcfg.layers : gcfg.layers[l] = "hash"}
GBlocks == 1..gcfg.pool
GSlots  == (0..gcfg.pool) \X (0..gcfg.bs - 1)
GJunk   == <<0, -1>>
GCeil(a, b) == (a + b - 1) \div b
GOrder(S) == [i \in 1..Cardinality(S) |-> CHOOSE x \in S : Cardinality({y \in S : y < x}) = i - 1]

GToken(r, p) == IF p < gcfg.common /\ p < gcfg.prompt[r] THEN <<0, p>> ELSE <<r, p>>
\* A row of the block table reads the null block past its end.
GBlock(row, i) == IF i <= Len(row) THEN row[i] ELSE 0
GSlot(row, p)  == <<GBlock(row, (p \div GB) + 1), p % GB>>

GRunning   == {r \in GReqs : greq[r].st = "run"}
GWaiting   == {r \in GReqs : greq[r].st = "wait"}
GScheduled == DOMAIN gplan.q
GLen(r)    == greq[r].c + gplan.q[r]

GNoSparse == [on |-> FALSE, dec |-> FALSE, only |-> FALSE, hit |-> FALSE, rows |-> {},
              prefix |-> <<>>, lens |-> <<>>, ori |-> <<>>, top |-> <<>>]
GNoPlan   == [q |-> <<>>, new |-> <<>>, ext |-> <<>>]

\* The configurations the constructor and the kernel accept: one sink block and four recent
\* ones fit in topk.
GValid(c) == /\ c.thr >= c.topk /\ c.topk % c.bs = 0
             /\ c.topk > (IF c.npu THEN 0 ELSE 5 * c.bs)
\* Only hashed layers have a hash cache.
GHashCache == [l \in GHashed |-> [s \in GSlots |-> GJunk]]

GsaInit ==
  /\ gcfg \in {c \in GsaSetups : GValid(c)}
  /\ gpc = IF gcfg.sizes = {} THEN "sched" ELSE "capture"
  /\ gat = [layer |-> 1, phase |-> 1]
  /\ greq = [r \in GReqs |-> [st |-> "wait", n |-> gcfg.prompt[r], c |-> 0, res |-> FALSE]]
  /\ gtab = [r \in GReqs |-> <<>>]
  /\ gplan = GNoPlan /\ gleft = gcfg.preempts
  /\ gflag = <<>> /\ gs = GNoSparse /\ gm = <<>>
  /\ gkv = [l \in GHashed |-> [s \in GSlots |-> GJunk]]
  /\ ghash = GHashCache
  /\ gcap = [base |-> {}, gsa |-> {}]
  /\ goff = {} /\ gerr = {}

----------------------------------------------------------------------------
(* Capture of the decode graphs (CUDA). *)

\* _capture_cudagraphs: the graphs of full attention first.
GCaptureBase ==
  /\ gpc = "capture" /\ gcap.base # gcfg.sizes
  /\ \E n \in gcfg.sizes \ gcap.base : gcap' = [gcap EXCEPT !.base = @ \union {n}]
  /\ UNCHANGED <<gcfg, gpc, gat, gengine, gflag, gs, gm, gmemory, goff, gerr>>

\* build_dummy_sparse_meta raises the flags a graph with GSA is captured under.
GDummyFlags == [gs EXCEPT !.on = TRUE, !.dec = TRUE, !.only = TRUE, !.hit = FALSE]
\* maybe_capture_extra_cudagraphs: a graph with GSA per size.
GCaptureGsa ==
  /\ gpc = "capture" /\ gcap.base = gcfg.sizes /\ gcap.gsa # gcfg.sizes
  /\ \E n \in gcfg.sizes \ gcap.gsa :
       /\ gcap' = [gcap EXCEPT !.gsa = @ \union {n}]
       /\ gs' = GDummyFlags
  /\ gpc' = "reset"
  /\ UNCHANGED <<gcfg, gat, gengine, gflag, gm, gmemory, goff, gerr>>

\* reset_gsa_capture_state, after every size, even of a capture that raised.
GResetCapture ==
  /\ gpc = "reset"
  /\ gs' = [gs EXCEPT !.on = FALSE, !.dec = FALSE, !.only = FALSE, !.hit = FALSE]
  /\ gpc' = IF gcap.gsa = gcfg.sizes THEN "sched" ELSE "capture"
  /\ UNCHANGED <<gcfg, gat, gengine, gflag, gm, gmemory, gcap, goff, gerr>>

----------------------------------------------------------------------------
(* The scheduler's step. *)

\* Full blocks at the start of r that a running request computed.
GShared(r, others) ==
  LET full(s) == Min({gcfg.common, gcfg.prompt[r] - 1, gcfg.prompt[s], greq[s].c}) \div GB
      best == CHOOSE s \in others : \A t \in others : full(t) <= full(s)
  IN  IF ~gcfg.apc \/ others = {} THEN <<>> ELSE SubSeq(gtab[best], 1, full(best))

\* The connector reports whole blocks, and never the last token.
GExternal(r, local, e) ==
  LET held == (Min({e, greq[r].n}) \div GB) * GB
  IN  IF held <= local THEN 0 ELSE IF held = greq[r].n THEN held - local - 1 ELSE held - local

GAdmissions(S) == {<<>>} \union {<<r>> : r \in S} \union {<<p[1], p[2]>> : p \in {p \in S \X S : p[1] # p[2]}}

\* Tables long enough for the tokens of this step, one request after the other.
GAllocated(tab, need, order) ==
  FoldLeft(LAMBDA t, r :
            LET held == UNION {ToSet(t[x]) : x \in DOMAIN t}
                free == GOrder(GBlocks \ held)
            IN  IF t = <<>> \/ need[r] - Len(t[r]) > Len(free) THEN <<>>
                ELSE [t EXCEPT ![r] = @ \o SubSeq(free, 1, need[r] - Len(@))],
          tab, order)

\* update_states drops the flag of finished and resumed requests.
GForgotten(new) ==
  [r \in DOMAIN gflag \ ({r \in new : greq[r].res} \union {r \in GReqs : greq[r].st = "done"}) |-> gflag[r]]

\* Some running request may be preempted, up to two waiting ones admitted with what the
\* caches hold of them.
GSchedule ==
  /\ gpc = "sched" /\ (GRunning \union GWaiting) # {}
  /\ \E P \in {{}} \union (IF gleft > 0 THEN {{r} : r \in GRunning} ELSE {}) :
     \E A \in GAdmissions(GWaiting) : \E e \in [ToSet(A) -> gcfg.ext] :
       LET stay  == GRunning \ P
           new   == ToSet(A)
           share == [r \in new |-> GShared(r, stay)]
           ext   == [r \in new |-> GExternal(r, GB * Len(share[r]), e[r])]
           from  == [r \in stay \union new |->
                       IF r \in new THEN GB * Len(share[r]) + ext[r] ELSE greq[r].c]
           q     == [r \in stay \union new |-> Min({greq[r].n - from[r], gcfg.chunk})]
           tab0  == [r \in GReqs |-> IF r \in new THEN share[r] ELSE IF r \in stay THEN gtab[r] ELSE <<>>]
           tab   == GAllocated(tab0, [r \in stay \union new |-> GCeil(from[r] + q[r], GB)], GOrder(stay) \o A)
       IN  /\ stay \union new # {} /\ tab # <<>>
           /\ P # {} => A = <<>>
           /\ gtab' = tab
           /\ greq' = [r \in GReqs |->
                CASE r \in P   -> [greq[r] EXCEPT !.st = "wait", !.c = 0, !.res = TRUE]
                  [] r \in new -> [greq[r] EXCEPT !.st = "run", !.c = from[r]]
                  [] OTHER     -> greq[r]]
           /\ gplan' = [q |-> q, new |-> A, ext |-> ext]
           /\ gleft' = gleft - Cardinality(P)
           /\ gflag' = GForgotten(new)
           \* the store's blocks are loaded before the first layer
           /\ gkv' = [l \in GHashed |->
                FoldSet(LAMBDA r, kv :
                          LET first == GB * Len(share[r])
                              last  == GB * GCeil(from[r], GB) - 1
                          IN  [s \in {GSlot(tab[r], p) : p \in first..last} |->
                                 GToken(r, CHOOSE p \in first..last : GSlot(tab[r], p) = s)] @@ kv,
                        gkv[l], {r \in new : ext[r] > 0})]
           /\ goff' = {r \in goff : r \in stay}
                        \union {r \in new : \E s \in goff \intersect stay : share[r] # <<>>}
  /\ gpc' = "build"
  /\ UNCHANGED <<gcfg, gat, gs, gm, ghash, gcap, gerr>>

----------------------------------------------------------------------------
(* Metadata of the step. *)

GDecodeRows == {r \in GScheduled : gplan.q[r] = 1}

\* get_seq_lens: every row (GQA), else the decode rows; an MLA batch without any offers
\* the lengths of its context, or of its queries when there is none.
GSeqLens ==
  IF ~gcfg.mla THEN [r \in GScheduled |-> GLen(r)]
  ELSE IF GDecodeRows # {} THEN [r \in GDecodeRows |-> GLen(r)]
  ELSE IF gcfg.npu THEN [r \in GScheduled |-> GLen(r)]
  ELSE IF \E r \in GScheduled : greq[r].c > 0 THEN [r \in GScheduled |-> greq[r].c]
  ELSE gplan.q

GIsDecode(r)    == r \in DOMAIN gflag /\ ~gflag[r]
GIsFirst(r)     == r \notin DOMAIN gflag
GIsLastChunk(r) == ~GIsDecode(r) /\ GLen(r) >= gcfg.prompt[r]

\* rebuild_prefix_cache_info_for_req: how many tokens of r to hash again.
GPrefixTokens(r) == Max({0, gcfg.prompt[r] - gplan.q[r]})
GPrefixReqs      == SelectSeq(gplan.new, LAMBDA r : GIsFirst(r) /\ gplan.ext[r] > 0)

\* update_seq_lens: whole blocks are dropped until at most topk tokens are left.
GShortened(n) == n - GCeil(Max({0, n - gcfg.topk}), GB) * GB

GLong     == {r \in DOMAIN GSeqLens : GSeqLens[r] >= gcfg.thr}
GOn       == Cardinality(GLong) >= gcfg.conc
GDecodes  == {r \in GScheduled : GIsDecode(r)}
\* decode_mask of build_decode_attention_meta_npu
GMask     == {r \in GDecodeRows : GLen(r) >= gcfg.thr}

GFullMeta == [r \in GScheduled |-> [tab |-> gtab[r], len |-> GLen(r)]]

\* Lengths after top-k, where the step prepares them: on CUDA prepare_cuda_decode_sparse_meta,
\* if a request decodes; on NPU build_decode_attention_meta_npu, with the metadata.
GPrepared ==
  CASE ~gcfg.npu /\ GOn /\ GDecodes # {} ->
         [r \in (IF gcfg.mla THEN GDecodeRows ELSE GScheduled) |-> GShortened(GLen(r))]
    [] gcfg.npu /\ gcfg.mla /\ GDecodeRows # {} -> [r \in GDecodeRows |-> GShortened(GLen(r))]
    [] gcfg.npu /\ ~gcfg.mla /\ GMask # {} ->
         [r \in GScheduled |-> IF r \in GMask THEN GShortened(GLen(r)) ELSE GLen(r)]
    [] OTHER -> gs.lens

\* The rows top-k rewrites: flagged decodes (GQA, CUDA), long rows of one token (GQA, NPU),
\* all rows of one token (MLA).
GSparseRows == IF gcfg.mla THEN GDecodeRows ELSE IF gcfg.npu THEN GMask ELSE GDecodes

\* A key of the dispatcher: the smallest captured size that holds the batch.
GUniform  == \A r \in GScheduled : gplan.q[r] = 1
GKey(keys) == GUniform /\ \E n \in keys : n >= Cardinality(GScheduled)

\* resolve_batch_descriptor, dispatch, adjust_cudagraph_runtime_mode.
GWantsGsa(on, only, hit) == on /\ ~hit /\ only /\ GKey(gcap.gsa)
GGraph(on, only, hit) ==
  IF GWantsGsa(on, only, hit) THEN "gsa"
  ELSE IF GKey(gcap.base) /\ ~hit THEN "base" ELSE "none"
GReplayed(on, only, hit) == IF gcfg.npu THEN "none" ELSE GGraph(on, only, hit)

\* build_sparse_meta.  A replayed graph without GSA runs what it captured: neither flag is up.
GBuild ==
  /\ gpc = "build"
  /\ gm' = GFullMeta
  /\ LET hit    == GPrefixReqs # <<>>
         only   == GOn /\ GDecodes = GScheduled
         replay == GReplayed(GOn, only, hit) = "base"
         bad    == {r \in ToSet(GPrefixReqs) : gplan.q[r] > gcfg.prompt[r]}
         before(r) == {GPrefixReqs[i] : i \in {i \in DOMAIN GPrefixReqs : i < CHOOSE j \in DOMAIN GPrefixReqs : GPrefixReqs[j] = r}}
     IN  /\ gs' = [gs EXCEPT !.on = GOn /\ ~replay, !.dec = GOn /\ GDecodes # {}, !.only = only, !.hit = hit,
                             !.rows = GSparseRows, !.lens = GPrepared, !.ori = GFullMeta,
                             !.prefix = [i \in DOMAIN GPrefixReqs |-> <<GPrefixReqs[i], GPrefixTokens(GPrefixReqs[i])>>]]
         /\ gerr' = gerr \union bad
         /\ gpc' = IF bad # {} THEN "dead" ELSE IF gcfg.mla THEN "write" ELSE "begin"
         \* known to be off: the prompt is not all the request had, or the keys of an earlier
         \* request do not end with a block
         /\ goff' = goff \union {r \in ToSet(GPrefixReqs) :
                       \/ GPrefixTokens(r) # greq[r].c
                       \/ \E s \in before(r) : GPrefixTokens(s) % GB # 0}
  /\ gflag' = [r \in GScheduled |-> IF GIsLastChunk(r) THEN FALSE ELSE GIsFirst(r) \/ gflag[r]] @@ gflag
  /\ gat' = [layer |-> 1, phase |-> 1]
  /\ UNCHANGED <<gcfg, gengine, gmemory, gcap>>

----------------------------------------------------------------------------
(* One layer: hash the keys, pick the blocks, attend, restore. *)

GPrefillRows == GScheduled \ GDecodeRows
GPhases ==
  IF ~gcfg.mla THEN <<"all">>
  ELSE SelectSeq(IF gcfg.npu THEN <<"decode", "prefill">> ELSE <<"prefill", "decode">>,
                 LAMBDA f : (IF f = "decode" THEN GDecodeRows ELSE GPrefillRows) # {})
GPhase == GPhases[gat.phase]
GRowsOf(f) == CASE f = "all" -> GScheduled [] f = "decode" -> GDecodeRows [] OTHER -> GPrefillRows

\* Tokens of the rows in batch order: <<request, position>>.
GTokensOf(rows) ==
  FoldLeft(LAMBDA s, r : s \o [i \in 1..gplan.q[r] |-> <<r, greq[r].c + i - 1>>], <<>>, GOrder(rows))
GBatch == GTokensOf(GDecodeRows) \o GTokensOf(GPrefillRows)

\* Cells written at slots; the same slot twice keeps the last.
GWritten(mem, slots, cells) ==
  [s \in {slots[i] : i \in DOMAIN slots} |->
     cells[CHOOSE i \in DOMAIN slots : slots[i] = s /\ \A j \in DOMAIN slots : slots[j] = s => j <= i]] @@ mem
GSlotsOf(toks) == [i \in DOMAIN toks |-> GSlot(gtab[toks[i][1]], toks[i][2])]
GCellsOf(toks) == [i \in DOMAIN toks |-> GToken(toks[i][1], toks[i][2])]

\* The keys of a phase against its slots.  MLA on CUDA passes the slots of the whole batch with
\* the keys of the prefills, whose last rows then read past the keys; the decode phase that
\* follows hashes the batch again.
GCacheHashes(mem, f) ==
  LET own == GTokensOf(GRowsOf(f))
  IN  IF gcfg.mla /\ ~gcfg.npu
      THEN LET keys == IF f = "decode" THEN GBatch ELSE own
           IN  GWritten(mem, GSlotsOf(GBatch),
                        [i \in DOMAIN GBatch |-> IF i <= Len(keys) THEN GCellsOf(keys)[i] ELSE GJunk])
      ELSE GWritten(mem, GSlotsOf(own), GCellsOf(own))

\* The keys of the blocks that hold the prefixes, one block after the other, against the
\* slots of the prefixes' tokens.
GPrefixSlots(prefix) ==
  FoldLeft(LAMBDA s, x : s \o [i \in 1..x[2] |-> GSlot(gtab[x[1]], i - 1)], <<>>, prefix)
GPrefixKeys(kv, prefix) ==
  FoldLeft(LAMBDA s, x : s \o [i \in 1..GB * GCeil(x[2], GB) |-> kv[GSlot(gtab[x[1]], i - 1)]], <<>>, prefix)
GRebuilt(mem, kv) ==
  IF gs.hit THEN GWritten(mem, GPrefixSlots(gs.prefix), GPrefixKeys(kv, gs.prefix)) ELSE mem

\* Mutant: only while GSA is on.
GLayerHashesWhenOn(f) ==
  IF GKind = "hash" /\ gs.on THEN [ghash EXCEPT ![gat.layer] = GRebuilt(GCacheHashes(@, f), gkv[gat.layer])] ELSE ghash
\* Hashes kept by a layer: always, so that a request decoded later finds them.
GLayerHashes(f) ==
  IF GKind = "hash" THEN [ghash EXCEPT ![gat.layer] = GRebuilt(GCacheHashes(@, f), gkv[gat.layer])] ELSE ghash

\* The ranking kernel: the first block, the last four, and any others up to topk.
GKept(m) ==
  LET nb == GCeil(m.len, GB)
      k  == gcfg.topk \div GB
      must == {1} \union (nb - 3)..nb
  IN  IF nb <= k THEN {m.tab}
      ELSE {GOrder(must \union x) : x \in kSubset(k - Cardinality(must), 2..nb - 4)}
GRow(m, kept) == IF kept = m.tab THEN m.tab ELSE [i \in DOMAIN kept |-> m.tab[kept[i]]]

\* What is left over from another step stands for whatever that was.
GStale  == [tab |-> <<>>, len |-> -1]
GLenOf(r) == IF r \in DOMAIN gs.lens THEN gs.lens[r] ELSE -1

\* Rows rewritten by this phase, if any: the method is on, a request decodes (GQA) or the
\* phase is decode (MLA), and the layer is not exempt.
GRewrites(f) == gs.on /\ GKind # "rollback" /\ (IF gcfg.mla THEN f = "decode" ELSE gs.dec)
\* nothing was prepared for these rows in this step
GUnprepared(f) ==
  GRewrites(f) /\ (IF gcfg.mla THEN ~gcfg.npu /\ ~gs.dec ELSE gcfg.npu /\ gs.rows = {})

\* attention_begin
GBegin ==
  /\ gpc = "begin"
  /\ ghash' = GLayerHashes(GPhase)
  /\ \/ ~GRewrites(GPhase) /\ UNCHANGED <<gm, gs>>
     \/ /\ GUnprepared(GPhase)
        /\ gm' = [r \in DOMAIN gm |-> IF r \in GRowsOf(GPhase) THEN GStale ELSE gm[r]]
        /\ gs' = [gs EXCEPT !.top = gm']
     \/ /\ GRewrites(GPhase) /\ ~GUnprepared(GPhase) /\ GKind = "skip"
        /\ gm' = gs.top
        /\ UNCHANGED gs
     \/ /\ GRewrites(GPhase) /\ ~GUnprepared(GPhase) /\ GKind = "hash"
        /\ \E kept \in [gs.rows -> UNION {GKept(gm[r]) : r \in gs.rows}] :
             /\ \A r \in gs.rows : kept[r] \in GKept(gm[r])
             /\ gm' = [r \in DOMAIN gm |->
                  IF r \in gs.rows THEN [tab |-> GRow(gm[r], kept[r]), len |-> GLenOf(r)] ELSE gm[r]]
        /\ gs' = [gs EXCEPT !.top = gm']
  /\ gpc' = "attend"
  /\ UNCHANGED <<gcfg, gat, gengine, gflag, gkv, gcap, goff, gerr>>

\* The keys of the batch go to the cache: before the phases (MLA), else within the forward.
GKeysWritten ==
  IF GKind = "hash" THEN [gkv EXCEPT ![gat.layer] = GWritten(@, GSlotsOf(GBatch), GCellsOf(GBatch))] ELSE gkv
GWrite ==
  /\ gpc = "write"
  /\ gkv' = GKeysWritten
  /\ gpc' = "begin"
  /\ UNCHANGED <<gcfg, gat, gengine, gflag, gs, gm, ghash, gcap, goff, gerr>>

\* attention_finished, then the next phase or layer.
GRestored(f) == IF GRewrites(f) THEN gs.ori ELSE gm
GAttend ==
  /\ gpc = "attend"
  /\ gkv' = IF gcfg.mla THEN gkv ELSE GKeysWritten
  /\ gm' = GRestored(GPhase)
  /\ IF gat.phase < Len(GPhases) THEN gat' = [gat EXCEPT !.phase = @ + 1] /\ gpc' = "begin"
     ELSE IF gat.layer < Len(gcfg.layers)
     THEN gat' = [layer |-> gat.layer + 1, phase |-> 1] /\ gpc' = IF gcfg.mla THEN "write" ELSE "begin"
     ELSE gat' = [layer |-> 1, phase |-> 1] /\ gpc' = "end"
  /\ UNCHANGED <<gcfg, gengine, gflag, gs, ghash, gcap, goff, gerr>>

\* execute_finished; a request whose tokens are all computed gets one more, up to its limit.
GEnd ==
  /\ gpc = "end"
  /\ gs' = [gs EXCEPT !.on = FALSE, !.dec = FALSE, !.only = FALSE, !.hit = FALSE]
  /\ greq' = [r \in GReqs |->
       IF r \notin GScheduled THEN greq[r]
       ELSE IF GLen(r) < greq[r].n THEN [greq[r] EXCEPT !.c = GLen(r)]
       ELSE IF greq[r].n - gcfg.prompt[r] = gcfg.out[r] THEN [greq[r] EXCEPT !.c = GLen(r), !.st = "done"]
       ELSE [greq[r] EXCEPT !.c = GLen(r), !.n = @ + 1]]
  /\ gtab' = [r \in GReqs |-> IF greq'[r].st = "done" THEN <<>> ELSE gtab[r]]
  /\ gplan' = GNoPlan /\ gm' = <<>>
  /\ gpc' = "sched"
  /\ UNCHANGED <<gcfg, gat, gleft, gflag, gmemory, gcap, goff, gerr>>

GRest == (gpc = "dead" \/ (gpc = "sched" /\ GRunning \union GWaiting = {})) /\ UNCHANGED gvars

GsaNext == GCaptureBase \/ GCaptureGsa \/ GResetCapture \/ GSchedule \/ GBuild \/ GWrite \/ GBegin \/ GAttend
           \/ GEnd \/ GRest
GsaSpec == GsaInit /\ [][GsaNext]_gvars

----------------------------------------------------------------------------
(* Properties. *)

\* The first blocks of a row cover its tokens.
GRowIn(small, big) == \E f \in [DOMAIN small -> DOMAIN big] :
  /\ \A i, j \in DOMAIN small : i < j => f[i] < f[j]
  /\ \A i \in DOMAIN small : small[i] = big[f[i]]

\* What a layer attends to.  A row that is exempt (a prefill, a layer of the rollback list, GSA
\* off) sees its whole table.  Any other sees blocks of its own in order, its last one with the
\* newest token among them, and a length that counts exactly the tokens they hold.  The
\* metadata is shared by all layers, so a layer that failed to restore it shows in a later one.
\* Steps that rewrite rows for which nothing was prepared (GUnprepared) are left out.
GsaSeesRight ==
  (gpc = "attend" /\ ~GUnprepared(GPhase)) =>
    \A r \in GRowsOf(GPhase) :
      LET all == GLen(r)
          nb  == GCeil(all, GB)
          k   == GCeil(gm[r].len, GB)
          tab == SubSeq(gm[r].tab, 1, k)
      IN  IF GRewrites(GPhase) /\ r \in gs.rows
          THEN /\ Len(gm[r].tab) >= k /\ GRowIn(tab, gtab[r])
               /\ tab[k] = gtab[r][nb]
               /\ gm[r].len = (k - 1) * GB + all - (nb - 1) * GB
               /\ all > gcfg.topk => gm[r].len <= gcfg.topk /\ gm[r].len > gcfg.topk - GB
          ELSE gm[r].tab = gtab[r] /\ gm[r].len = all

\* When blocks are ranked for a row, every hash of the row is the hash of the row's own key in
\* that slot: computed, found in a shared block, or rebuilt from loaded keys.  Requests whose
\* prefix was rebuilt with a wrong extent (goff) are left out.
GsaHashesRight ==
  /\ (gpc = "attend" /\ GKind = "hash" /\ GRewrites(GPhase)) =>
       \A r \in gs.rows \ goff : \A p \in 0..GLen(r) - 1 :
         ghash[gat.layer][GSlot(gtab[r], p)] = GToken(r, p)
  /\ gpc = "sched" =>
       \A r \in GRunning \ goff : \A p \in 0..greq[r].c - 1 : \A l \in GHashed :
         ghash[l][GSlot(gtab[r], p)] = GToken(r, p)

\* GSA on device: every layer attends to the right blocks, chosen by the right hashes.
GsaRight == GsaSeesRight /\ GsaHashesRight
=============================================================================
