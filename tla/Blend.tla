------------------------------- MODULE Blend -------------------------------
(***************************************************************************)
(* Cache blending: UCMBlendConnector (integration/vllm/blend_connector.py) *)
(* stores the KV cache of text chunks on their own, loads it wherever a    *)
(* chunk stands in a later prompt and turns its keys to the new positions; *)
(* the sparse method Blend (sparse/blend) then recomputes, from one layer  *)
(* on, only the tokens whose keys deviate most.                            *)
(*                                                                         *)
(* A cell of the KV cache records the token, the position its key is       *)
(* turned to and the tokens it was computed after (Approx when some of     *)
(* those were reused).  Hidden states, residual and positions are          *)
(* sequences of the tokens their rows belong to.  Which keys deviate most  *)
(* is arbitrary.  The engine, its block pool and the store are external.   *)
(* A step whose tensors no longer agree is not followed ("odd").           *)
(***************************************************************************)
EXTENDS Integers, Sequences, FiniteSets, SequencesExt, FiniteSetsExt, TLC

CONSTANT BlendSetups

VARIABLES
  bcfg,    \* the setup, fixed
  bpc,     \* part of the step under way
  breq,    \* request -> status, tokens, computed tokens, resumed
  btab,    \* request -> its blocks
  bleft,   \* preemptions left
  bmeta,   \* requests_blend_meta
  bstore,  \* hash -> layer -> cells of a block
  bstep,   \* scheduler output: rows of the batch, cached requests first; tokens per request
  bdisp,   \* connector metadata: request -> loads, dumps, chunks
  bkv,     \* layer -> block -> cells
  blayer,  \* layer under way
  bw,      \* BlendMetaData of the worker and the attention metadata
  bx       \* hidden states, residual and positions of the model

bengine == <<breq, btab, bleft>>
bvars   == <<bcfg, bpc, bengine, bmeta, bstore, bstep, bdisp, bkv, blayer, bw, bx>>

BEnd    == 0
Approx  == <<-1>>
BS      == bcfg.bs
BReqs   == DOMAIN bcfg.prompt
BLayers == DOMAIN bcfg.ratio
BBlank  == [tok |-> -1, pos |-> -1, ctx |-> <<>>]
BOrder(S) == [i \in 1..Cardinality(S) |-> CHOOSE x \in S : Cardinality({y \in S : y < x}) = i - 1]
\* s[a:b]
BSlice(s, a, b) == SubSeq(s, a + 1, Min({b, Len(s)}))
\* itertools.compress
BCompress(s, hits) ==
  LET at == BOrder({i \in 1..Min({Len(s), Len(hits)}) : hits[i]}) IN [i \in 1..Len(at) |-> s[at[i]]]
BConcat(ss) == FoldLeft(LAMBDA acc, s : acc \o s, <<>>, ss)
BCount(hits) == Cardinality({i \in DOMAIN hits : hits[i]})

BNoStep == [rows |-> <<>>, q |-> <<>>, cached |-> 0]
BNoWork == [reqs |-> <<>>, mask |-> <<>>, start |-> <<0>>, slots |-> <<>>, re |-> FALSE]
BNoRows == [hid |-> <<>>, res |-> <<>>, pos |-> <<>>]

BlendInit ==
  /\ bcfg \in BlendSetups
  /\ bpc = "sched"
  /\ breq = [r \in BReqs |-> [st |-> "wait", toks |-> bcfg.prompt[r], c |-> 0, resumed |-> FALSE]]
  /\ btab = [r \in BReqs |-> <<>>] /\ bleft = bcfg.preempts
  /\ bmeta = <<>> /\ bstore = <<>> /\ bstep = BNoStep /\ bdisp = <<>>
  /\ bkv = [l \in BLayers |-> [b \in 1..bcfg.pool |-> [i \in 1..bcfg.bs |-> BBlank]]]
  /\ blayer = 1 /\ bw = BNoWork /\ bx = BNoRows

----------------------------------------------------------------------------
(* UCMBlendConnector in the scheduler. *)

\* generate_hash: the hash of a block stands for the tokens up to its end.
BHashes(toks) == [i \in 1..(Len(toks) \div BS) |-> SubSeq(toks, 1, i * BS)]

\* The last token of a chunk ends a block; a chunk is hashed and was cached from position 0.
BChunk(toks, first, last) ==
  [start |-> first, len |-> last - first + 1, cached |-> 0, hits |-> <<>>,
   hashes |-> BHashes(BSlice(toks, first * BS, (last + 1) * BS))]
BChunks(toks) ==
  LET ends == BOrder({e \in 0..(Len(toks) \div BS) - 1 : toks[(e + 1) * BS] = BEnd})
  IN  [i \in DOMAIN ends |-> BChunk(toks, IF i = 1 THEN 0 ELSE ends[i - 1] + 1, ends[i])]

\* _process_req
BProcess(toks) ==
  CASE toks[Len(toks)] = BEnd /\ Len(toks) % BS = 0 -> [stage |-> "chunk", chunks |-> <<>>]
    [] OTHER -> [stage |-> IF BChunks(toks) = <<>> THEN "prefix" ELSE "blend", chunks |-> BChunks(toks)]

BLookup(hashes) == [i \in DOMAIN hashes |-> hashes[i] \in DOMAIN bstore]
BHitPrefix(hits) == CHOOSE n \in 0..Len(hits) :
  (\A i \in 1..n : hits[i]) /\ (n < Len(hits) => ~hits[n + 1])

\* update_meta_partial_pc: the prefix hit is taken off a chunk.
BPartial(ch, n) ==
  [ch EXCEPT !.start = @ + n, !.len = @ - n, !.cached = @ + n,
             !.hashes = BSlice(@, n, Len(@)), !.hits = BSlice(@, n, Len(@))]
\* _get_req_chunk_hit of a request with chunks; only its first chunk gives up the prefix hit.
BChunkHits(chunks, prefixHits, pc) ==
  LET all  == BConcat([i \in DOMAIN chunks |-> chunks[i].hashes])
      hits == BSlice(prefixHits, 0, pc) \o BLookup(BSlice(all, pc, Len(all)))
      withHits == [i \in DOMAIN chunks |->
         [chunks[i] EXCEPT !.hits = BSlice(hits, chunks[i].start, chunks[i].start + chunks[i].len)]]
      first == BPartial(withHits[1], pc)
  IN  [n |-> BCount(BLookup(BSlice(all, pc, Len(all)))),
       chunks |-> IF first.len = 0 THEN Tail(withHits) ELSE <<first>> \o Tail(withHits)]

\* get_num_new_matched_tokens; too few chunk hits make it an ordinary prefix request.
BMatch(toks) ==
  LET req    == BProcess(toks)
      hashes == BHashes(toks)
      pc     == BHitPrefix(BLookup(hashes))
      found  == IF req.stage = "blend" THEN BChunkHits(req.chunks, BLookup(hashes), pc)
                ELSE [n |-> 0, chunks |-> req.chunks]
      blends == found.n >= bcfg.thr /\ req.stage = "blend"
      tokens == pc * BS
  IN  [tokens |-> IF tokens = Len(toks) THEN tokens - 1 ELSE tokens,
       meta |-> [pc |-> pc, stage |-> IF blends THEN "blend" ELSE "prefix",
                 chunks |-> IF blends THEN found.chunks ELSE <<>>,
                 hashes |-> IF blends THEN BConcat([i \in DOMAIN req.chunks |-> req.chunks[i].hashes])
                            ELSE hashes]]
\* A prompt without a full block gets no metadata.
BMatched(r) == IF Len(breq[r].toks) \div BS = 0 THEN [tokens |-> 0, meta |-> <<>>] ELSE BMatch(breq[r].toks)

\* Blended keys depend on the whole prompt and are not stored.
BDumps(meta) == meta.stage # "blend"
\* _generate_blend_dispatch_meta
BDispatchMeta(meta, blocks) ==
  LET placed == [i \in DOMAIN meta.chunks |->
        [off |-> (meta.chunks[i].start - meta.chunks[i].cached) * BS, hits |-> meta.chunks[i].hits,
         start |-> meta.chunks[i].start,
         hashes |-> BCompress(meta.chunks[i].hashes, meta.chunks[i].hits),
         blocks |-> BCompress(BSlice(blocks, meta.chunks[i].start, meta.chunks[i].start + meta.chunks[i].len),
                              meta.chunks[i].hits)]]
      n == Len(meta.hashes)
  IN  [chunks |-> placed,
       loadH |-> BSlice(meta.hashes, 0, meta.pc) \o BConcat([i \in DOMAIN placed |-> placed[i].hashes]),
       loadB |-> BSlice(blocks, 0, meta.pc) \o BConcat([i \in DOMAIN placed |-> placed[i].blocks]),
       dumpH |-> IF BDumps(meta) THEN BSlice(meta.hashes, meta.pc, n) ELSE <<>>,
       dumpB |-> IF BDumps(meta) THEN BSlice(blocks, meta.pc, n) ELSE <<>>]
\* build_connector_meta: new requests with metadata, and cached ones with more than a token.
BConnectorMeta(meta, tab, q, new) ==
  LET sent == {r \in DOMAIN q : r \in DOMAIN meta /\ (r \in new \/ q[r] # 1)}
  IN  [r \in sent |-> BDispatchMeta(meta[r], tab[r])]

----------------------------------------------------------------------------
(* The engine's step. *)

BRunning == {r \in BReqs : breq[r].st = "run"}
BWaiting == {r \in BReqs : breq[r].st = "wait"}
\* First come, first served; a preempted request came before those that still wait.
BAdmissions(S) == {SubSeq(BOrder(S), 1, n) : n \in 0..Min({2, Cardinality(S)})}
BBlocksFor(n) == (n + BS - 1) \div BS
\* Every request gets the blocks its tokens need; <<>> when the pool is too small.
BAllocated(tab, order) ==
  FoldLeft(LAMBDA t, r :
             LET free == BOrder(1..bcfg.pool \ UNION {ToSet(t[x]) : x \in DOMAIN t})
                 need == BBlocksFor(Len(breq[r].toks))
             IN  IF t = <<>> \/ need - Len(t[r]) > Len(free) THEN <<>>
                 ELSE [t EXCEPT ![r] = @ \o SubSeq(free, 1, need - Len(@))],
           tab, order)

\* A running request is preempted and waits to be resumed.
BPreempt(r) ==
  /\ bpc = "sched" /\ bleft > 0 /\ r \in BRunning
  /\ breq' = [breq EXCEPT ![r].st = "wait", ![r].c = 0, ![r].resumed = TRUE]
  /\ btab' = [btab EXCEPT ![r] = <<>>]
  /\ bleft' = bleft - 1
  /\ UNCHANGED <<bcfg, bpc, bmeta, bstore, bstep, bdisp, bkv, blayer, bw, bx>>

\* Running requests decode a token; admitted ones prefill all that was not matched.
BSchedule ==
  /\ bpc = "sched"
  /\ \E adm \in BAdmissions(BWaiting) :
       LET new   == {r \in ToSet(adm) : ~breq[r].resumed}
           cached == BOrder(BRunning) \o SelectSeq(adm, LAMBDA r : breq[r].resumed)
           rows  == cached \o SelectSeq(adm, LAMBDA r : r \in new)
           hit   == [r \in ToSet(adm) |-> BMatched(r)]
           comp  == [r \in ToSet(rows) |-> IF r \in ToSet(adm) THEN hit[r].tokens ELSE breq[r].c]
           q     == [r \in ToSet(rows) |-> Len(breq[r].toks) - comp[r]]
           tab   == BAllocated(btab, rows)
           known == {r \in ToSet(adm) : hit[r].meta # <<>>}
           meta  == [r \in known |-> hit[r].meta] @@ bmeta
       IN  /\ rows # <<>> /\ tab # <<>>
           /\ bmeta' = meta /\ btab' = tab
           /\ breq' = [r \in BReqs |-> IF r \in ToSet(rows) THEN [breq[r] EXCEPT !.st = "run", !.c = comp[r]]
                                       ELSE breq[r]]
           /\ bstep' = [rows |-> rows, q |-> q, cached |-> Len(cached)]
           /\ bdisp' = BConnectorMeta(meta, tab, q, new)
  /\ bpc' = "load"
  /\ UNCHANGED <<bcfg, bleft, bstore, bkv, blayer, bw, bx>>

----------------------------------------------------------------------------
(* The worker. *)

BSlot(r, p)  == <<btab[r][(p \div BS) + 1], (p % BS) + 1>>
BNewRows     == BSlice(bstep.rows, bstep.cached, Len(bstep.rows))
BFirstRow(k) == FoldLeft(LAMBDA n, r : n + bstep.q[r], 0, BSlice(bstep.rows, 0, k))
BRowTokens   == BConcat([k \in DOMAIN bstep.rows |->
  LET r == bstep.rows[k] IN [i \in 1..bstep.q[r] |-> <<r, breq[r].c + i - 1>>]])

\* add_request: only new requests with chunks take part.
BWork ==
  LET at == BOrder({k \in 1..Len(BNewRows) : bdisp[BNewRows[k]].chunks # <<>>})
      of(k) == LET d == bdisp[BNewRows[k]]
                   hits == BConcat([i \in DOMAIN d.chunks |-> d.chunks[i].hits])
               IN  [row |-> bstep.cached + k, hits |-> hits, prefix |-> d.chunks[1].start, blend |-> BCount(hits) > 0]
  IN  [i \in DOMAIN at |-> of(at[i])]

BLoads == UNION {{<<bdisp[r].loadH[i], bdisp[r].loadB[i]>> : i \in DOMAIN bdisp[r].loadB} : r \in DOMAIN bdisp}
BLoaded(l, b) ==
  IF \E p \in BLoads : p[2] = b /\ p[1] \in DOMAIN bstore
  THEN bstore[(CHOOSE p \in BLoads : p[2] = b /\ p[1] \in DOMAIN bstore)[1]][l] ELSE bkv[l][b]

\* A cached request of more than one token, a new one without chunks beside one that blends,
\* or a prefix hit past the first chunk: the masks no longer match the rows.
BLongHit(r) == \E ch \in ToSet(bmeta[r].chunks) : ch.len < 0
BOdd == /\ \E k \in 1..Len(BNewRows) : bdisp[BNewRows[k]].chunks # <<>>
        /\ \/ \E k \in 1..bstep.cached : bstep.q[bstep.rows[k]] # 1
           \/ \E k \in 1..Len(BNewRows) : bdisp[BNewRows[k]].chunks = <<>> \/ BLongHit(BNewRows[k])

\* start_load_kv waits for all loads; build_sparse_meta needs the metadata of every new request.
BLoad ==
  /\ bpc = "load"
  /\ bkv' = [l \in BLayers |-> [b \in 1..bcfg.pool |-> BLoaded(l, b)]]
  /\ IF \E k \in 1..Len(BNewRows) : BNewRows[k] \notin DOMAIN bdisp
     THEN bpc' = "crash" /\ UNCHANGED <<bw, bx, blayer>>
     ELSE /\ bpc' = IF BOdd THEN "odd" ELSE "layer"
          /\ blayer' = 1
          /\ bw' = [reqs |-> BWork, mask |-> [i \in DOMAIN BRowTokens |-> FALSE], re |-> FALSE,
                    start |-> [k \in 1..Len(bstep.rows) + 1 |-> BFirstRow(k - 1)],
                    slots |-> [i \in DOMAIN BRowTokens |-> BSlot(BRowTokens[i][1], BRowTokens[i][2])]]
          /\ bx' = [hid |-> BRowTokens, res |-> BRowTokens, pos |-> [i \in DOMAIN BRowTokens |-> BRowTokens[i][2]]]
  /\ UNCHANGED <<bcfg, bengine, bmeta, bstore, bstep, bdisp>>

BIndexed(s) == IF bw.re THEN BCompress(s, bw.mask) ELSE s

\* bind_connector_metadata lists the loaded chunk blocks with the offset of their chunk, and
\* wait_for_layer_load turns their keys by it.
BMoved == UNION {UNION {{<<ch.blocks[i], ch.off>> : i \in DOMAIN ch.blocks}
                          : ch \in ToSet(bdisp[r].chunks)} : r \in DOMAIN bdisp}
BTurned(cells, off) == [i \in DOMAIN cells |-> [cells[i] EXCEPT !.pos = @ + off]]
BRoped(l) ==
  [b \in 1..bcfg.pool |->
     IF \E m \in BMoved : m[1] = b THEN BTurned(bkv[l][b], (CHOOSE m \in BMoved : m[1] = b)[2]) ELSE bkv[l][b]]

\* The rows (from 1) of the chunks of a request, of those in a hit block, and how many of
\* these are computed again.
BChunkRows(w)  == bw.start[w.row] + 1..bw.start[w.row] + Len(w.hits) * BS
BHitRows(w)    == {i \in BChunkRows(w) : w.hits[((i - bw.start[w.row] - 1) \div BS) + 1]}
BTopK(w)       == (Cardinality(BHitRows(w)) * bcfg.ratio[blayer]) \div 10
BBlending      == {w \in ToSet(bw.reqs) : w.blend}
BReqRows(w)    == bw.start[w.row] + 1..bw.start[w.row + 1]

\* reset_compute_mask, then the rows of each request: misses, chosen hits and the question.
BMask(top) ==
  [i \in DOMAIN bw.mask |-> \/ i <= bstep.cached
                            \/ \E w \in ToSet(bw.reqs) : i \in BReqRows(w) /\ (w.blend => i \notin BHitRows(w) \/ i \in top)]
\* Mutant: the starts of the requests stay those of the whole batch.
BReducedKeepsStart(mask) == [bw EXCEPT !.mask = mask, !.re = TRUE, !.slots = BCompress(@, mask)]
\* update_query_lens and _update_attn_metadata
BReduced(mask) ==
  LET lens == [k \in DOMAIN bstep.rows |-> bw.start[k + 1] - bw.start[k]
                 - SumSet({Cardinality(BHitRows(w)) - BTopK(w) : w \in {v \in BBlending : v.row = k}})]
  IN  [bw EXCEPT !.mask = mask, !.re = TRUE, !.slots = BCompress(@, mask),
                 !.start = [k \in DOMAIN @ |-> FoldLeft(LAMBDA n, x : n + x, 0, SubSeq(lens, 1, k - 1))]]
\* attention_begin: in the layer of compute_meta the batch shrinks to the masked rows; any
\* choice of that many rows may deviate most.
BShrinks == bcfg.ratio[blayer] >= 0 /\ BBlending # {}
BTops == IF ~BShrinks THEN {{}}
         ELSE FoldLeft(LAMBDA sets, w : {s \union t : s \in sets, t \in kSubset(BTopK(w), BHitRows(w))},
                       {{}}, SelectSeq(bw.reqs, LAMBDA w : w.blend))
BAttentionBegin(top) == IF BShrinks THEN BReduced(BMask(top)) ELSE bw
BQuery(s, top) == IF BShrinks THEN BCompress(s, BMask(top)) ELSE s

\* layer_begin follows a batch that shrank in the layer before.
BPositions == IF Len(bx.pos) # Len(bx.hid) THEN BIndexed(bx.pos) ELSE bx.pos
\* What is computed is exact up to the layer where the batch shrinks.
BComputed(row, pos, work) ==
  LET toks == breq[row[1]].toks
      mixed == work.re /\ bcfg.ratio[blayer] < 0 /\ \E w \in ToSet(work.reqs) : w.blend /\ bstep.rows[w.row] = row[1]
  IN  [tok |-> toks[row[2] + 1], pos |-> pos, ctx |-> IF mixed THEN Approx ELSE SubSeq(toks, 1, row[2])]

\* layer_begin, wait_for_layer_load, attention_begin and the write of the keys, in this order.
BLayer ==
  /\ bpc = "layer"
  /\ \E top \in BTops :
       LET work   == BAttentionBegin(top)
           rows   == BQuery(bx.hid, top)
           pos    == BQuery(BPositions, top)
           roped  == BRoped(blayer)
           at(b, s) == {i \in DOMAIN rows : i <= Len(work.slots) /\ work.slots[i] = <<b, s>>}
       IN  /\ bkv' = [bkv EXCEPT ![blayer] = [b \in 1..bcfg.pool |-> [s \in 1..BS |->
                  IF at(b, s) = {} THEN roped[b][s]
                  ELSE LET i == Max(at(b, s)) IN BComputed(rows[i], pos[i], work)]]]
           /\ bw' = work
           /\ bx' = [bx EXCEPT !.hid = rows, !.pos = BPositions]
  /\ bpc' = "ffn"
  /\ UNCHANGED <<bcfg, bengine, bmeta, bstore, bstep, bdisp, blayer>>

\* ffn_begin brings the residual to the rows of the attention's output.
BResidual == IF bw.re /\ Len(bw.mask) = Len(bx.res) THEN BIndexed(bx.res) ELSE bx.res
BFfn ==
  /\ bpc = "ffn"
  /\ bx' = [bx EXCEPT !.res = BResidual]
  /\ IF blayer = Len(bcfg.ratio) THEN bpc' = "end" /\ UNCHANGED blayer
     ELSE bpc' = "layer" /\ blayer' = blayer + 1
  /\ UNCHANGED <<bcfg, bengine, bmeta, bstore, bstep, bdisp, bkv, bw>>

\* wait_for_save dumps; execute_finished picks the last row of every request; each request
\* gets a token or ends.
BDumped ==
  LET pairs == UNION {{<<bdisp[r].dumpH[i], bdisp[r].dumpB[i]>> : i \in DOMAIN bdisp[r].dumpH} : r \in DOMAIN bdisp}
  IN  [h \in {p[1] : p \in pairs} |->
        LET b == (CHOOSE p \in pairs : p[1] = h)[2] IN [l \in BLayers |-> bkv[l][b]]]
BStepEnd ==
  /\ bpc = "end"
  /\ bstore' = BDumped @@ bstore
  /\ breq' = [r \in BReqs |->
       IF r \notin DOMAIN bstep.q THEN breq[r]
       ELSE IF Len(breq[r].toks) = Len(bcfg.prompt[r]) + bcfg.outs THEN [breq[r] EXCEPT !.st = "done"]
       ELSE [breq[r] EXCEPT !.toks = Append(@, bcfg.outTok), !.c = Len(breq[r].toks), !.resumed = FALSE]]
  /\ btab' = [r \in BReqs |-> IF breq'[r].st = "done" THEN <<>> ELSE btab[r]]
  /\ bpc' = "sched" /\ bstep' = BNoStep /\ bdisp' = <<>> /\ bw' = BNoWork /\ bx' = BNoRows /\ blayer' = 1
  /\ UNCHANGED <<bcfg, bleft, bmeta, bkv>>

BRest == \/ bpc = "sched" /\ (\A r \in BReqs : breq[r].st = "done") /\ UNCHANGED bvars
         \/ bpc \in {"odd", "crash"} /\ UNCHANGED bvars

BlendNext == \/ \E r \in BReqs : BPreempt(r)
             \/ BSchedule \/ BLoad \/ BLayer \/ BFfn \/ BStepEnd \/ BRest
BlendSpec == BlendInit /\ [][BlendNext]_bvars

----------------------------------------------------------------------------
\* A resumed request with one token to compute is taken for a decode and loads nothing.
BNotLoaded(r) == breq[r].resumed /\ bstep.q[r] = 1

(* Whatever was loaded, turned, reused or computed again, a layer attends  *)
(* for every request to the keys of its own tokens at their own positions, *)
(* and, for a request that does not blend, computed after exactly the      *)
(* tokens before them.                                                     *)
BlendAttendsRight ==
  bpc = "ffn" => \A r \in DOMAIN bstep.q : ~BNotLoaded(r) =>
    \A p \in 0..Len(breq[r].toks) - 1 :
      LET cell == bkv[blayer][BSlot(r, p)[1]][BSlot(r, p)[2]]
      IN  /\ cell.tok = breq[r].toks[p + 1] /\ cell.pos = p
          /\ r \in DOMAIN bmeta /\ bmeta[r].stage # "blend" => cell.ctx = SubSeq(breq[r].toks, 1, p)

(* After a batch shrank, rows, positions, slots, residual and the starts   *)
(* of the requests still describe the same tokens: every token that is not *)
(* reused is computed, and the row whose logits are sampled is the last    *)
(* token of its request.                                                   *)
BlendRowsAgree ==
  /\ bpc = "ffn" =>
       /\ Len(bw.slots) = Len(bx.hid) /\ bw.start[Len(bw.start)] = Len(bx.hid)
       /\ \A i \in DOMAIN bx.hid : bw.slots[i] = BSlot(bx.hid[i][1], bx.hid[i][2])
       /\ \A k \in DOMAIN bstep.rows :
            /\ \A i \in bw.start[k] + 1..bw.start[k + 1] : bx.hid[i][1] = bstep.rows[k]
            /\ bx.hid[bw.start[k + 1]][2] = Len(breq[bstep.rows[k]].toks) - 1
  /\ bpc \in {"layer", "end"} => bx.res = bx.hid

(* A stored block holds what its hash says: its tokens, at the positions   *)
(* and after the tokens of the hash.  Blended keys are never stored.       *)
BlendStoredExact ==
  \A h \in DOMAIN bstore : \A l \in BLayers : \A i \in 1..BS :
    LET p == Len(h) - BS + i - 1
    IN  bstore[h][l][i] = [tok |-> h[p + 1], pos |-> p, ctx |-> SubSeq(h, 1, p)]

(* Blending: right keys, a batch that agrees with itself, exact blocks.    *)
BlendRight == BlendAttendsRight /\ BlendRowsAgree /\ BlendStoredExact
=============================================================================
