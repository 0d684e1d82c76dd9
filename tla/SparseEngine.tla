---------------------------- MODULE SparseEngine ----------------------------
(***************************************************************************)
(* The engine as patched for sparse attention (patch/v0110): the scheduler *)
(* asks the sparse method how many slots a decoding request still needs    *)
(* and lets it allocate them; the model runner replaces the request's      *)
(* block table by the shorter one; the method refills it with the window   *)
(* of the first blocks, the blocks a retrieval chose, and the last ones.   *)
(* Two methods do so: ESA (sparse/esa/esa.py) and KVStarMultiStep          *)
(* (sparse/kvstar/multistep.py).                                           *)
(*                                                                         *)
(* A cell of device memory names the token whose keys it holds, so what a  *)
(* decode attends to can be compared with what it should.  The pool of     *)
(* blocks is the engine's own and external; so are the store, from which   *)
(* a prompt's blocks load right, and the retrieval, which may choose any   *)
(* blocks.  One layer stands for all: layers share no sparse state.        *)
(***************************************************************************)
EXTENDS Integers, Sequences, FiniteSets, SequencesExt, FiniteSetsExt, TLC

CONSTANT SparseSetups

VARIABLES
  scfg,    \* the setup, fixed
  spc,     \* part of the step under way
  sidx,    \* next request of the running list
  \* --- scheduler
  sreq,    \* request -> status, tokens, computed tokens
  srun, swait,   \* running list and waiting queue
  spool,   \* block pool: free list, reference counts, hashes, blocks per request
  splan,   \* scheduler output
  stold,   \* finished_req_ids
  spre,    \* ESA: preempt_req_output_tokens
  saborts, \* aborts left
  \* --- worker
  wreq,    \* cached request states
  wrow,    \* rows of the persistent batch
  wst,     \* sparse state per request
  wslots,  \* ESA: free slots of the ReprePool
  smem,    \* block -> offset -> cell
  sfly,    \* loads in flight
  serr     \* raised errors

ssched  == <<sreq, srun, swait, spool, spre, saborts>>
swork   == <<wreq, wrow, wst, wslots, smem, sfly>>
svars   == <<scfg, spc, sidx, ssched, splan, stold, swork, serr>>

InvalidSlot == -1
SJunk  == <<0, 0>>
Stray == <<0, 1>>
NoHash == <<0, 2>>

SReqs     == DOMAIN scfg.prompt
SBlocks   == 1..scfg.pool
SB        == scfg.bs
SCeil(a, b) == (a + b - 1) \div b
SOut(r)   == sreq[r].n - scfg.prompt[r]
SPut(f, r, x) == (r :> x) @@ f
SDrop(f, S)   == [r \in DOMAIN f \ S |-> f[r]]
SOrder(S) == [i \in 1..Cardinality(S) |->
                CHOOSE x \in S : Cardinality({y \in S : y < x}) = i - 1]
SZip(s, S) == [i \in 1..Min({Len(s), Cardinality(S)}) |-> <<s[i], SOrder(S)[i]>>]
SAsMap(z) == [b \in {z[i][1] : i \in DOMAIN z} |-> (CHOOSE i \in DOMAIN z : z[i][1] = b)]
SMapOf(s, S) == LET z == SZip(s, S) IN [b \in DOMAIN SAsMap(z) |-> z[SAsMap(z)[b]][2]]
SImage(f) == {f[x] : x \in DOMAIN f}

\* The token at position p: prompts of one family have the same tokens.
Tok(r, p)   == IF p < scfg.prompt[r] THEN <<scfg.fam[r], p>> ELSE <<r, p>>
BlockOf(r, i) == [o \in 0..(SB - 1) |-> Tok(r, i * SB + o)]
HashAt(r, i)  == Tok(r, i * SB + SB - 1)

NoSPlan == [n |-> <<>>, slots |-> <<>>, give |-> <<>>, comp |-> <<>>, new |-> {}, resumed |-> {},
            preempted |-> FALSE, budget |-> scfg.budget]

SparseInit ==
  /\ scfg \in SparseSetups
  /\ spc = "idle" /\ sidx = 1
  /\ sreq = [r \in SReqs |-> [st |-> "new", n |-> scfg.prompt[r], comp |-> 0]]
  /\ srun = <<>> /\ swait = <<>>
  /\ spool = [free |-> [i \in SBlocks |-> i], ref |-> [b \in SBlocks |-> 0],
              hash |-> [b \in SBlocks |-> NoHash], own |-> [r \in SReqs |-> <<>>]]
  /\ splan = NoSPlan /\ stold = {} /\ spre = <<>> /\ saborts = scfg.aborts
  /\ wreq = <<>> /\ wrow = <<>> /\ wst = <<>>
  /\ wslots = 0..((scfg.maxlen * scfg.seqs) \div SB - 1)
  /\ smem = [b \in SBlocks |-> [o \in 0..(SB - 1) |-> SJunk]]
  /\ sfly = {} /\ serr = {}

----------------------------------------------------------------------------
(* The engine's block pool (external). *)

Release(sp, bs) ==
  [sp EXCEPT !.ref = [b \in SBlocks |-> IF b \in ToSet(bs) THEN @[b] - 1 ELSE @[b]],
             !.free = @ \o SelectSeq(bs, LAMBDA b : sp.ref[b] = 1)]
FreeReq(sp, r) == [Release(sp, Reverse(sp.own[r])) EXCEPT !.own[r] = <<>>]
TakeNew(sp, r, k) ==
  LET new == ToSet(SubSeq(sp.free, 1, k))
  IN [sp EXCEPT !.free = SubSeq(@, k + 1, Len(@)), !.own[r] = @ \o SubSeq(sp.free, 1, k),
                !.ref = [b \in SBlocks |-> IF b \in new THEN 1 ELSE @[b]],
                !.hash = [b \in SBlocks |-> IF b \in new THEN NoHash ELSE @[b]]]
Touch(sp, r, hits) ==
  [sp EXCEPT !.free = SelectSeq(@, LAMBDA b : b \notin ToSet(hits)), !.own[r] = @ \o hits,
             !.ref = [b \in SBlocks |-> IF b \in ToSet(hits) THEN @[b] + 1 ELSE @[b]]]
CacheFull(sp, r, tokens) ==
  [sp EXCEPT !.hash = [b \in SBlocks |->
     LET at == {i \in 1..(tokens \div SB) : sp.own[r][i] = b}
     IN IF at # {} /\ @[b] = NoHash THEN HashAt(r, Min(at) - 1) ELSE @[b]]]
LocalHits(r) ==
  LET at(i) == {b \in SBlocks : spool.hash[b] = HashAt(r, i - 1)}
      n == Max({k \in 0..((sreq[r].n - 1) \div SB) : \A i \in 1..k : at(i) # {}})
  IN IF scfg.apc THEN [i \in 1..n |-> Min(at(i))] ELSE <<>>

----------------------------------------------------------------------------
(* How many slots a request needs, and how they are allocated. *)

\* get_sparse_range and the number of blocks a retrieval chooses.
SparseRange(r) == SCeil(scfg.prompt[r], SB) - scfg.iw - scfg.lw
EsaTopK(r)     == (SparseRange(r) * scfg.num) \div scfg.den
IsSparsed(r)   == scfg.prompt[r] >= SB * scfg.minb
TrueOut(pre, r) == SOut(r) - (IF r \in DOMAIN pre THEN pre[r] ELSE 0)

\* ESA counts output tokens from the last preemption on.
NotePreempted(r) ==
  IF scfg.method = "esa" /\ sreq[r].st = "preempted" THEN SPut(spre, r, SOut(r)) ELSE spre

EsaEstimate(r, pre) ==
  LET flaw == scfg.prompt[r] % SB
      tail == IF flaw = 0 THEN SB * scfg.lw ELSE flaw + SB * (scfg.lw - 1)
  IN IF sreq[r].comp = 0 \/ TrueOut(pre, r) = 0 \/ ~IsSparsed(r) THEN InvalidSlot
     ELSE scfg.iw * SB + EsaTopK(r) * SB + tail + SOut(r)

\* KVStar compresses the full blocks of the prompt outside both windows.
KvFull(r)  == scfg.prompt[r] \div SB
KvKept(r)  == Min({scfg.iw + scfg.lw, KvFull(r)})
KvSaved(r) == SCeil((KvFull(r) - KvKept(r)) * scfg.num, scfg.den)
KvEstimate(r) ==
  LET blocks == SCeil(sreq[r].n, SB) - (KvFull(r) - KvSaved(r) - KvKept(r))
      tail   == sreq[r].n % SB
  IN IF SOut(r) = 0 THEN InvalidSlot
     ELSE IF tail # 0 THEN (blocks - 1) * SB + tail ELSE blocks * SB

Estimate(r, pre) ==
  CASE scfg.method = "esa" -> EsaEstimate(r, pre)
    [] scfg.method = "kvstar" -> KvEstimate(r)

Fits(sp, r, need, all) ==
  IF need <= Len(sp.free) THEN LET q == TakeNew(sp, r, need)
                               IN [ok |-> TRUE, sp |-> q, give |-> IF all THEN q.own[r]
                                     ELSE SubSeq(q.own[r], Len(sp.own[r]) + 1, Len(q.own[r]))]
  ELSE [ok |-> FALSE, sp |-> sp, give |-> <<>>]

\* ESA.allocate_slots: the blocks of the prompt are given back at the first
\* output token, also when the new ones then do not fit.
EsaFreed(sp, r, pre) == IF TrueOut(pre, r) = 1 THEN FreeReq(sp, r) ELSE sp
EsaAllocate(sp, r, slots, pre) ==
  LET s == EsaFreed(sp, r, pre)
  IN Fits(s, r, Max({0, SCeil(slots, SB) - Len(s.own[r])}), TRUE)

\* KVStarMultiStep.allocate_slots keeps the last blocks.
KvKeep(sp, r, need) ==
  LET cut  == Max({0, Len(sp.own[r]) - need})
      gone == SubSeq(sp.own[r], 1, cut)
  IN [Release(sp, gone) EXCEPT
        !.own[r] = SubSeq(sp.own[r], cut + 1, Len(sp.own[r])),
        !.hash = [b \in SBlocks |-> IF b \in ToSet(sp.own[r]) THEN NoHash ELSE @[b]]]
KvAllocate(sp, r, slots) ==
  LET need == SCeil(slots, SB)
      s    == KvKeep(sp, r, need)
  IN Fits(s, r, Max({0, need - Len(s.own[r])}), TRUE)

\* KVCacheManager.allocate_slots of the patch.
DenseAllocate(sp, r, n, hits, comp) ==
  LET idle == Cardinality({b \in ToSet(hits) : sp.ref[b] = 0})
      need == Max({0, SCeil(comp + n, SB) - Len(hits) - Len(sp.own[r])})
      got  == Fits(Touch(sp, r, hits), r, need, FALSE)
  IN IF need + idle > Len(sp.free) THEN [ok |-> FALSE, sp |-> sp, give |-> <<>>]
     ELSE [got EXCEPT !.sp = IF scfg.apc THEN CacheFull(@, r, Min({comp + n, sreq[r].n})) ELSE @]
AllocateSlots(r, n, hits, comp, slots, pre) ==
  IF slots = InvalidSlot THEN DenseAllocate(spool, r, n, hits, comp)
  ELSE IF scfg.method = "esa" THEN EsaAllocate(spool, r, slots, pre)
  ELSE KvAllocate(spool, r, slots)

----------------------------------------------------------------------------
(* Scheduler.schedule, one request per step. *)

SArrive(r) ==
  /\ spc = "idle" /\ sreq[r].st = "new"
  /\ \A q \in SReqs : q < r => sreq[q].st # "new"
  /\ sreq' = [sreq EXCEPT ![r].st = "waiting"]
  /\ swait' = Append(swait, r)
  /\ UNCHANGED <<scfg, spc, sidx, srun, spool, spre, saborts, splan, stold, swork, serr>>

SBegin ==
  /\ spc = "idle"
  /\ srun # <<>> \/ swait # <<>> \/ stold # {}
  /\ spc' = "run" /\ sidx' = 1 /\ splan' = NoSPlan
  /\ UNCHANGED <<scfg, ssched, stold, swork, serr>>

SPlanned(r, n, slots, give, comp) ==
  [splan EXCEPT !.n = SPut(@, r, n), !.slots = SPut(@, r, slots), !.give = SPut(@, r, give),
                !.comp = SPut(@, r, comp), !.budget = @ - n]

SNewTokens(r) ==
  Min({sreq[r].n - sreq[r].comp, splan.budget, scfg.maxlen - 1 - sreq[r].comp})

\* A running request gets its tokens.
SRunningScheduled ==
  LET r == srun[sidx]
      n == SNewTokens(r)
      slots == Estimate(r, spre)
      a == AllocateSlots(r, n, <<>>, sreq[r].comp, slots, spre)
  IN /\ spc = "run" /\ sidx <= Len(srun) /\ splan.budget > 0
     /\ a.ok
     /\ spool' = a.sp
     /\ splan' = SPlanned(r, n, slots, a.give, sreq[r].comp)
     /\ sidx' = sidx + 1
     /\ UNCHANGED <<scfg, spc, sreq, srun, swait, spre, saborts, stold, swork, serr>>

\* It does not fit: the last running request is preempted, perhaps itself.
SPreempt ==
  LET r == srun[sidx]
      a == AllocateSlots(r, SNewTokens(r), <<>>, sreq[r].comp, Estimate(r, spre), spre)
      p == Last(srun)
  IN /\ spc = "run" /\ sidx <= Len(srun) /\ splan.budget > 0
     /\ ~a.ok
     /\ spool' = FreeReq(a.sp, p)
     /\ sreq' = [sreq EXCEPT ![p].st = "preempted", ![p].comp = 0]
     /\ srun' = Front(srun) /\ swait' = <<p>> \o swait
     /\ splan' = [splan EXCEPT !.preempted = TRUE]
     /\ spc' = IF p = r THEN "wait" ELSE "run"
     /\ UNCHANGED <<scfg, sidx, spre, saborts, stold, swork, serr>>

SRunningEnds ==
  /\ spc = "run" /\ (sidx > Len(srun) \/ splan.budget = 0)
  /\ spc' = "wait"
  /\ UNCHANGED <<scfg, sidx, ssched, splan, stold, swork, serr>>

\* The head of the waiting queue is admitted, or the loop ends.
SMayAdmit == ~splan.preempted /\ swait # <<>> /\ splan.budget > 0 /\ Len(srun) < scfg.seqs
SAdmit ==
  LET r    == Head(swait)
      pre  == NotePreempted(r)
      hits == LocalHits(r)
      comp == Len(hits) * SB
      n    == Min({sreq[r].n - comp, splan.budget})
      slots == Estimate(r, pre)
      a    == AllocateSlots(r, n, hits, comp, slots, pre)
  IN /\ spc = "wait" /\ SMayAdmit
     /\ spre' = pre /\ spool' = a.sp
     /\ IF a.ok
        THEN /\ srun' = Append(srun, r) /\ swait' = Tail(swait)
             /\ splan' = [SPlanned(r, n, slots, a.sp.own[r], comp) EXCEPT
                            !.new = IF sreq[r].st = "waiting" THEN @ \union {r} ELSE @,
                            !.resumed = IF sreq[r].st = "preempted" THEN @ \union {r} ELSE @]
             /\ sreq' = [sreq EXCEPT ![r].st = "running", ![r].comp = comp]
             /\ spc' = "wait"
        ELSE /\ spc' = "exec"
             /\ UNCHANGED <<srun, swait, splan, sreq>>
     /\ UNCHANGED <<scfg, sidx, saborts, stold, swork, serr>>

SWaitingEnds ==
  /\ spc = "wait" /\ ~SMayAdmit
  /\ spc' = "exec"
  /\ UNCHANGED <<scfg, sidx, ssched, splan, stold, swork, serr>>

----------------------------------------------------------------------------
(* The model runner. *)

InStep == DOMAIN splan.n
SparseSlots(r) == splan.slots[r] # InvalidSlot
Computed(r) == splan.comp[r]
RowOf(r)    == wrow[r]

\* Requests the sparse method has metadata for (build_sparse_meta).
EsaMeta == {r \in InStep : IsSparsed(r)}
KvMeta  == {r \in InStep : scfg.prompt[r] > SB}
InMeta  == IF scfg.method = "esa" THEN EsaMeta ELSE KvMeta

\* request_finished_in_worker.  KVStar deletes a state it may not have.
Forgotten(S) == UNION {wst[r].slots : r \in S \cap DOMAIN wst}
FinishFails(S) == scfg.method = "kvstar" /\ ~(S \subseteq DOMAIN wst)
Orphaned(S)  == {IF t.r \in S THEN [t EXCEPT !.r = 0] ELSE t : t \in sfly}

\* Block ids of the cached state: replaced for a resumed or sparsed request.
CachedBlocks(r) ==
  IF r \in splan.new \union splan.resumed \/ SparseSlots(r) THEN splan.give[r]
  ELSE wreq[r].blocks \o splan.give[r]
\* A row that stays in the batch is reset only for a sparsed request.
ResetRow(r)  == <<>>
AppendRow(r, row) == row \o splan.give[r]
BatchRow(r) ==
  IF r \notin DOMAIN wrow \/ r \in stold THEN CachedBlocks(r)
  ELSE AppendRow(r, IF SparseSlots(r) THEN ResetRow(r) ELSE wrow[r])
CachedStates ==
  [r \in (DOMAIN wreq \ stold) \union InStep |->
     IF r \in InStep
     THEN [n |-> IF r \in splan.new THEN scfg.prompt[r] ELSE wreq[r].n,
           blocks |-> CachedBlocks(r)]
     ELSE wreq[r]]
PersistentBatch == [r \in InStep |-> BatchRow(r)]

SUpdateStates ==
  /\ spc = "exec"
  /\ wreq' = CachedStates
  /\ wrow' = PersistentBatch
  /\ wst' = SDrop(wst, stold)
  /\ wslots' = wslots \union Forgotten(stold)
  /\ sfly' = Orphaned(stold)
  /\ serr' = serr \union (IF FinishFails(stold) THEN {"request_finished_in_worker"} ELSE {})
                  \union (IF InStep = {} /\ srun # <<>> THEN {"nothing scheduled"} ELSE {})
  /\ sreq' = [r \in SReqs |-> IF r \in InStep THEN [sreq[r] EXCEPT !.comp = @ + splan.n[r]]
                              ELSE sreq[r]]
  /\ stold' = {}
  /\ spc' = IF InStep = {} THEN "output" ELSE "begin"
  /\ UNCHANGED <<scfg, sidx, srun, swait, spool, spre, saborts, splan, smem>>

----------------------------------------------------------------------------
(* The sparse method's hooks around the attention of a layer. *)

NewState == [step |-> 0, slots |-> {}, task |-> {}, standby |-> {}, rep |-> 0,
             init |-> <<>>, local |-> <<>>, pre |-> <<>>]
NoRepre == -1
NoStep  == UNCHANGED <<scfg, sidx, ssched, splan, stold, wreq, wrow>>

Windows(r, from) ==
  LET t == wreq[r].blocks
  IN [init  |-> [i \in 1..scfg.iw |-> smem[t[i]]],
      local |-> [i \in 1..(Len(t) - from) |-> smem[t[from + i]]]]
\* Mutant of WindowWrites: the local window is not restored.
WindowWritesInit(r, st) ==
  [i \in DOMAIN st.init |-> <<wreq[r].blocks[i], st.init[i]>>]
\* The saved windows go to the first and the last blocks of the new table.
WindowWrites(r, st) ==
  LET t == wreq[r].blocks
  IN [i \in DOMAIN st.init |-> <<t[i], st.init[i]>>]
     \o [i \in DOMAIN st.local |-> <<t[Len(t) - Len(st.local) + i], st.local[i]>>]
Landed(r, loads) == {<<t.b, BlockOf(r, t.i)>> : t \in {t \in loads : t.r = r}}
SWritten(mem, ws) == FoldLeft(LAMBDA m, w : [m EXCEPT ![w[1]] = w[2]], mem, ws)

\* diff_two_map: a block that already holds a chosen one keeps it, the other
\* blocks are loaded with the rest.
DiffMap(pre, blocks, chosen) ==
  LET kept == {b \in DOMAIN pre \cap ToSet(blocks) : pre[b] \in chosen}
      rest == SMapOf(SelectSeq(blocks, LAMBDA b : b \notin kept),
                     chosen \ {pre[b] : b \in kept})
  IN rest @@ [b \in kept |-> pre[b]]
LaunchTransfer(r, pre, map) ==
  {[r |-> r, b |-> b, i |-> map[b]] :
     b \in {b \in DOMAIN map : b \notin DOMAIN pre \/ pre[b] # map[b]}}

TopK(r) == IF scfg.method = "esa" THEN EsaTopK(r) ELSE KvSaved(r)
Middle(r) == IF scfg.method = "esa" THEN SparseRange(r) ELSE KvFull(r) - KvKept(r)
Retrieved(r) == kSubset(TopK(r), scfg.iw..(scfg.iw + Middle(r) - 1))
Picks(R) == {f \in [R -> UNION {Retrieved(r) : r \in R}] : \A r \in R : f[r] \in Retrieved(r)}
Swap(r) == SubSeq(wreq[r].blocks, scfg.iw + 1, scfg.iw + TopK(r))
Loaded(st, r, chosen) ==
  [st |-> [st EXCEPT !.pre = DiffMap(@, Swap(r), chosen)],
   loads |-> LaunchTransfer(r, st.pre, DiffMap(st.pre, Swap(r), chosen))]

\* ESA.get_or_create_layerwise_req_state: a resumed request starts again.
Again(R) == R \cap splan.resumed
EsaState(r) == IF r \in DOMAIN wst /\ r \notin splan.resumed THEN wst[r] ELSE NewState
EsaFirst == {r \in InMeta : EsaState(r).step = 1}
EsaWaits == {r \in InMeta : EsaState(r).step % scfg.stride = 1}

SEsaBegin ==
  /\ spc = "begin" /\ scfg.method = "esa"
  /\ \E pick \in Picks(EsaFirst) :
       LET got(r)  == IF r \in EsaFirst THEN Loaded(EsaState(r), r, pick[r])
                      ELSE [st |-> EsaState(r), loads |-> {}]
           fly     == Orphaned(Again(InMeta)) \union UNION {got(r).loads : r \in InMeta}
           windows == FoldSet(LAMBDA r, ws : ws \o WindowWrites(r, EsaState(r)), <<>>, EsaFirst)
           landed  == UNION {Landed(r, fly) : r \in EsaWaits}
       IN /\ wst' = [r \in DOMAIN wst \union InMeta |-> IF r \in InMeta THEN got(r).st ELSE wst[r]]
          /\ sfly' = {t \in fly : t.r \notin EsaWaits}
          /\ smem' = SWritten(smem, windows \o SetToSeq(landed))
  /\ wslots' = wslots \union Forgotten(Again(InMeta))
  /\ serr' = serr \union (IF Again(InMeta) \subseteq DOMAIN wst THEN {} ELSE {"no state"})
  /\ spc' = "forward"
  /\ NoStep

\* The prompt's last chunk: block_repre_data saves both windows.
EsaLastChunk(r) == Computed(r) + splan.n[r] >= wreq[r].n
EsaSaves   == {r \in InMeta : wst[r].step = 0 /\ EsaLastChunk(r)}
EsaLoads   == {r \in InMeta : wst[r].step # 0 /\ wst[r].step % scfg.stride = 0}
EsaSaved(r, slots) ==
  LET w == Windows(r, scfg.iw + SparseRange(r))
  IN [wst[r] EXCEPT !.slots = slots, !.init = w.init, !.local = w.local, !.step = 1]
EsaStepped(r) ==
  [wst[r] EXCEPT !.step = IF @ = 0 THEN 0 ELSE @ + 1,
                 !.task = IF wst[r].step # 0 /\ wst[r].step % scfg.stride = 2 THEN {wst[r].step}
                          ELSE IF r \in EsaLoads THEN {} ELSE @]
\* Slots of the representation pool, request after request.
SlotShare(R) ==
  LET before(r) == FoldSet(LAMBDA q, n : n + SparseRange(q), 0, {q \in R : q < r})
      free == SOrder(wslots)
  IN [r \in R |-> ToSet(SubSeq(free, before(r) + 1, Min({Len(free), before(r) + SparseRange(r)})))]

SEsaFinished ==
  /\ spc = "finished" /\ scfg.method = "esa"
  /\ \E pick \in Picks(EsaLoads) :
       LET got(r) == IF r \in EsaLoads THEN Loaded(EsaStepped(r), r, pick[r])
                     ELSE [st |-> IF r \in EsaSaves THEN EsaSaved(r, SlotShare(EsaSaves)[r])
                                  ELSE EsaStepped(r), loads |-> {}]
       IN /\ wst' = [r \in DOMAIN wst |-> IF r \in InMeta THEN got(r).st ELSE wst[r]]
          /\ sfly' = sfly \union UNION {got(r).loads : r \in InMeta}
  /\ wslots' = wslots \ UNION {SlotShare(EsaSaves)[r] : r \in EsaSaves}
  /\ serr' = serr
       \union (IF \A r \in EsaSaves : Cardinality(SlotShare(EsaSaves)[r]) = SparseRange(r)
               THEN {} ELSE {"not enough free slots"})
       \union (IF \A r \in EsaLoads : wst[r].task # {} THEN {} ELSE {"no retrieval"})
  /\ spc' = "output"
  /\ UNCHANGED smem /\ NoStep

\* KVStar counts steps by the output tokens; record 0 is the prompt's.
KvStep(r)   == wreq[r].n - scfg.prompt[r]
KvNewState  == NewState
KvState(r)  == IF r \in DOMAIN wst THEN wst[r] ELSE KvNewState
KvGroup(k)  == ((k - 1) \div scfg.stride) * scfg.stride + 1
KvRecord(k) == IF k = 1 THEN 0 ELSE k - scfg.stride
KvNeeds(k)  == IF k <= 2 * scfg.stride THEN 0
               ELSE (SCeil(k, scfg.stride) - 3) * scfg.stride + 1
KvDecodes == {r \in InMeta : KvStep(r) > 0 /\ KvState(r).rep # NoRepre}
KvFirst   == {r \in KvDecodes : KvStep(r) = 1}
KvWaits   == {r \in KvDecodes : KvStep(r) = 1 \/ KvStep(r) % scfg.stride = 1}
\* Queries kept for a retrieval, and the retrieval started with them.
KvQueries(r) ==
  LET st == KvState(r)
      k  == KvStep(r)
      asks == IF k % scfg.stride = 0 THEN {KvRecord(k + 1)} ELSE {}
  IN CASE k = 0 /\ Computed(r) + splan.n[r] >= scfg.prompt[r] - scfg.stride ->
            [st EXCEPT !.standby = @ \union {0}]
       [] r \in KvDecodes ->
            [st EXCEPT !.standby = (@ \union {KvGroup(k)}) \ (IF k = 1 THEN {0} ELSE {}),
                       !.task = @ \union asks]
       [] OTHER -> st

\* The difference to the blocks already there is written out by hand.
KvLoaded(st, r, chosen) == Loaded(st, r, chosen)

SKvBegin ==
  /\ spc = "begin" /\ scfg.method = "kvstar"
  /\ \E pick \in Picks(KvFirst) :
       LET got(r)  == IF r \in KvFirst THEN KvLoaded(KvQueries(r), r, pick[r])
                      ELSE [st |-> KvQueries(r), loads |-> {}]
           fly     == sfly \union UNION {got(r).loads : r \in InMeta}
           windows == FoldSet(LAMBDA r, ws : ws \o WindowWrites(r, KvState(r)), <<>>, KvFirst)
           landed  == UNION {Landed(r, fly) : r \in KvWaits}
       IN /\ wst' = [r \in DOMAIN wst \union InMeta |-> IF r \in InMeta THEN got(r).st ELSE wst[r]]
          /\ sfly' = {t \in fly : t.r \notin KvWaits}
          /\ smem' = SWritten(smem, windows \o SetToSeq(landed))
  /\ serr' = serr
       \union (IF \A r \in KvDecodes : splan.n[r] = 1 THEN {} ELSE {"query_len"})
       \union (IF \A r \in KvDecodes :
                    KvQueries(r).task \subseteq KvQueries(r).standby
               THEN {} ELSE {"no queries"})
  /\ spc' = "forward"
  /\ UNCHANGED wslots /\ NoStep

KvSaves == {r \in InMeta : KvStep(r) = 0 /\ Computed(r) + splan.n[r] >= scfg.prompt[r]}
KvLoads == {r \in InMeta : KvStep(r) >= 2 * scfg.stride /\ KvStep(r) % scfg.stride = 0}
\* compute_block_repre: nothing to retrieve for a short prompt.
ExtractBlockRepre(r) == IF wreq[r].blocks[KvFull(r)] < 2 THEN NoRepre ELSE KvFull(r)
KvRepre(r) ==
  IF ExtractBlockRepre(r) <= 2 THEN NoRepre ELSE KvFull(r) - KvKept(r)
KvSavedState(r) ==
  LET w == Windows(r, Len(wreq[r].blocks) - Min({scfg.lw, Len(wreq[r].blocks) - scfg.iw}))
  IN [wst[r] EXCEPT !.rep = KvRepre(r), !.init = w.init, !.local = w.local]
KvTook(r) ==
  LET k == KvNeeds(KvStep(r) + 1)
  IN [wst[r] EXCEPT !.task = @ \ {k}, !.standby = @ \ {k}]

SKvFinished ==
  /\ spc = "finished" /\ scfg.method = "kvstar"
  /\ \E pick \in Picks(KvLoads) :
       LET got(r) == IF r \in KvLoads THEN KvLoaded(KvTook(r), r, pick[r])
                     ELSE [st |-> IF r \in KvSaves THEN KvSavedState(r) ELSE wst[r], loads |-> {}]
       IN /\ wst' = [r \in DOMAIN wst |-> IF r \in InMeta THEN got(r).st ELSE wst[r]]
          /\ sfly' = sfly \union UNION {got(r).loads : r \in InMeta}
  /\ serr' = serr
       \union (IF \A r \in KvLoads : wst[r].rep # NoRepre THEN {} ELSE {"blk_repre is None"})
       \union (IF \A r \in KvLoads : wst[r].rep = NoRepre \/ KvNeeds(KvStep(r) + 1) \in wst[r].task
               THEN {} ELSE {"no retrieval"})
  /\ spc' = "output"
  /\ UNCHANGED <<wslots, smem>> /\ NoStep

\* A load whose request gave its blocks up, or left, lands all the same.
SLateLoad ==
  \E t \in sfly :
    /\ t.r # 0 => t.b \notin ToSet(spool.own[t.r])
    /\ smem' = [smem EXCEPT ![t.b] = [o \in 0..(SB - 1) |-> Stray]]
    /\ sfly' = sfly \ {t}
    /\ UNCHANGED <<scfg, spc, sidx, ssched, splan, stold, wreq, wrow, wst, wslots, serr>>

----------------------------------------------------------------------------
(* The forward pass and the scheduler's update. *)

\* Where token j of the step goes, and how many slots the attention reads.
SparsePosition(r, j) ==
  IF SparseSlots(r) /\ j = 0 THEN splan.slots[r] - 1 ELSE Computed(r) + j
SlotMapping(r, j) ==
  LET p == SparsePosition(r, j) IN <<RowOf(r)[p \div SB + 1], p % SB>>
SeqLen(r) == IF SparseSlots(r) THEN splan.slots[r] ELSE Computed(r) + splan.n[r]
VisibleSlots(r) == 0..(SeqLen(r) - 1)
StepTokens == UNION {{<<r, j>> : j \in 0..(splan.n[r] - 1)} : r \in InStep}
InRow(x) == SparsePosition(x[1], x[2]) \div SB < Len(RowOf(x[1]))

SForward ==
  /\ spc = "forward"
  /\ smem' = [b \in SBlocks |-> [o \in 0..(SB - 1) |->
       LET here == {x \in StepTokens : InRow(x) /\ SlotMapping(x[1], x[2]) = <<b, o>>}
       IN IF here = {} THEN smem[b][o]
          ELSE LET x == CHOOSE x \in here : TRUE IN Tok(x[1], Computed(x[1]) + x[2])]]
  /\ serr' = serr \union (IF \A x \in StepTokens : InRow(x) THEN {} ELSE {"slot outside the row"})
  /\ spc' = "finished"
  /\ UNCHANGED <<scfg, sidx, ssched, splan, stold, wreq, wrow, wst, wslots, sfly>>

\* The sampled token of an unfinished prefill is thrown away.
GpuDiscards(r) == SeqLen(r) < wreq[r].n /\ ~SparseSlots(r)
NpuDiscards(r) == Computed(r) + splan.n[r] < wreq[r].n
Discards(r) == IF scfg.npu THEN NpuDiscards(r) ELSE GpuDiscards(r)

Sampled == {r \in InStep : ~Discards(r)}
SOutput ==
  LET took == Sampled
      over == {r \in took : SOut(r) + 1 = scfg.out[r]}
      freed == FoldSet(LAMBDA r, sp : FreeReq(sp, r), spool, over)
  IN /\ spc = "output"
     /\ sreq' = [r \in SReqs |->
                   [sreq[r] EXCEPT !.n = IF r \in took THEN @ + 1 ELSE @,
                                   !.st = IF r \in over THEN "done" ELSE @]]
     /\ wreq' = [r \in DOMAIN wreq |-> IF r \in took THEN [wreq[r] EXCEPT !.n = @ + 1] ELSE wreq[r]]
     /\ srun' = SelectSeq(srun, LAMBDA r : r \notin over)
     /\ spool' = freed
     /\ stold' = over
     /\ spc' = "idle"
     /\ UNCHANGED <<scfg, sidx, swait, spre, saborts, splan, wrow, wst, wslots, smem, sfly, serr>>

\* A client goes away: finish_requests and _free_request.
SAbort(r) ==
  /\ spc = "idle" /\ saborts > 0 /\ sreq[r].st \in {"waiting", "running", "preempted"}
  /\ sreq' = [sreq EXCEPT ![r].st = "done"]
  /\ srun' = SelectSeq(srun, LAMBDA q : q # r)
  /\ swait' = SelectSeq(swait, LAMBDA q : q # r)
  /\ spool' = FreeReq(spool, r)
  /\ stold' = stold \union {r}
  /\ saborts' = saborts - 1
  /\ UNCHANGED <<scfg, spc, sidx, spre, splan, swork, serr>>

\* Every request is over, and told to the workers.
SparseEnds ==
  /\ spc = "idle" /\ stold = {} /\ \A r \in SReqs : sreq[r].st = "done"
  /\ UNCHANGED svars

SparseNext ==
  \/ \E r \in SReqs : SArrive(r) \/ SAbort(r)
  \/ SBegin \/ SRunningScheduled \/ SPreempt \/ SRunningEnds \/ SAdmit \/ SWaitingEnds
  \/ SUpdateStates \/ SEsaBegin \/ SKvBegin \/ SForward \/ SEsaFinished \/ SKvFinished
  \/ SLateLoad \/ SOutput \/ SparseEnds

SparseSpec == SparseInit /\ [][SparseNext]_svars

----------------------------------------------------------------------------
(* Properties *)

Visible(r) == [p \in VisibleSlots(r) |-> smem[wrow[r][p \div SB + 1]][p % SB]]
\* The prompt, with what was generated before a preemption, fills its blocks.
FillsBlocks(r) ==
  (scfg.prompt[r] + (IF r \in DOMAIN spre THEN spre[r] ELSE 0)) % SB = 0
SparseView(r) ==
  LET v == Visible(r)
      k == TopK(r)
      lo == scfg.iw * SB
      hi == lo + k * SB
      gap == (Middle(r) - k) * SB
  IN /\ \A p \in 0..(lo - 1) : v[p] = Tok(r, p)
     /\ \A p \in hi..(SeqLen(r) - 1) : v[p] = Tok(r, p + gap)
     /\ \E f \in [1..k -> scfg.iw..(scfg.iw + Middle(r) - 1)] :
          /\ \A i, j \in 1..k : i # j => f[i] # f[j]
          /\ \A i \in 1..k, o \in 0..(SB - 1) : v[lo + (i - 1) * SB + o] = Tok(r, f[i] * SB + o)

\* What a request attends to is its own: all its tokens when it is dense, and
\* the first window, whole chosen blocks and every token from the last window
\* on when it is sparse (attention_begin, attention_finished, _prepare_inputs).
\* Known exceptions: a prompt that fills its blocks, and a late load.
SparseContextRight ==
  spc = "finished" =>
    \A r \in InStep :
      LET v == Visible(r)
      IN Stray \in SImage(v)
         \/ (IF SparseSlots(r) THEN FillsBlocks(r) \/ SparseView(r)
             ELSE \A p \in DOMAIN v : v[p] = Tok(r, p))

Holders(b) == Cardinality({r \in SReqs : b \in ToSet(spool.own[r])})
\* No block is lost or given twice (allocate_slots of both methods), and the
\* workers' tables are the scheduler's.
SparseBlocksKept ==
  spc # "off" =>
    /\ \A b \in SBlocks :
         /\ spool.ref[b] = Holders(b)
         /\ Cardinality({i \in DOMAIN spool.free : spool.free[i] = b}) = (IF Holders(b) = 0 THEN 1 ELSE 0)
    /\ spc \in {"begin", "forward", "finished"} =>
         \A r \in InStep : wrow[r] = spool.own[r] /\ wreq[r].blocks = spool.own[r]

\* No hook raises, and a state's slots are given back exactly once.  Known
\* exceptions, KVStar's: a finished request that never had a state, and a
\* prompt whose representation was left out.
SparseNoError ==
  spc # "off" =>
    /\ serr \subseteq {"request_finished_in_worker", "blk_repre is None"}
    /\ scfg.method = "esa" =>
         /\ \A r \in DOMAIN wst : wst[r].slots \cap wslots = {}
         /\ wslots \union Forgotten(DOMAIN wst) = 0..((scfg.maxlen * scfg.seqs) \div SB - 1)

\* ESA and KVStar: right context, exact blocks, no hook that raises.
SparseRight == SparseContextRight /\ SparseBlocksKept /\ SparseNoError
=============================================================================
