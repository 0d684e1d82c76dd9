--------------------------- MODULE HybridConnector ---------------------------
(***************************************************************************)
(* The connectors for models whose KV cache has several groups:            *)
(* UCMHybridLinearAttentionConnector, direct and layerwise ("hla",         *)
(* integration/vllm/hla_connector.py), with full-attention groups and      *)
(* state-space groups, and UCMFAWAConnector ("fawa", hma_connector.py),    *)
(* with full-attention and sliding-window groups.                          *)
(*                                                                         *)
(* A request may resume at a position only when the full-attention blocks  *)
(* before it and the state, or the tail of the window, at the position are *)
(* all there.  Each group has its own block size and block table, so the   *)
(* model keeps device memory token by token: a cell holds the prefix whose *)
(* last token (or whose state) it is.  Requests run one after the other.   *)
(* The engine (tables, local hits, forward) and the store are external.    *)
(***************************************************************************)
EXTENDS Naturals, Integers, Sequences, FiniteSets, FiniteSetsExt, SequencesExt, TLC

CONSTANT HybridSetups

VARIABLES
  hcfg,      \* setup: family, groups, rows, hbs, tp, thresholds, prompts, faults
  hleft,     \* preemptions, faults, requests left
  hreq,      \* the request: chain, tokens, computed, block table per group, spoilt loads
  hmeta,     \* its entry in requests_meta, or NoMeta
  hjob,      \* dispatch metadata of the step, chunk, failed load, rows right so far
  hpc, hrow, \* hook, and the row of layers being computed
  hload,     \* layerwise: rows whose load is submitted
  hpend,     \* FAWA: full-attention dumps in flight
  hmem,      \* row -> group -> block -> offset -> prefix
  hstore     \* key -> what was written under it

hvars == <<hcfg, hleft, hreq, hmeta, hjob, hpc, hrow, hload, hpend, hmem, hstore>>

Hla    == hcfg.family = "hla"
Groups == 1..Len(hcfg.groups)
Kind(g) == hcfg.groups[g].kind
Size(g) == hcfg.groups[g].bs
Full   == {g \in Groups : Kind(g) = "fa"}
States == {g \in Groups : Kind(g) = "state"}
Window == {g \in Groups : Kind(g) = "window"}
Rows   == 0..(hcfg.rows - 1)
Pool   == 1..hcfg.pool
Ceil(a, b) == (a + b - 1) \div b
Upto(s, a, b) == SubSeq(s, a + 1, Min({b, Len(s)}))

\* The first common tokens of all chains are the same.
Prefix(c, p) == IF p <= hcfg.common THEN <<0, p>> ELSE <<c, p>>
Junk   == <<0, 0>>
NoMeta == [n |-> 0]
NoJob  == [load |-> {}, dump |-> {}, n |-> 0, fail |-> FALSE, ok |-> TRUE, late |-> {}]

\* KVCacheGroupManager.lcm_block_size; FAWA works in hash blocks.
Lcm == Min({m \in 1..24 : \A g \in Groups : m % Size(g) = 0})

\* Cells of a block, and of token t of the request in group g by table b.
At(b, i) == IF i + 1 \in DOMAIN b THEN b[i + 1] ELSE 0
TokenCell(g, b, t) == <<g, At(b, t \div Size(g)), t % Size(g)>>
Read(row, x) == IF x[2] = 0 THEN Junk ELSE hmem[row][x[1]][x[2]][x[3]]
Offsets(g) == IF g \in States THEN {0} ELSE 0..(Size(g) - 1)

HybridInit ==
  /\ hcfg \in HybridSetups
  /\ hleft = [preempts |-> hcfg.preempts, faults |-> hcfg.nfaults, reqs |-> hcfg.reqs]
  /\ hreq = <<>> /\ hmeta = NoMeta /\ hjob = NoJob
  /\ hpc = "arrive" /\ hrow = 0 /\ hload = {} /\ hpend = {}
  /\ hmem = [row \in Rows |-> [g \in Groups |-> [v \in Pool |-> [o \in Offsets(g) |-> Junk]]]]
  /\ hstore = <<>>

HFaulty(f) == f \in hcfg.faults /\ hleft.faults > 0
HSpend(n)  == hleft' = [hleft EXCEPT !.faults = @ - n]
Stored(key) == <<key, 0>> \in DOMAIN hstore

----------------------------------------------------------------------------
(* Scheduler role: lookup. *)

\* compute_block_hashes of a full-attention group, and the canonical keys.
FaKey(g, c, i) == <<"fa", g, Prefix(c, i * Size(g))>>
CanonicalKey(c, i) == <<"fa", 0, Prefix(c, i * hcfg.hbs)>>
WaKey(c, i) == <<"wa", 0, Prefix(c, i * hcfg.hbs)>>
\* compute_mamba_align_state_hash.
StateKey(g, c, p) == <<"state", g, Prefix(c, p)>>

Longest(from, to, Hit(_)) == Max({k \in from..to : \A i \in (from + 1)..k : Hit(i)})

\* lookup_external_hit_tokens behind the truncation of get_num_new_matched_tokens:
\* the position up to which n tokens of chain c are hit, p of them locally.
\* Every full-attention group limits it; then the last common block boundary at
\* which all state groups have their state is taken.
HlaHit(c, n, p) ==
  LET most == Max({0, (n - hcfg.rec) \div Lcm})
      last(g) == IF most < n \div Lcm THEN (most * Lcm) \div Size(g) ELSE n \div Size(g)
      cand(g) == IF last(g) <= p \div Size(g) THEN p
                 ELSE Longest(p \div Size(g), last(g), LAMBDA i : Stored(FaKey(g, c, i))) * Size(g)
      to   == (Min({cand(g) : g \in Full}) \div Lcm) * Lcm
      good == {q \in (p + 1)..to : q % Lcm = 0 /\ \A g \in States : Stored(StateKey(g, c, q))}
  IN  Max(good \union {p})

\* _lookup_external_hit_blocks: the hash blocks hit, local ones included.  Inside the
\* prefix of full-attention rows the last boundary with a window row is taken.
FawaHit(c, n, p) ==
  LET fa == Longest(p \div hcfg.hbs, n \div hcfg.hbs, LAMBDA i : Stored(CanonicalKey(c, i)))
  IN  Max({p \div hcfg.hbs} \union {i \in (p \div hcfg.hbs + 1)..fa : Stored(WaKey(c, i))})

\* get_num_new_matched_tokens of both families, as the hit tokens reported beyond p
\* and the request's metadata; a lookup that raises (lost) finds nothing.
HlaMatched(c, n, p, lost) ==
  LET hit == IF lost THEN p ELSE HlaHit(c, n, p)
  IN  IF hcfg.persist > n THEN [tokens |-> 0, meta |-> hmeta]
      ELSE [tokens |-> hit - p,
            meta |-> [n |-> n, hbm |-> p, total |-> hit, done |-> hit,
                      tbl |-> [g \in Groups |-> <<>>]]]

FawaMatched(c, n, p, lost) ==
  LET own == p \div hcfg.hbs
      hit == IF lost THEN own ELSE FawaHit(c, n, p)
      few == (hit - own) * hcfg.hbs <= hcfg.least
      tok == hit * hcfg.hbs - p
  IN  IF n <= hcfg.persist \/ n <= own * hcfg.hbs + hcfg.least \/ n \div hcfg.hbs <= own
      THEN [tokens |-> 0, meta |-> hmeta]
      ELSE [tokens |-> IF few THEN 0 ELSE IF hit * hcfg.hbs = n THEN tok - 1 ELSE tok,
            meta |-> [n |-> n, hbm |-> IF few THEN hit ELSE own, total |-> hit,
                      done |-> IF few THEN p ELSE hit * hcfg.hbs,
                      tbl |-> [g \in Groups |-> <<>>]]]

----------------------------------------------------------------------------
(* The engine (external): tables, local hits, chunks. *)

\* Blocks that the table of group g must have (1), keeps when it has them (2) or skips
\* (0) for the tokens [ctx, end): skipped ones are outside the window, or before the
\* running state and the one it is copied from.
Needed(g, ctx, end) ==
  [i \in 1..Ceil(end, Size(g)) |->
     CASE g \in Full   -> 1
       [] g \in Window -> IF i * Size(g) <= ctx - hcfg.groups[g].tail + 1 THEN 0 ELSE 1
       [] g \in States -> IF i = Ceil(end, Size(g)) THEN 1
                         ELSE IF i = Ceil(ctx, Size(g)) THEN 2 ELSE 0]

\* The table t grown to the tokens [ctx, end) with free blocks.
Grown(g, t, ctx, end) ==
  LET want  == Needed(g, ctx, end)
      keep  == [i \in 1..Min({Len(t), Len(want)}) |-> IF want[i] = 0 THEN 0 ELSE t[i]]
      free  == Pool \ ToSet(keep)
      fresh == [i \in 1..Len(want) |-> i > Len(keep) /\ want[i] = 1]
      rank(i) == Cardinality({j \in 1..i : fresh[j]})
      nth(k) == CHOOSE v \in free : Cardinality({u \in free : u < v}) = k - 1
  IN  [i \in 1..Len(want) |-> IF i <= Len(keep) THEN keep[i]
                              ELSE IF fresh[i] THEN nth(rank(i)) ELSE 0]

\* _mamba_block_aligned_split: a chunk of n tokens after ctx of total tokens ends on
\* a block boundary, or on the last one.
AlignedSplit(n, ctx, total, prompt) ==
  LET last == (total \div Lcm) * Lcm
  IN  IF ~hcfg.split \/ ctx >= Max({prompt, total - 1}) THEN n
      ELSE IF ctx + n < last THEN (n \div Lcm) * Lcm
      ELSE IF ctx < last /\ last < ctx + n THEN last - ctx ELSE n

Chunks(ctx, total) ==
  {AlignedSplit(n, ctx, total, hreq.prompt) : n \in {m \in hcfg.chunks \union {total - ctx} :
                                                       m <= total - ctx}} \ {0}

\* A request arrives, or an earlier one of the same chain again.
Arrive ==
  /\ hpc = "arrive" /\ hleft.reqs > 0
  /\ \E x \in hcfg.prompts :
       hreq' = [c |-> x.c, n |-> x.n, prompt |-> x.n, ctx |-> 0, new |-> TRUE, spoilt |-> FALSE,
                tbl |-> [g \in Groups |-> <<>>]]
  /\ hleft' = [hleft EXCEPT !.reqs = @ - 1]
  /\ hmeta' = NoMeta /\ hpc' = "admit"
  /\ UNCHANGED <<hcfg, hjob, hrow, hload, hpend, hmem, hstore>>

\* The request is looked up, p tokens of it being in device memory already, and gets
\* its tables.  Its first chunk follows at once.
Admit ==
  /\ hpc = "admit"
  /\ \E p \in {0} \union {q \in hcfg.local : q < hreq.n},
        lost \in {FALSE} \union (IF HFaulty("lookup") THEN {TRUE} ELSE {}) :
     LET c   == hreq.c
         hit == IF Hla THEN HlaMatched(c, hreq.n, p, lost) ELSE FawaMatched(c, hreq.n, p, lost)
         ctx == p + hit.tokens
         own == [g \in Groups |-> IF p = 0 THEN <<>> ELSE Grown(g, <<>>, p, p)]
     IN /\ hmem' = [row \in Rows |-> [g \in Groups |-> [v \in Pool |-> [o \in Offsets(g) |->
                     LET i == {j \in DOMAIN own[g] : own[g][j] = v}
                         t == (Min(i) - 1) * Size(g) + o + 1
                     IN  IF i = {} THEN hmem[row][g][v][o]
                         ELSE Prefix(c, IF g \in States THEN p ELSE Min({p, t}))]]]]
        /\ hreq' = [hreq EXCEPT !.ctx = ctx, !.tbl = own]
        /\ hmeta' = hit.meta
        /\ HSpend(IF lost THEN 1 ELSE 0)
  /\ hpc' = "sched"
  /\ UNCHANGED <<hcfg, hjob, hrow, hload, hpend, hstore>>

----------------------------------------------------------------------------
(* Scheduler role: dispatch. *)

Xfer(key, cells) == [key |-> key, cells |-> cells]
Whole(g, v) == [i \in 1..Cardinality(Offsets(g)) |-> <<g, v, i - 1>>]

\* The table of group g in the metadata after a step that brought new blocks; a
\* request that starts or resumes brings its whole table.
HlaTable(old, new, full) ==
  IF full \/ old = <<>> THEN new
  ELSE IF new = <<>> \/ (Len(new) <= Len(old) /\ SubSeq(old, Len(old) - Len(new) + 1, Len(old)) = new)
       THEN old ELSE old \o new

\* extend_non_null over blocks [a, b) of full-attention group g.
FaXfers(g, c, tbl, a, b) ==
  {Xfer(FaKey(g, c, i), Whole(g, tbl[i])) : i \in {j \in (a + 1)..Min({b, Len(tbl)}) : tbl[j] # 0}}

\* append_mamba_align_state_block: a load goes to the running state, the last block
\* of the table; a dump takes the block of position p.
StateXfer(g, c, tbl, p, load) ==
  LET i == IF load /\ \E j \in DOMAIN tbl : tbl[j] # 0
           THEN Max({j \in DOMAIN tbl : tbl[j] # 0}) ELSE (p - 1) \div Size(g) + 1
  IN  IF i \notin DOMAIN tbl \/ tbl[i] = 0 \/ p % Lcm # 0 THEN {}
      ELSE {Xfer(StateKey(g, c, p), <<<<g, tbl[i], 0>>>>)}

\* Whether a chunk [from, to) dumps states: it ends on a boundary that it reached.
StateDumped(from, to) ==
  to = (to \div Lcm) * Lcm /\ to >= (from \div Lcm + 1) * Lcm

\* _generate_hla_dispatch_meta.
HlaDispatch(m, c, n, new, full) ==
  LET tbl  == [g \in Groups |-> HlaTable(m.tbl[g], new[g], full)]
      from == m.done
      to   == Min({m.done + n, m.n})
      load == UNION ({FaXfers(g, c, tbl[g], m.hbm \div Size(g), m.total \div Size(g)) : g \in Full}
                     \union {StateXfer(g, c, tbl[g], m.total, TRUE) : g \in States})
      dump == UNION ({FaXfers(g, c, tbl[g], from \div Size(g), to \div Size(g)) : g \in Full}
                     \union (IF StateDumped(from, to)
                             THEN {StateXfer(g, c, tbl[g], (to \div Lcm) * Lcm, FALSE) : g \in States}
                             ELSE {}))
  IN  [load |-> IF full /\ m.total > m.hbm THEN load ELSE {},
       dump |-> IF m.done < m.n THEN dump ELSE {},
       meta |-> [m EXCEPT !.tbl = tbl, !.done = IF @ < m.n THEN @ + n ELSE @]]

\* _slice_group_block_ids with _extract_fa_ptr: hash block i (from 1) of group g, at an
\* offset of the group's block when that is larger.
FaCells(g, tbl, i) ==
  LET first == (i - 1) * hcfg.hbs
      v     == At(tbl, (i * hcfg.hbs - 1) \div Size(g))
  IN  [k \in 1..hcfg.hbs |-> <<g, v, (first % Size(g)) + k - 1>>]

\* _slice_group_block_ids with _extract_wa_ptr: the tail of window group g at boundary i,
\* the last tail_blocks blocks or the end of one.
WaCells(g, tbl, i) ==
  LET tail == hcfg.groups[g].tail
      nb   == Max({tail \div Size(g), 1})
      b    == (i * hcfg.hbs - 1) \div Size(g)
      skip == IF nb = 1 /\ Size(g) > tail THEN Size(g) - tail ELSE 0
  IN  [k \in 1..tail |-> <<g, At(tbl, b - nb + 1 + (skip + k - 1) \div Size(g)),
                           (skip + k - 1) % Size(g)>>]

Flat(Cells(_), gs) ==
  FlattenSeq([i \in 1..Cardinality(gs) |->
                Cells(CHOOSE g \in gs : Cardinality({h \in gs : h < g}) = i - 1)])
FaRow(c, tbl, i) == Xfer(CanonicalKey(c, i), Flat(LAMBDA g : FaCells(g, tbl[g], i), Full))
WaRow(c, tbl, i) == Xfer(WaKey(c, i), Flat(LAMBDA g : WaCells(g, tbl[g], i), Window))

\* Mutant of Share: every rank takes num div tp keys, the rest is nobody's.
ShareFloor(num, k) == {i \in 0..(num - 1) : i >= k * (num \div hcfg.tp) /\ i < (k + 1) * (num \div hcfg.tp)}

\* The part of num dump keys that rank k writes (wait_for_save, tp_block_start and end).
Share(num, k) ==
  {i \in 0..(num - 1) : i >= (num * k) \div hcfg.tp /\ i < (num * (k + 1)) \div hcfg.tp}

\* _generate_dispatch_meta of FAWA: the rows to load, the rows each rank dumps.  Chunk-wise
\* window rows go to the rank after the one of the request before it in the step.
FawaDispatch(m, c, n, new, full, ring) ==
  LET tbl  == [g \in Groups |-> IF full THEN new[g] ELSE m.tbl[g] \o new[g]]
      to   == Min({m.n, m.done + n})
      a    == Max({m.total, m.done \div hcfg.hbs})
      b    == to \div hcfg.hbs
      mine(k) == {a + 1 + i : i \in Share(b - a, k)}
      fa(k) == {FaRow(c, tbl, i) : i \in mine(k)}
      wa(k) == IF hcfg.blockwise THEN {WaRow(c, tbl, i) : i \in mine(k)}
               ELSE IF ring % hcfg.tp = k THEN {WaRow(c, tbl, b)} ELSE {}
  IN  [load |-> IF full /\ m.total > m.hbm
                THEN {FaRow(c, tbl, i) : i \in (m.hbm + 1)..m.total} \union {WaRow(c, tbl, m.total)}
                ELSE {},
       dump |-> IF b > a THEN UNION {fa(k) \union wa(k) : k \in 0..(hcfg.tp - 1)} ELSE {},
       meta |-> [m EXCEPT !.tbl = tbl, !.done = to]]

\* The plan for n more tokens of the request, which bring the blocks new; a request that
\* has no metadata has none, one that starts or resumes may load.
Dispatched(n, new, ring) ==
  IF hmeta = NoMeta THEN [load |-> {}, dump |-> {}, meta |-> NoMeta]
  ELSE IF Hla THEN HlaDispatch(hmeta, hreq.c, n, new, hreq.new)
  ELSE FawaDispatch(hmeta, hreq.c, n, new, hreq.new, ring)

\* build_connector_meta for the next chunk of the request.
Schedule ==
  /\ hpc = "sched"
  /\ \E n \in Chunks(hreq.ctx, hreq.n), ring \in 0..(hcfg.tp - 1) :
     LET end  == hreq.ctx + n
         tbl  == [g \in Groups |-> Grown(g, hreq.tbl[g], hreq.ctx, end)]
         new  == [g \in Groups |-> IF hreq.new THEN tbl[g]
                                   ELSE Upto(tbl[g], Len(hreq.tbl[g]), Len(tbl[g]))]
         d    == Dispatched(n, new, ring)
         moved(g) == g \in States /\ hreq.tbl[g] # <<>> /\ Len(tbl[g]) > Len(hreq.tbl[g])
         fresh(g) == ToSet(Upto(tbl[g], Len(hreq.tbl[g]), Len(tbl[g])))
     IN /\ hjob' = [NoJob EXCEPT !.load = d.load, !.dump = d.dump, !.n = n]
        /\ hmeta' = d.meta
        /\ hreq' = [hreq EXCEPT !.tbl = tbl, !.new = FALSE]
        /\ hmem' = [row \in Rows |-> [g \in Groups |-> [v \in Pool |-> [o \in Offsets(g) |->
                      IF v \notin fresh(g) THEN hmem[row][g][v][o]
                      ELSE IF moved(g) /\ v = Last(tbl[g])
                           THEN Read(row, <<g, Last(hreq.tbl[g]), 0>>) ELSE Junk]]]]
  /\ hpc' = "load" /\ hrow' = 0 /\ hload' = {}
  /\ UNCHANGED <<hcfg, hleft, hpend, hstore>>

----------------------------------------------------------------------------
(* Worker roles. *)

\* The row a hook of the layerwise connector is about: start_load_kv waits for row 0;
\* wait_for_layer_load at the last layer of a row waits for the next one.
NextRow == IF hpc = "load" THEN 0 ELSE hrow + 1

\* Rows asked for so far (_submitted_load_rows), some of them ahead.
Ahead == hload \union (NextRow..Min({NextRow + hcfg.ahead, hcfg.rows - 1}))

\* The rows whose load a hook waits for; the direct connectors wait for all of them.
Awaited == IF hcfg.lw THEN {NextRow} \intersect Rows
           ELSE IF hpc = "load" THEN Rows ELSE {}

\* What the loads that a hook waits for ask the store for.
LoadKeys == {<<x.key, row>> : x \in hjob.load, row \in Awaited}

\* Device memory after these loads: transfer x writes its i-th datum to its i-th cell.
Arrived ==
  LET into(x) == {<<y, i>> \in hjob.load \X (1..24) : i <= Len(y.cells) /\ y.cells[i] = x}
  IN  [row \in Rows |-> IF row \notin Awaited THEN hmem[row]
         ELSE [g \in Groups |-> [v \in Pool |-> [o \in Offsets(g) |->
           IF into(<<g, v, o>>) = {} THEN hmem[row][g][v][o]
           ELSE LET e == CHOOSE e \in into(<<g, v, o>>) : TRUE
                IN  hstore[<<e[1].key, row>>].data[e[2]]]]]]

\* What a step with a failed load, or one that loaded such data, dumped over its junk.
Tainted == {k \in DOMAIN hstore : hstore[k].is = "tainted"}

\* start_load_kv, or wait_for_layer_load.  A load that fails or does not find its data marks
\* the request (_mark_load_failed, _handle_load_err); later rows are not asked for.
\* The store returns what it has: nothing tells a request that it loaded tainted data.
Load ==
  /\ \/ hpc = "load"
     \/ hpc = "wait"
  /\ \E broken \in BOOLEAN :
     LET try == ~hjob.fail /\ LoadKeys # {}
         bad == try /\ (broken \/ ~(LoadKeys \subseteq DOMAIN hstore))
     IN /\ broken => try /\ HFaulty("load")
        /\ HSpend(IF broken THEN 1 ELSE 0)
        /\ hjob' = [hjob EXCEPT !.fail = @ \/ bad]
        /\ hmem' = IF bad \/ ~try THEN hmem ELSE Arrived
        /\ hreq' = [hreq EXCEPT !.spoilt = @ \/ (try /\ ~bad /\ LoadKeys \intersect Tainted # {})]
  /\ hload' = Ahead
  /\ hpc' = IF hpc = "load" THEN "fwd" ELSE "next"
  /\ UNCHANGED <<hcfg, hmeta, hrow, hpend, hstore>>

\* What a forward after ctx tokens reads in row: all full-attention tokens, the tail of
\* every window, the running state.
ContextRight(row, ctx) ==
  \A g \in Groups :
    IF g \in States
    THEN ctx = 0 \/ Read(row, <<g, Last(hreq.tbl[g]), 0>>) = Prefix(hreq.c, ctx)
    ELSE \A t \in (IF g \in Full THEN 0 ELSE Max({0, ctx - hcfg.groups[g].tail + 1}))..(ctx - 1) :
           Read(row, TokenCell(g, hreq.tbl[g], t)) = Prefix(hreq.c, t + 1)

\* _is_mtp_layer: the last row belongs to a multi-token predictor, visited twice.
MtpRow(row) == hcfg.mtp /\ row = hcfg.rows - 1

\* The forward (external) of one row of layers.  The row of a predictor is complete after
\* its second visit.
ForwardRow ==
  LET ctx == hreq.ctx
      end == ctx + hjob.n
      ok  == hjob.ok /\ ContextRight(hrow, ctx)
      whole == ok /\ (MtpRow(hrow) => hjob.late # {})
  IN /\ hpc = "fwd"
     /\ hmem' = [hmem EXCEPT ![hrow] = [g \in Groups |-> [v \in Pool |-> [o \in Offsets(g) |->
          LET idx == {i \in DOMAIN hreq.tbl[g] : hreq.tbl[g][i] = v}
              t   == (Min(idx) - 1) * Size(g) + o
          IN  IF idx = {} THEN @[g][v][o]
              ELSE IF g \in States
                   THEN IF v = Last(hreq.tbl[g]) /\ (whole \/ ~MtpRow(hrow))
                        THEN IF ok THEN Prefix(hreq.c, end) ELSE Junk
                        ELSE @[g][v][o]
              ELSE IF t < ctx \/ t >= end THEN @[g][v][o]
              ELSE IF whole THEN Prefix(hreq.c, t + 1) ELSE Junk]]]]
     /\ hjob' = [hjob EXCEPT !.ok = ok]
     /\ hpc' = "wait"
     /\ UNCHANGED <<hcfg, hleft, hreq, hmeta, hrow, hload, hpend, hstore>>

Task(X, row, sync) ==
  IF X = {} THEN {} ELSE {[X |-> X, row |-> row, sync |-> sync, taint |-> hjob.fail \/ hreq.spoilt]}

\* save_kv_layer at the last layer of a row: the layerwise connector dumps the row, or
\* defers it when it is the predictor's (_deferred_mtp_row_dumps).
SaveRow ==
  /\ hpc = "next"
  /\ hpend' = IF hcfg.lw /\ ~MtpRow(hrow) THEN hpend \union Task(hjob.dump, hrow, TRUE) ELSE hpend
  /\ hjob' = [hjob EXCEPT !.late = IF MtpRow(hrow) THEN {hrow} ELSE @]
  /\ hrow' = IF MtpRow(hrow) /\ hjob.late = {} THEN hrow ELSE Min({hrow + 1, hcfg.rows - 1})
  /\ hpc' = IF hrow = hcfg.rows - 1 /\ (MtpRow(hrow) => hjob.late # {}) THEN "save" ELSE "fwd"
  /\ UNCHANGED <<hcfg, hleft, hreq, hmeta, hload, hmem, hstore>>

\* What the key promises.
Promised(key, cells) ==
  LET c == key[3][1]
      p == key[3][2]
      first(g) == IF key[1] = "wa" THEN p - hcfg.groups[g].tail
                  ELSE IF key[2] = 0 THEN p - hcfg.hbs ELSE p - Size(g)
      nth(i) == Cardinality({j \in 1..i : cells[j][1] = cells[i][1]})
  IN  [i \in DOMAIN cells |-> IF key[1] = "state" THEN key[3]
                              ELSE Prefix(c, first(cells[i][1]) + nth(i))]

\* Transfers X of row land in the store st, which keeps what it has.
Written(st, X, row, taint) ==
  LET new == {x \in X : <<x.key, row>> \notin DOMAIN st}
      val(x) == [i \in DOMAIN x.cells |-> Read(row, x.cells[i])]
      tag(x) == IF val(x) = Promised(x.key, x.cells) THEN "right"
                ELSE IF taint THEN "tainted" ELSE "wrong"
  IN  FoldSet(LAMBDA x, s : (<<x.key, row>> :> [data |-> val(x), is |-> tag(x)]) @@ s, st, new)

\* The dumps that wait_for_save submits.  The direct HLA connector dumps all rows and waits
\* for them; the layerwise one flushes the rows it deferred.
HlaDumps    == UNION {Task(hjob.dump, row, TRUE) : row \in Rows}
FlushedRows == UNION {Task(hjob.dump, row, TRUE) : row \in hjob.late}
\* FAWA waits for the window rows, whose blocks the next step may reuse, and leaves the
\* full-attention rows in flight.
WaDump == Task({x \in hjob.dump : x.key[1] = "wa"}, 0, TRUE)
FaDump == Task({x \in hjob.dump : x.key[1] # "wa"}, 0, FALSE)

LateDumps == IF ~Hla THEN WaDump \union FaDump ELSE IF hcfg.lw THEN FlushedRows ELSE HlaDumps

Save ==
  /\ hpc = "save"
  /\ hpend' = hpend \union LateDumps
  /\ hpc' = "drain"
  /\ UNCHANGED <<hcfg, hleft, hreq, hmeta, hjob, hrow, hload, hmem, hstore>>

\* wait_for_save returns when its synchronous dumps have ended: all of HLA, and window
\* rows, whose blocks may be reused in the next step.  Full-attention rows stay in
\* flight.
SaveReturns ==
  /\ hpc = "drain" /\ \A t \in hpend : ~t.sync
  /\ hpc' = "out"
  /\ UNCHANGED <<hcfg, hleft, hreq, hmeta, hjob, hrow, hload, hpend, hmem, hstore>>

\* A dump lands, or fails after a part of it was written.
Settle ==
  \E t \in hpend :
    /\ hpend' = hpend \ {t}
    /\ \/ hstore' = Written(hstore, t.X, t.row, t.taint) /\ UNCHANGED hleft
       \/ /\ HFaulty("dump") /\ HSpend(1)
          /\ \E x \in t.X : hstore' = Written(hstore, t.X \ {x}, t.row, t.taint)
    /\ UNCHANGED <<hcfg, hreq, hmeta, hjob, hpc, hrow, hload, hmem>>

Collect ==
  /\ HFaulty("gc") /\ HSpend(1)
  /\ \E x \in DOMAIN hstore : hstore' = [y \in DOMAIN hstore \ {x} |-> hstore[y]]
  /\ UNCHANGED <<hcfg, hreq, hmeta, hjob, hpc, hrow, hload, hpend, hmem>>

----------------------------------------------------------------------------
(* The end of a step: the request goes on, ends, or is preempted. *)

\* _drain_best_effort_dump_tasks in handle_preemptions and get_finished: blocks are reused
\* when no dump reads them.
Drained == hpend = {}

StepEnds ==
  /\ hpc = "out" /\ ~hjob.fail
  /\ LET end == hreq.ctx + hjob.n
     IN  \/ /\ end < hreq.n
            /\ hreq' = [hreq EXCEPT !.ctx = end] /\ hpc' = "sched" /\ UNCHANGED <<hleft, hmeta>>
         \/ /\ end = hreq.n /\ hreq.n < hreq.prompt + hcfg.out
            /\ hreq' = [hreq EXCEPT !.ctx = end, !.n = @ + 1] /\ hpc' = "sched"
            /\ UNCHANGED <<hleft, hmeta>>
         \/ /\ end < hreq.n /\ hleft.preempts > 0 /\ Drained
            /\ hleft' = [hleft EXCEPT !.preempts = @ - 1]
            /\ hreq' = [hreq EXCEPT !.ctx = 0, !.new = TRUE, !.spoilt = FALSE,
                                    !.tbl = [g \in Groups |-> <<>>]]
            /\ hpc' = "admit" /\ UNCHANGED hmeta
  /\ hjob' = NoJob
  /\ UNCHANGED <<hcfg, hrow, hload, hpend, hmem, hstore>>

\* The request ends, also by the failure of a load; its blocks are free again.
RequestEnds ==
  /\ hpc = "out" /\ Drained
  /\ hjob.fail \/ (hreq.ctx + hjob.n = hreq.n /\ hreq.n = hreq.prompt + hcfg.out)
  /\ hreq' = <<>> /\ hmeta' = NoMeta /\ hjob' = NoJob /\ hpc' = "arrive"
  /\ UNCHANGED <<hcfg, hleft, hrow, hload, hpend, hmem, hstore>>

HybridDone == hpc = "arrive" /\ hleft.reqs = 0 /\ UNCHANGED hvars

HybridNext == \/ Arrive \/ Admit \/ Schedule \/ Load \/ ForwardRow \/ SaveRow
              \/ Save \/ SaveReturns \/ Settle \/ Collect \/ StepEnds \/ RequestEnds \/ HybridDone

----------------------------------------------------------------------------
(* Properties. *)

\* A request whose loads did not fail, and found nothing that was dumped in the wake of a
\* failed one, computes every row of layers from the right context: what the lookup
\* reported, the tables of all groups, the offsets in them and the order of row loads fit
\* together.  The second condition is needed: wait_for_save dumps the blocks of a step
\* whose load failed like any others, and a later request of the chain hits them.
HybridContextRight ==
  (hpc = "fwd" /\ ~hjob.fail /\ ~hreq.spoilt) => ContextRight(hrow, hreq.ctx)

\* Under every key the store holds what the key promises, except for what a step
\* with a failed load, or a request that loaded such data, wrote: no state of another position, no cell of another token, no
\* block that was reused before its dump had read it.
HybridStoredRight == \A x \in DOMAIN hstore : hstore[x].is # "wrong"

\* What the lookup of a request reported is there when it is loaded, unless a fault
\* removed or broke it.
HybridHitKept == hjob.fail => hleft.faults < hcfg.nfaults

\* Without faults a request leaves all of its full blocks in the store, and a position
\* at its end where the next request can resume, however it was chunked, preempted and
\* spread over ranks.
HybridAllStored ==
  (hpc = "arrive" /\ hcfg.faults \union hcfg.local = {} /\ hcfg.reqs = hleft.reqs + 1 /\ hstore # <<>>) =>
    \E x \in hcfg.prompts :
      IF Hla THEN \A g \in Full : \A i \in 1..(x.n \div Size(g)) : Stored(FaKey(g, x.c, i))
      ELSE /\ \A i \in 1..(x.n \div hcfg.hbs) : Stored(CanonicalKey(x.c, i))
           /\ Stored(WaKey(x.c, x.n \div hcfg.hbs))

\* What a lookup reports is loaded and is the right context; what is stored is right, and
\* nothing that a request filled is left out.
HybridRight == HybridContextRight /\ HybridHitKept /\ HybridStoredRight /\ HybridAllStored
=============================================================================
