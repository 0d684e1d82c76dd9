------------------------------ MODULE KvLayout ------------------------------
(***************************************************************************)
(* Where the bytes of a device block are: the layouts that the connectors  *)
(* compute from the engine's KV cache tensors, and the shape of the store  *)
(* that is created from them.  Four of them:                               *)
(*                                                                         *)
(*   plain    KVCacheLayout, direct or layer by layer (ucm_connector.py);  *)
(*   indexer  SharedIndexerKVCacheLayout: rows with fixed slots, a ghost   *)
(*            (null) segment where a layer has no indexer;                 *)
(*   page     HybridLinearAttentionLayout: raw tensors shared by attention *)
(*            and state-space layers (hla_connector.py);                   *)
(*   group    KVCacheGroupLayout: segments of tokens (hma_connector.py).   *)
(*                                                                         *)
(* Memory is counted in small units.  A cache is what the engine hands     *)
(* over for one layer (or one raw tensor): its tensors, and its views, the *)
(* places where the model keeps each component of a block (external).      *)
(***************************************************************************)
EXTENDS Naturals, Integers, Sequences, FiniteSets, FiniteSetsExt, SequencesExt

CONSTANT LayoutSetups

VARIABLES lcfg,    \* layout, lw (layerwise), sfa8, li8, npu, hidden, blocks, menu of caches, count
          lcaches, \* kv_caches registered so far
          lrows,   \* rows of segments: ptr, copy size, block stride, buffer size
          lstore,  \* configuration of the store that was created
          lmoved,  \* block, row (or segment) and byte ranges of one transfer
          lpc

lvars == <<lcfg, lcaches, lrows, lstore, lmoved, lpc>>

NoStore == [sizes |-> <<>>, shard |-> 0, block |-> 0, buffers |-> {}]
NoMove  == [b |-> 0, row |-> 0, ranges |-> {}]
\* Size to which direct I/O rounds the stores of a group layout (4096 in the code).
Aligned == 4
RoundUp(n) == ((n + Aligned - 1) \div Aligned) * Aligned
Total(s) == FoldLeft(LAMBDA a, n : a + n, 0, s)
Devices  == 0..(lcfg.blocks - 1)

LayoutInit ==
  /\ lcfg \in LayoutSetups
  /\ lcaches = <<>> /\ lrows = <<>> /\ lstore = NoStore /\ lmoved = NoMove
  /\ lpc = "register"

\* Address behind the caches registered so far; 0 is the null pointer.
Top == 8 + Total([i \in DOMAIN lcaches |-> lcaches[i].bytes + 1])

----------------------------------------------------------------------------
(* The engine's caches (external). *)

Tensor(ptr, n) == [ptr |-> ptr, bpb |-> n, buf |-> n * lcfg.blocks]

\* Tensors of the given sizes per block, one after the other from p on.
Tensors(p, sizes) ==
  [i \in DOMAIN sizes |-> Tensor(p + Total(SubSeq(sizes, 1, i - 1)) * lcfg.blocks, sizes[i])]

View(ptr, stride, n) == [ptr |-> ptr, stride |-> stride, n |-> n]

\* Components of a raw tensor at p: [conv, K or ssm, V] across all blocks on Ascend, one
\* page per block on CUDA.
PageViews(p, e) ==
  LET nb   == lcfg.blocks
      mid  == IF e.ssm > e.k THEN e.ssm ELSE e.k
      pad  == e.page - e.k - e.v
      attn == IF ~lcfg.npu \/ (~e.mamba /\ pad <= 0) THEN {View(p, e.page, e.k + e.v)}
              ELSE IF e.mamba THEN {View(p + e.conv * nb, mid, e.k), View(p + (e.conv + mid) * nb, e.page - e.conv - mid, e.v)}
              ELSE {View(p + pad * nb, e.k, e.k), View(p + (pad + e.k) * nb, e.v, e.v)}
      mamba == IF lcfg.npu /\ e.attn THEN {View(p, e.conv, e.conv), View(p + e.conv * nb, mid, e.ssm)}
               ELSE {View(p, e.page, e.conv + e.ssm)}
  IN  (IF e.attn THEN attn ELSE {}) \union (IF e.mamba THEN mamba ELSE {})

\* What the engine registers for menu entry e.
Cache(e) ==
  CASE lcfg.layout \in {"plain", "indexer"} ->
         LET ts == Tensors(Top, e.sizes)
         IN  [tensors |-> ts, bytes |-> Total(e.sizes) * lcfg.blocks, e |-> e,
              views |-> {View(ts[i].ptr, ts[i].bpb, ts[i].bpb) : i \in DOMAIN ts}]
    [] lcfg.layout = "page" ->
         [tensors |-> <<Tensor(Top, e.page)>>, bytes |-> e.page * lcfg.blocks, e |-> e,
          views |-> PageViews(Top, e)]
    [] lcfg.layout = "group" ->
         [tensors |-> Tensors(Top, <<e.tbs * e.spt>>), bytes |-> e.tbs * e.spt * lcfg.blocks,
          e |-> e, views |-> {View(Top, e.tbs * e.spt, e.tbs * e.spt)}]

\* register_kv_caches is handed one more layer.
RegisterCache ==
  /\ lpc = "register" /\ Len(lcaches) < lcfg.count
  /\ \E e \in lcfg.menu : lcaches' = Append(lcaches, Cache(e))
  /\ UNCHANGED <<lcfg, lrows, lstore, lmoved, lpc>>

----------------------------------------------------------------------------
(* Layouts.  A layout that raises is <<>>. *)

Segment(ptr, copy, stride, buf) == [ptr |-> ptr, copy |-> copy, stride |-> stride, buf |-> buf]
WholeTensor(t) == Segment(t.ptr, t.bpb, t.bpb, t.buf)
Ghost(n) == Segment(0, n, 0, 0)
Sizes(ts) == [i \in DOMAIN ts |-> ts[i].bpb]

\* KVCacheLayout._build_layout: all tensors in one flat row, or one row per layer of
\* the same sizes.
PlainRows(caches) ==
  LET rows == [i \in DOMAIN caches |-> [j \in DOMAIN caches[i].tensors |-> WholeTensor(caches[i].tensors[j])]]
      same == \A i \in DOMAIN caches : Sizes(caches[i].tensors) = Sizes(caches[1].tensors)
  IN  IF ~lcfg.lw THEN <<FlattenSeq(rows)>> ELSE IF same THEN rows ELSE <<>>

\* The tensors of a layer of a model with shared indexers, in the order attention,
\* indexer, scale.
BaseCount == IF lcfg.sfa8 THEN 1 ELSE 2
Base(c)   == SubSeq(c.tensors, 1, BaseCount)
Extras(c) == SubSeq(c.tensors, BaseCount + 1, Len(c.tensors))
HasScale(c) == Len(Extras(c)) = 2
HasIndexer(c) == Len(Extras(c)) > 0

\* _build_ascend_layout and _build_cuda_layout: the kind of row all layers share, or
\* "raises".
LayoutMode(caches) ==
  LET c8   == {i \in DOMAIN caches : HasScale(caches[i])}
      bf16 == {i \in DOMAIN caches : HasIndexer(caches[i])} \ c8
      one(S) == Cardinality(S) <= 1
      chunks == {Extras(caches[i])[1].bpb : i \in c8}
      halves == {Extras(caches[i])[1].bpb : i \in bf16}
  IN  IF \/ \E i \in DOMAIN caches : \/ Sizes(Base(caches[i])) # Sizes(Base(caches[1]))
                                     \/ Len(Extras(caches[i])) > (IF lcfg.li8 THEN 2 ELSE 1)
         \/ c8 \union bf16 = {} \/ ~one(chunks) \/ ~one({Extras(caches[i])[2].bpb : i \in c8})
         \/ c8 = {} /\ ~one(halves)
         \/ c8 # {} /\ \E n \in halves : n # 2 * Min(chunks)
      THEN "raises"
      ELSE IF c8 = {} THEN "bf16" ELSE IF bf16 = {} THEN "li_c8" ELSE "mixed"

\* Mutant of IndexerSlots: both halves of a split indexer advance by their own size.
IndexerSlotsByHalf(c, mode, n, chunk, scale) ==
  LET x == Extras(c)
  IN  CASE mode = "bf16"  -> IF HasIndexer(c) THEN <<WholeTensor(x[1])>> ELSE <<Ghost(n)>>
        [] mode = "li_c8" -> IF HasScale(c) THEN <<WholeTensor(x[1]), WholeTensor(x[2])>>
                             ELSE <<Ghost(chunk), Ghost(scale)>>
        [] mode = "mixed" ->
             IF HasScale(c) THEN <<WholeTensor(x[1]), Ghost(chunk), WholeTensor(x[2])>>
             ELSE IF HasIndexer(c)
             THEN <<Segment(x[1].ptr, chunk, chunk, x[1].buf),
                    Segment(x[1].ptr + chunk, chunk, chunk, 0), Ghost(scale)>>
             ELSE <<Ghost(chunk), Ghost(chunk), Ghost(scale)>>

\* _build_segment_rows: the slots behind the attention tensors of one layer.  A BF16
\* indexer among C8 ones is split into two chunks.
IndexerSlots(c, mode, n, chunk, scale) ==
  LET x == Extras(c)
  IN  CASE mode = "bf16"  -> IF HasIndexer(c) THEN <<WholeTensor(x[1])>> ELSE <<Ghost(n)>>
        [] mode = "li_c8" -> IF HasScale(c) THEN <<WholeTensor(x[1]), WholeTensor(x[2])>>
                             ELSE <<Ghost(chunk), Ghost(scale)>>
        [] mode = "mixed" ->
             IF HasScale(c) THEN <<Segment(x[1].ptr, chunk, x[1].bpb, x[1].buf),
                                   Ghost(chunk), WholeTensor(x[2])>>
             ELSE IF HasIndexer(c)
             THEN <<Segment(x[1].ptr, chunk, x[1].bpb, x[1].buf),
                    Segment(x[1].ptr + chunk, chunk, x[1].bpb, 0), Ghost(scale)>>
             ELSE <<Ghost(chunk), Ghost(chunk), Ghost(scale)>>

IndexerRows(caches) ==
  LET mode   == LayoutMode(caches)
      has(P(_)) == {i \in DOMAIN caches : P(caches[i])}
      c8     == has(HasScale)
      n      == IF mode # "bf16" THEN 0 ELSE Extras(caches[Min(has(HasIndexer))])[1].bpb
      chunk  == IF c8 = {} THEN 0 ELSE Extras(caches[Min(c8)])[1].bpb
      scale  == IF c8 = {} THEN 0 ELSE Extras(caches[Min(c8)])[2].bpb
      base(c) == [j \in 1..BaseCount |-> WholeTensor(Base(c)[j])]
  IN  IF mode = "raises" THEN <<>>
      ELSE [i \in DOMAIN caches |-> base(caches[i]) \o IndexerSlots(caches[i], mode, n, chunk, scale)]

\* Slices of a raw tensor from base on, of the given sizes, across all blocks.
ComponentMajor(base, sizes) ==
  [i \in DOMAIN sizes |-> Segment(base + Total(SubSeq(sizes, 1, i - 1)) * lcfg.blocks,
                                  sizes[i], sizes[i], sizes[i] * lcfg.blocks)]

Lowest(c) == Min({v.ptr : v \in c.views})
\* _append_contiguous_page_layout.
ContiguousPage(c) == <<Segment(Lowest(c), c.e.page, c.e.page, c.bytes)>>

\* _append_ascend_component_major_layout.
MajorRow(c) ==
  LET mid  == IF c.e.ssm > c.e.k THEN c.e.ssm ELSE c.e.k
      tail == c.e.page - c.e.conv - mid
  IN  IF tail <= 0 \/ tail < c.e.v THEN <<>>
      ELSE ComponentMajor(Lowest(c), <<c.e.conv, mid, tail>>)

\* _append_ascend_attn_only_layout: the K view starts behind the padding.
AttnOnlyRow(c) ==
  LET pad == c.e.page - c.e.k - c.e.v
  IN  IF pad <= 0 THEN ContiguousPage(c)
      ELSE ComponentMajor(Lowest(c) - pad * lcfg.blocks, <<pad, c.e.k, c.e.v>>)

\* register_kv_caches of the layerwise connector: one row-sharded store needs rows of one
\* shape.
RowsAgree(rows) ==
  LET shape(r) == [j \in DOMAIN r |-> r[j].copy]
  IN  \A i \in DOMAIN rows : shape(rows[i]) = shape(rows[1])

\* _finalize_layout_arrays: one flat row for the direct connector, a slice per raw tensor
\* for the layerwise one.
Finalized(rows) == IF lcfg.lw THEN rows ELSE <<FlattenSeq(rows)>>

\* HybridLinearAttentionLayout._build_layout.
PageRows(caches) ==
  LET row(c) == IF lcfg.npu /\ c.e.mamba /\ c.e.attn THEN MajorRow(c)
                ELSE IF lcfg.npu /\ c.e.attn THEN AttnOnlyRow(c) ELSE ContiguousPage(c)
      rows   == [i \in DOMAIN caches |-> row(caches[i])]
  IN  IF (\E i \in DOMAIN rows : rows[i] = <<>>) \/ (lcfg.lw /\ ~RowsAgree(rows)) THEN <<>>
      ELSE Finalized(rows)

\* KVCacheGroupLayout: a row is a segment of seg tokens of a block of span tokens, in all
\* tensors of the group (extract_addrs_with_offsets, segment_tensor_size_list).
GroupRows(caches) ==
  LET at(c, o) == c.tensors[1].ptr + ((o * c.e.tbs) \div lcfg.span) * c.e.spt
      size(c)  == c.e.spt * ((c.e.tbs * lcfg.seg) \div lcfg.span)
  IN  [i \in 1..(lcfg.span \div lcfg.seg) |-> [j \in DOMAIN caches |->
         Segment(at(caches[j], (i - 1) * lcfg.seg), size(caches[j]), caches[j].tensors[1].bpb, 0)]]

\* The layout class that register_kv_caches picks builds its rows.
BuildLayout ==
  /\ lpc = "register" /\ Len(lcaches) = lcfg.count
  /\ LET rows == CASE lcfg.layout = "plain"   -> PlainRows(lcaches)
                   [] lcfg.layout = "indexer" -> IndexerRows(lcaches)
                   [] lcfg.layout = "page"    -> PageRows(lcaches)
                   [] lcfg.layout = "group"   -> GroupRows(lcaches)
     IN /\ lrows' = rows
        /\ lpc' = IF rows = <<>> THEN "rejected" ELSE "built"
  /\ UNCHANGED <<lcfg, lcaches, lstore, lmoved>>

\* Device buffers that a store registers, ghosts left out.
Buffers == {<<s.ptr, s.buf>> : s \in {s \in UNION {ToSet(lrows[i]) : i \in DOMAIN lrows} :
                                       s.ptr # 0 /\ s.buf # 0}}
SlotSizes == [j \in DOMAIN lrows[1] |-> lrows[1][j].copy]

\* The store of the plain layouts: shards of a row; with several pipeline stages a block has
\* room for the layers (hidden) of all of them.
PlainStore ==
  [sizes |-> SlotSizes, shard |-> Total(SlotSizes), buffers |-> Buffers,
   block |-> IF lcfg.hidden = 0 THEN Total(SlotSizes) * Len(lrows)
             ELSE lcfg.hidden * (IF lcfg.lw THEN Total(SlotSizes) ELSE SlotSizes[1])]

\* The store of raw tensors: a block is all rows, each a shard when the connector is
\* layerwise.
PageStore ==
  [sizes |-> SlotSizes, shard |-> Total(SlotSizes), buffers |-> Buffers,
   block |-> Total(SlotSizes) * Len(lrows)]

\* The store of a group's segments: one aligned shard, no registered buffers.
GroupStore ==
  [sizes |-> SlotSizes, shard |-> RoundUp(Total(SlotSizes)), buffers |-> {},
   block |-> RoundUp(Total(SlotSizes))]

\* _create_store of a worker.
CreateStore ==
  /\ lpc = "built"
  /\ lstore' = CASE lcfg.layout = "group" -> GroupStore
                 [] lcfg.layout = "page"  -> PageStore
                 [] OTHER                 -> PlainStore
  /\ lpc' = "ready"
  /\ UNCHANGED <<lcfg, lcaches, lrows, lmoved>>

\* extract_block_addrs_for_row: where the slots of a row of block b are, null slots left out.
RowAddrs(b, row) ==
  {<<j, lrows[row][j].ptr + b * lrows[row][j].stride>> : j \in {j \in DOMAIN lrows[row] : lrows[row][j].ptr # 0}}

\* The store copies each slot, of the size its configuration gives the slot.
Transfer ==
  /\ lpc = "ready"
  /\ \E b \in Devices, row \in DOMAIN lrows :
       lmoved' = [b |-> b, row |-> row, ranges |-> {<<x[2], lstore.sizes[x[1]]>> : x \in RowAddrs(b, row)}]
  /\ UNCHANGED <<lcfg, lcaches, lrows, lstore, lpc>>

LayoutRejected == lpc = "rejected" /\ UNCHANGED lvars
LayoutNext == RegisterCache \/ BuildLayout \/ CreateStore \/ Transfer \/ LayoutRejected

----------------------------------------------------------------------------
Bytes(r) == r[1]..(r[1] + r[2] - 1)
Moved == UNION {Bytes(r) : r \in lmoved.ranges}

\* Bytes of device block b in the caches that row (0 for all) is about; a row of a group
\* layout is about a part of the tokens.
OwnBytes(b, row) ==
  LET part(c) == IF lcfg.layout = "group" THEN c.bytes \div (lcfg.blocks * Len(lrows)) ELSE 0
      of(c)   == UNION {LET n == IF part(c) = 0 THEN v.n ELSE part(c)
                        IN  Bytes(<<v.ptr + b * v.stride + (row - 1) * part(c), n>>) : v \in c.views}
  IN  UNION {of(lcaches[i]) : i \in {i \in DOMAIN lcaches :
                                       lcfg.layout = "group" \/ Len(lrows) = 1 \/ i = row}}

\* One transfer moves all bytes that the model keeps in the block for these layers and no
\* byte of another block, copies no byte twice, stays in the shard, and on devices that
\* need it touches registered buffers only.
LayoutExact ==
  lmoved # NoMove =>
    /\ OwnBytes(lmoved.b, lmoved.row) \subseteq Moved
    /\ \A b \in Devices \ {lmoved.b} : \A row \in DOMAIN lrows :
         OwnBytes(b, row) \intersect Moved = {}
    /\ \A r, s \in lmoved.ranges : r = s \/ Bytes(r) \intersect Bytes(s) = {}
    /\ Cardinality(Moved) <= lstore.shard /\ lstore.shard <= lstore.block
    /\ lcfg.layout # "group" =>
         \A r \in lmoved.ranges : \E u \in lstore.buffers : Bytes(r) \subseteq Bytes(u)
=============================================================================
