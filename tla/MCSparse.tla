------------------------------ MODULE MCSparse ------------------------------
(***************************************************************************)
(* Small workloads of the sparse attention methods and of blending: one to *)
(* four requests, blocks of two tokens.                                    *)
(***************************************************************************)
EXTENDS SparseEngine, GsaOnDevice, Blend

(* Block-wise sparse methods: two prompts, with a shared prefix or without. *)
EsaSetup(pool, prompt, out, fam, apc, npu, aborts) ==
  [method |-> "esa", bs |-> 2, pool |-> pool, prompt |-> prompt, out |-> out, fam |-> fam,
   apc |-> apc, npu |-> npu, aborts |-> aborts, iw |-> 1, lw |-> 1, num |-> 1, den |-> 2,
   minb |-> 3, stride |-> 3, maxlen |-> 16, seqs |-> 2, budget |-> 8]
KvSetup(pool, prompt, out, fam, aborts) ==
  [EsaSetup(pool, prompt, out, fam, FALSE, FALSE, aborts) EXCEPT !.method = "kvstar", !.stride = 2]
SparseSets == {EsaSetup(9, <<7, 3>>, <<7, 3>>, <<1, 2>>, FALSE, FALSE, 0),
           EsaSetup(9, <<7, 7>>, <<7, 5>>, <<1, 1>>, TRUE, FALSE, 1),
           KvSetup(12, <<9, 9>>, <<6, 3>>, <<1, 2>>, 1),
           EsaSetup(9, <<7>>, <<3>>, <<1>>, FALSE, TRUE, 0)}

----------------------------------------------------------------------------
(* GSA on device: chunks, hits, captured graphs, preemption, MLA and NPU. *)
GsaBase ==
  [mla |-> FALSE, npu |-> FALSE, bs |-> 2, pool |-> 17, layers |-> <<"rollback", "hash", "skip", "rollback", "hash">>,
   thr |-> 12, conc |-> 1, topk |-> 12, prompt |-> <<13, 14>>, out |-> <<2, 1>>, common |-> 6, apc |-> TRUE,
   ext |-> {0, 8}, chunk |-> 16, sizes |-> {}, preempts |-> 0]
GsaSets == {[GsaBase EXCEPT !.sizes = {1, 2}, !.ext = {0, 14}],
       [GsaBase EXCEPT !.chunk = 4, !.conc = 2, !.layers = <<"rollback", "hash", "skip">>],
       [GsaBase EXCEPT !.ext = {0, 2}, !.out = <<3, 0>>, !.preempts = 1, !.layers = <<"hash", "skip">>],
       [GsaBase EXCEPT !.mla = TRUE, !.ext = {0, 14}, !.layers = <<"rollback", "hash", "skip">>],
       [GsaBase EXCEPT !.npu = TRUE, !.prompt = <<13, 5>>, !.layers = <<"rollback", "hash", "skip", "rollback">>],
       [GsaBase EXCEPT !.npu = TRUE, !.mla = TRUE, !.ext = {0, 14}, !.layers = <<"rollback", "hash", "skip">>]}

----------------------------------------------------------------------------
(* Blending: prompts made of chunks that were seen before. *)
Chunk1 == <<1, 0>>
Chunk2 == <<2, 3, 4, 0>>
Chunk3 == <<5, 0>>
Question  == <<7>>
BlendBase == [bs |-> 2, thr |-> 1, ratio |-> <<-1, 5, -1>>, pool |-> 12, preempts |-> 0, outs |-> 1, outTok |-> 8,
              prompt |-> <<Chunk1, Chunk2, Chunk1 \o Chunk2 \o Question, Chunk3 \o Chunk1 \o Question>>]
BlendSets == {BlendBase,
          [BlendBase EXCEPT !.prompt = <<<<2, 3, 9, 0>>, Chunk1, Chunk2 \o Chunk1 \o Question>>],
          [BlendBase EXCEPT !.prompt = <<<<6>>, Chunk1>>],
          [BlendBase EXCEPT !.prompt = <<Chunk2, Chunk2 \o <<8>>, Chunk1 \o Chunk2 \o Question>>, !.preempts = 1],
          [BlendBase EXCEPT !.prompt = <<Chunk1, Chunk3 \o Chunk1 \o Question, Chunk2 \o Chunk1 \o Question>>, !.ratio = <<5, -1>>, !.preempts = 1],
          [BlendBase EXCEPT !.prompt = <<Chunk2 \o Question, Chunk1, Chunk2 \o Chunk1 \o Question, Chunk3 \o Chunk1 \o Chunk2 \o Question>>, !.thr = 2],
          [BlendBase EXCEPT !.prompt = <<Chunk2, Chunk3 \o Chunk1, Chunk3 \o Chunk1 \o Chunk2 \o Question>>]}
=============================================================================
