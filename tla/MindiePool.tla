----------------------------- MODULE MindiePool -----------------------------
(***************************************************************************)
(* The MindIE-LLM integration: UnifiedCacheMempool, which stores and loads *)
(* blocks of the NPU cache, and the prefix cache plugin of every worker,   *)
(* which names the blocks of a batch and moves them, on the model's thread *)
(* or on a thread of its own.                                              *)
(*                                                                         *)
(* A block of a worker's cache holds the tokens its keys were computed     *)
(* from, the part of the heads that is the worker's, and whether all its   *)
(* tensors are whole.  The engine (batches, block tables, local prefix     *)
(* cache, forward pass) and the store are external.                        *)
(***************************************************************************)
EXTENDS Integers, Sequences, FiniteSets, SequencesExt, FiniteSetsExt, TLC

CONSTANT MindieSetups

VARIABLES
  mcfg,    \* the setup, fixed
  mpc,     \* "start", "serve" or "off"
  mclock,  \* seconds, in units of a third of the timeout of the coordination file
  muid,    \* worker -> the store id it got, 0 before it starts; when it started
  mfile,   \* coordination file: store id and its timestamp
  mbatch,  \* requests of the batch under way, the blocks found locally and in the store
  mph,     \* worker -> part of the batch it is at
  mqueue,  \* worker -> batches its save thread has still to store
  mdone,   \* requests served
  mtab,    \* request -> rank -> blocks
  mkv,     \* worker -> block -> contents
  mstore,  \* key -> contents
  mfails,  \* transfers that may still fail
  mlost,   \* a dump failed
  moff     \* a load failed, or a sequence rank took wrong blocks

mstart == <<mclock, muid, mfile>>
mvars  == <<mcfg, mpc, mstart, mbatch, mph, mqueue, mdone, mtab, mkv, mstore, mfails, mlost, moff>>

MB     == mcfg.bs
MReqs  == DOMAIN mcfg.prompt
\* A worker is a rank of the attention data parallel group and of the tensor or sequence group.
MRanks   == 0..mcfg.ranks - 1
MWorkers == (1..mcfg.dp) \X MRanks
MShared  == mcfg.mla /\ ~mcfg.scp
\* parse_mindie_config takes an unset tensor group for the whole world.
MTpSize  == IF mcfg.tp = 1 THEN mcfg.dp * mcfg.ranks ELSE mcfg.tp
MNone    == [pre |-> <<>>, rank |-> 0, whole |-> TRUE]
MNoBatch == [reqs |-> <<>>, local |-> <<>>, remote |-> <<>>]
MTimeout == 3
MOrder(S) == [i \in 1..Cardinality(S) |-> CHOOSE x \in S : Cardinality({y \in S : y < x}) = i - 1]

MindieInit ==
  /\ mcfg \in MindieSetups
  /\ mpc = "start" /\ mclock = 0
  /\ muid = [w \in MWorkers |-> [uid |-> 0, at |-> 0]]
  /\ mfile \in {[uid |-> 0, ts |-> 0]} \union {[uid |-> 1, ts |-> -age] : age \in mcfg.ages}
  /\ mbatch = MNoBatch /\ mph = [w \in MWorkers |-> "idle"] /\ mqueue = [w \in MWorkers |-> <<>>]
  /\ mdone = {} /\ mtab = <<>> /\ mstore = <<>>
  /\ mkv = [w \in MWorkers |-> [b \in 1..mcfg.pool |-> MNone]]
  /\ mfails = mcfg.fails /\ mlost = FALSE /\ moff = FALSE

----------------------------------------------------------------------------
(* Start of the workers. *)

MTick == /\ mpc = "start" /\ mclock < mcfg.skew /\ mclock' = mclock + 1
         /\ UNCHANGED <<mcfg, mpc, muid, mfile, mbatch, mph, mqueue, mdone, mtab, mkv, mstore, mfails, mlost, moff>>

\* get_dual_consensus_uids, under the lock of the file: an id that is missing or too old is
\* replaced, another one is adopted.
MFresh == mfile.uid = 0 \/ mclock - mfile.ts > MTimeout
MConsensus(w) ==
  /\ mpc = "start" /\ muid[w].uid = 0
  /\ mfile' = IF MFresh THEN [uid |-> 2 + mclock, ts |-> mclock] ELSE mfile
  /\ muid' = [muid EXCEPT ![w] = [uid |-> mfile'.uid, at |-> mclock]]
  /\ mpc' = IF \A v \in MWorkers : muid'[v].uid # 0 THEN "serve" ELSE "start"
  /\ UNCHANGED <<mcfg, mclock, mbatch, mph, mqueue, mdone, mtab, mkv, mstore, mfails, mlost, moff>>

----------------------------------------------------------------------------
(* Keys and lookup. *)

\* The hash of a block stands for the tokens up to its end; the last token is never stored.
MFull(r)      == (Len(mcfg.prompt[r]) - 1) \div MB
MHashes(toks, n) == [b \in 1..n |-> SubSeq(toks, 1, b * MB)]
\* get_prefix_keys, and the key of rank 0 where all ranks hold the same keys.
MKey(hash, rank) == <<hash, IF MShared THEN 0 ELSE rank>>

\* batch_exist: the keys of a block for every rank, or, in a sequence group, of its own rank.
MRankOf(b) == (b - 1) % mcfg.ranks
MKeysOf(r) ==
  LET hashes == MHashes(mcfg.prompt[r], MFull(r))
  IN  IF mcfg.scp THEN [b \in DOMAIN hashes |-> MKey(hashes[b], MRankOf(b))]
      ELSE [k \in 1..Len(hashes) * mcfg.ranks |->
              MKey(hashes[((k - 1) \div mcfg.ranks) + 1], (k - 1) % mcfg.ranks)]
MPrefixLen(keys) == CHOOSE n \in 0..Len(keys) :
  (\A i \in 1..n : keys[i] \in DOMAIN mstore) /\ (n < Len(keys) => keys[n + 1] \notin DOMAIN mstore)
\* Of shared keys only those of rank 0 are asked for; the answer is repeated for every rank.
MBatchExist(r) ==
  LET keys == MKeysOf(r)
      some == [b \in 1..(Len(keys) \div MTpSize) |-> keys[(b - 1) * MTpSize + 1]]
  IN  CASE mcfg.bypassExists -> [k \in DOMAIN keys |-> FALSE]
        [] MShared /\ Len(keys) % MTpSize # 0 -> [k \in DOMAIN keys |-> FALSE]
        [] MShared /\ Len(keys) % MTpSize = 0 -> [k \in DOMAIN keys |-> ((k - 1) \div MTpSize) + 1 <= MPrefixLen(some)]
        [] OTHER -> [k \in DOMAIN keys |-> k <= MPrefixLen(keys)]
\* The engine counts a block that every rank has.
MRemote(r) ==
  LET found == MBatchExist(r)
      per   == IF mcfg.scp THEN 1 ELSE mcfg.ranks
      has(b) == \A i \in 1..per : found[(b - 1) * per + i]
  IN  CHOOSE n \in 0..MFull(r) : (\A b \in 1..n : has(b)) /\ (n < MFull(r) => ~has(n + 1))

----------------------------------------------------------------------------
(* The engine's batches. *)

\* Blocks a served request left in the cache of the same data parallel rank.
MLocal(r) ==
  LET common(s) == CHOOSE n \in 0..MFull(r) :
        /\ n <= MFull(s) /\ SubSeq(mcfg.prompt[r], 1, n * MB) = SubSeq(mcfg.prompt[s], 1, n * MB)
        /\ \A k \in n + 1..Min({MFull(r), MFull(s)}) :
             SubSeq(mcfg.prompt[r], 1, k * MB) # SubSeq(mcfg.prompt[s], 1, k * MB)
      from == {s \in mdone : mcfg.dpOf[s] = mcfg.dpOf[r]}
      best == CHOOSE s \in from : \A t \in from : common(t) <= common(s)
  IN  IF ~mcfg.apc \/ from = {} THEN [n |-> 0, of |-> 0] ELSE [n |-> common(best), of |-> best]

\* Block of the cache for a block of the request: by its number, or, in a sequence group, by
\* its number among the blocks of the rank.
MIndex(b) == IF mcfg.scp THEN ((b - 1) \div mcfg.ranks) + 1 ELSE b
MNeeded(r) == LET n == (Len(mcfg.prompt[r]) + MB - 1) \div MB IN MIndex(n)
MTableFor(r, used, hit) ==
  LET free == MOrder(1..mcfg.pool \ used)
      kept == IF hit.n = 0 THEN <<>> ELSE SubSeq(mtab[hit.of], 1, IF mcfg.scp THEN hit.n \div mcfg.ranks ELSE hit.n)
  IN  kept \o SubSeq(free, 1, MNeeded(r) - Len(kept))

\* Up to two requests are scheduled, in order of arrival.
MSchedule ==
  /\ mpc = "serve" /\ mbatch = MNoBatch /\ \A w \in MWorkers : mqueue[w] = <<>>
  /\ \E n \in 1..2 :
       LET todo == MOrder(MReqs \ mdone)
           reqs == SubSeq(todo, 1, n)
           used == UNION {ToSet(mtab[r]) : r \in DOMAIN mtab}
           first == MTableFor(reqs[1], used, MLocal(reqs[1]))
           tab  == IF n = 1 THEN (reqs[1] :> first)
                   ELSE (reqs[1] :> first) @@ (reqs[2] :> MTableFor(reqs[2], used \union ToSet(first), MLocal(reqs[2])))
       IN  /\ n <= Len(todo)
           /\ mtab' = tab @@ mtab
           /\ mbatch' = [reqs |-> reqs, local |-> [r \in ToSet(reqs) |-> MLocal(r).n],
                         remote |-> [r \in ToSet(reqs) |-> MRemote(r)]]
  /\ mph' = [w \in MWorkers |-> "get"]
  /\ UNCHANGED <<mcfg, mpc, mstart, mqueue, mdone, mkv, mstore, mfails, mlost, moff>>

----------------------------------------------------------------------------
(* The worker's plugin and its mempool. *)

MMine(w, i)  == mcfg.dpOf[mbatch.reqs[i]] = w[1]
MInputIds    == FoldLeft(LAMBDA acc, r : acc \o mcfg.prompt[r], <<>>, mbatch.reqs)
\* Mutant of MOffset: only the requests of the own group move the offset.
MOffsetMine(w, i) == FoldLeft(LAMBDA n, j : IF MMine(w, j) THEN n + Len(mcfg.prompt[mbatch.reqs[j]]) ELSE n,
                              0, [j \in 1..i - 1 |-> j])
\* batch_input_ids_offset: every request before i moves it, whoever serves that.
MOffset(w, i) == FoldLeft(LAMBDA n, j : n + Len(mcfg.prompt[mbatch.reqs[j]]), 0, [j \in 1..i - 1 |-> j])

\* Blocks from..to of request i that are w's, as pairs of key and block of the cache.  A
\* sequence rank starts with the first block that is its own, and counts its blocks from 0.
MMoved(w, toks, r, from, to) ==
  LET hashes == MHashes(toks, to)
      first  == from + ((w[2] - (from % mcfg.ranks)) % mcfg.ranks)
      own    == MOrder({b \in first + 1..to : (b - first - 1) % mcfg.ranks = 0})
  IN  IF mcfg.scp THEN [k \in DOMAIN own |-> <<MKey(hashes[own[k]], w[2]), mtab[r][k]>>]
      ELSE [k \in 1..to - from |-> <<MKey(hashes[from + k], w[2]), mtab[r][from + k]>>]

\* get_prefix_kvcache_from_mempool: what the store has beyond the local hit.
MGets(w) ==
  LET of(i) ==
        LET r == mbatch.reqs[i]
            to == Min({mbatch.remote[r], MFull(r)})
            toks == SubSeq(MInputIds, MOffset(w, i) + 1, MOffset(w, i) + to * MB)
        IN  IF ~MMine(w, i) \/ mbatch.remote[r] <= mbatch.local[r] \/ mbatch.local[r] >= MFull(r) THEN <<>>
            ELSE MMoved(w, toks, r, mbatch.local[r], to)
  IN  FoldLeft(LAMBDA acc, i : acc \o of(i), <<>>, [i \in DOMAIN mbatch.reqs |-> i])

\* put_prefix_kvcache_to_mempool: what was not found in the store.
MPuts(w, batch) ==
  LET of(i) ==
        LET r == batch.reqs[i]
        IN  IF mcfg.dpOf[r] # w[1] \/ MFull(r) <= 0 \/ batch.remote[r] >= MFull(r) THEN <<>>
            ELSE MMoved(w, mcfg.prompt[r], r, batch.remote[r], MFull(r))
  IN  FoldLeft(LAMBDA acc, i : acc \o of(i), <<>>, [i \in DOMAIN batch.reqs |-> i])

\* get_io_size_info lists all keys and then all values; _get_tensors_for_store lists the key
\* and value of one layer after the other.
MSizes     == [i \in 1..2 * mcfg.layers |-> IF i <= mcfg.layers THEN mcfg.kSize ELSE mcfg.vSize]
MTensors   == [i \in 1..2 * mcfg.layers |-> IF i % 2 = 1 THEN mcfg.kSize ELSE mcfg.vSize]
MWhole     == MSizes = MTensors

\* put keeps, of shared keys, every ranks-th for each rank, from its own number on.
MShare(w, moves) ==
  IF ~MShared THEN moves
  ELSE LET mine == MOrder({k \in DOMAIN moves : (k - 1) % MTpSize = w[2]}) IN [k \in DOMAIN mine |-> moves[mine[k]]]

MWritten(w, moves) ==
  [b \in 1..mcfg.pool |->
     IF \E k \in DOMAIN moves : moves[k][2] = b /\ moves[k][1] \in DOMAIN mstore
     THEN LET k == CHOOSE k \in DOMAIN moves : moves[k][2] = b /\ moves[k][1] \in DOMAIN mstore
          IN  [mstore[moves[k][1]] EXCEPT !.whole = @ /\ MWhole]
     ELSE mkv[w][b]]

\* Requests of w whose transfers in a sequence group do not start at block 0: a rank counts
\* its blocks from 0 whatever was found.
MMiss(w, batch, found) == mcfg.scp /\ \E r \in ToSet(batch.reqs) : mcfg.dpOf[r] = w[1] /\ found[r] > 0

\* model_inputs_update: the answer of get is not looked at.
MGet(w) ==
  /\ mph[w] = "get"
  /\ LET moves == IF mcfg.bypassGet THEN <<>> ELSE MGets(w)
     IN  \/ /\ mkv' = [mkv EXCEPT ![w] = MWritten(w, moves)]
            /\ moff' = (moff \/ (moves # <<>> /\ MMiss(w, mbatch, mbatch.local)))
            /\ UNCHANGED mfails
         \/ /\ moves # <<>> /\ mfails > 0 /\ mfails' = mfails - 1
            /\ moff' = TRUE
            /\ UNCHANGED mkv
  /\ mph' = [mph EXCEPT ![w] = "forward"]
  /\ UNCHANGED <<mcfg, mpc, mstart, mbatch, mqueue, mdone, mtab, mstore, mlost>>

\* The forward pass computes what was found nowhere.
MComputed(w) ==
  [b \in 1..mcfg.pool |->
     LET at == {p \in ToSet(mbatch.reqs) \X (1..mcfg.longest) :
                  /\ mcfg.dpOf[p[1]] = w[1] /\ p[2] <= MFull(p[1]) /\ (mcfg.scp => MRankOf(p[2]) = w[2])
                  /\ p[2] > mbatch.local[p[1]] /\ p[2] > mbatch.remote[p[1]]
                  /\ mtab[p[1]][MIndex(p[2])] = b}
     IN  IF at = {} THEN mkv[w][b]
         ELSE LET p == CHOOSE p \in at : TRUE
              IN  [pre |-> SubSeq(mcfg.prompt[p[1]], 1, p[2] * MB),
                   rank |-> IF mcfg.mla \/ mcfg.scp THEN 0 ELSE w[2], whole |-> TRUE]]
MForward(w) ==
  /\ mph[w] = "forward"
  /\ mkv' = [mkv EXCEPT ![w] = MComputed(w)]
  /\ mph' = [mph EXCEPT ![w] = "put"]
  /\ UNCHANGED <<mcfg, mpc, mstart, mbatch, mqueue, mdone, mtab, mstore, mfails, mlost, moff>>

\* Dump of a batch.  A dump that fails stores nothing of the share.
MDump(w, batch) ==
  LET moves == IF mcfg.bypassPut THEN <<>> ELSE MShare(w, MPuts(w, batch))
      keys  == {moves[k][1] : k \in DOMAIN moves}
      block(key) == moves[CHOOSE k \in DOMAIN moves : moves[k][1] = key][2]
  IN  \/ /\ mstore' = [key \in keys |-> [mkv[w][block(key)] EXCEPT !.whole = @ /\ MWhole]] @@ mstore
         /\ moff' = (moff \/ (moves # <<>> /\ MMiss(w, batch, batch.remote)))
         /\ UNCHANGED <<mfails, mlost>>
      \/ /\ moves # <<>> /\ mfails > 0 /\ mfails' = mfails - 1
         /\ mlost' = TRUE
         /\ UNCHANGED <<mstore, moff>>
MPut(w) ==
  /\ mph[w] = "put"
  /\ IF mcfg.async
     THEN /\ mqueue' = [mqueue EXCEPT ![w] = Append(@, mbatch)]
          /\ UNCHANGED <<mstore, mfails, mlost, moff>>
     ELSE MDump(w, mbatch) /\ UNCHANGED mqueue
  /\ mph' = [mph EXCEPT ![w] = "idle"]
  /\ UNCHANGED <<mcfg, mpc, mstart, mbatch, mdone, mtab, mkv>>

\* _put_prefix_kvcache_thread: once the layers of the batch were computed.
MThread(w) ==
  /\ mqueue[w] # <<>> /\ mph[w] = "idle"
  /\ MDump(w, Head(mqueue[w]))
  /\ mqueue' = [mqueue EXCEPT ![w] = Tail(@)]
  /\ UNCHANGED <<mcfg, mpc, mstart, mbatch, mph, mdone, mtab, mkv>>

MFinish ==
  /\ mbatch # MNoBatch /\ \A w \in MWorkers : mph[w] = "idle"
  /\ mdone' = mdone \union ToSet(mbatch.reqs) /\ mbatch' = MNoBatch
  /\ UNCHANGED <<mcfg, mpc, mstart, mph, mqueue, mtab, mkv, mstore, mfails, mlost, moff>>

MRest == mdone = MReqs /\ (\A w \in MWorkers : mqueue[w] = <<>>) /\ mpc = "serve" /\ UNCHANGED mvars

MindieNext == \/ MTick \/ MSchedule \/ MFinish \/ MRest
              \/ \E w \in MWorkers : MConsensus(w)
              \/ \E w \in MWorkers : MGet(w)
              \/ \E w \in MWorkers : MForward(w)
              \/ \E w \in MWorkers : MPut(w)
              \/ \E w \in MWorkers : MThread(w)
MindieSpec == MindieInit /\ [][MindieNext]_mvars

----------------------------------------------------------------------------
(* Unless a load failed, a worker that computed a batch holds in every     *)
(* full block of its requests the keys of that request, whole, wherever    *)
(* they came from; what the store holds under a key is what its hash and   *)
(* rank say; and once a batch is stored without a failure, a lookup of any *)
(* of its requests finds all of it, on every rank.                         *)
MindieRight ==
  mpc = "serve" /\ ~moff =>
    /\ \A w \in MWorkers : mph[w] = "put" =>
         \A r \in ToSet(mbatch.reqs) : mcfg.dpOf[r] = w[1] =>
           \A b \in 1..MFull(r) : (mcfg.scp => MRankOf(b) = w[2]) =>
             mkv[w][mtab[r][MIndex(b)]] = [pre |-> SubSeq(mcfg.prompt[r], 1, b * MB), whole |-> TRUE,
                                           rank |-> IF mcfg.mla \/ mcfg.scp THEN 0 ELSE w[2]]
    /\ \A key \in DOMAIN mstore : mstore[key].pre = key[1] /\ mstore[key].whole
    /\ ~mlost /\ ~mcfg.bypassExists /\ ~mcfg.bypassPut /\ (\A w \in MWorkers : mqueue[w] = <<>>) => \A r \in mdone : MRemote(r) = MFull(r)
=============================================================================
