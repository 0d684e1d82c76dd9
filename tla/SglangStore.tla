----------------------------- MODULE SglangStore -----------------------------
(***************************************************************************)
(* The SGLang integration: UnifiedCacheStore, the storage backend of the   *)
(* hierarchical cache of every tensor-parallel rank, on SglangUcmConnector *)
(* and one of the two version 1 stores (UcmPipelineStore, UcmPcStoreV1).   *)
(*                                                                         *)
(* A page of host memory is one piece (MLA) or two (keys and values), and  *)
(* a piece holds what the rank computed for the page's key.  The radix     *)
(* tree and the controller of SGLang, which runs one operation at a time   *)
(* and takes the least answer of all ranks, and the native stores are      *)
(* external.                                                               *)
(***************************************************************************)
EXTENDS Integers, Sequences, FiniteSets, SequencesExt, FiniteSetsExt, TLC

CONSTANT SglangSetups

\* There is a rank, keys and values have halves of a page, and a prefix has different keys (each
\* stands for all tokens up to its page) and fits into the pool.
SglangSetup(c) ==
  /\ c.ranks \in Nat \ {0} /\ c.pool \in Nat /\ c.mla \in BOOLEAN
  /\ c.pageBytes \in Nat /\ (c.mla \/ c.pageBytes % 2 = 0)
  /\ \A s \in c.prefixes : /\ s \in Seq(Range(s)) /\ Len(s) <= c.pool
                           /\ \A i, j \in DOMAIN s : s[i] = s[j] => i = j
ASSUME SglangAssumption == \A c \in SglangSetups : SglangSetup(c)

VARIABLES
  ycfg,    \* the setup, fixed
  ypc,     \* "run" or "off"
  yconn,   \* rank -> whether register_mem_pool_host has made its connector
  ypool,   \* rank -> page -> pieces
  ytree,   \* key -> page of host memory, for all ranks alike
  yop,     \* operation under way: its kind, keys and pages
  yans,    \* rank -> its answer to the operation, -1 while it has none
  ynative, \* stored block -> pieces
  yback,   \* keys whose backup has ended
  yops,    \* operations left
  yfaults, \* faults left
  ylost    \* a fault has struck

yvars == <<ycfg, ypc, yconn, ypool, ytree, yop, yans, ynative, yback, yops, yfaults, ylost>>

YRanks    == 0..ycfg.ranks - 1
YIdle     == [kind |-> "none", keys |-> <<>>, pages |-> <<>>]
YGarbage  == <<"garbage">>
\* What a rank computes for a page.
YPieces(r, k) == IF ycfg.mla THEN <<<<k, "kv">>>> ELSE <<<<k, "k", r>>, <<k, "v", r>>>>
YNoPage   == IF ycfg.mla THEN <<YGarbage>> ELSE <<YGarbage, YGarbage>>
YFree     == (1..ycfg.pool) \ Range(ytree)
YTake(n)  == CHOOSE s \in [1..n -> YFree] : \A i, j \in 1..n : i < j => s[i] < s[j]

SglangInit ==
  /\ ycfg \in SglangSetups /\ ypc = "run"
  /\ yconn = [r \in YRanks |-> FALSE]
  /\ ypool = [r \in YRanks |-> [p \in 1..ycfg.pool |-> YNoPage]]
  /\ ytree = <<>> /\ yop = YIdle /\ yans = [r \in YRanks |-> -1]
  /\ ynative = <<>> /\ yback = {} /\ yops = ycfg.ops /\ yfaults = ycfg.faults /\ ylost = FALSE

\* register_mem_pool_host: another layout is refused; a second pool replaces the first.
YRegister(r) ==
  /\ ~yconn[r] /\ ycfg.layout = "page_first" /\ yconn' = [yconn EXCEPT ![r] = TRUE]
  /\ UNCHANGED <<ycfg, ypc, ypool, ytree, yop, yans, ynative, yback, yops, yfaults, ylost>>

----------------------------------------------------------------------------
(* Keys, addresses and sizes. *)

\* Mutant of YSuffix: all ranks write the same keys.
YSuffixModel(r) == <<ycfg.model>>
\* The latent cache is the same on all ranks, a share of the heads is not.
YSuffix(r) == IF ycfg.mla THEN <<ycfg.model>> ELSE <<ycfg.model, r, ycfg.ranks>>
YPhysical(r, keys) == [i \in DOMAIN keys |-> <<keys[i], YSuffix(r)>>]

\* load_from_config: a tensor of the store is a piece of a page, a block all of them.
YPageBytes  == ycfg.pageBytes
YTensorSize == IF ycfg.mla THEN YPageBytes ELSE YPageBytes \div 2
YBlockSize  == YTensorSize * (IF ycfg.mla THEN 1 ELSE 2)

\* get_page_buffer_meta gives the addresses piece by piece; _generate_task puts them in rows.
YPerPage == IF ycfg.mla THEN 1 ELSE 2
YRow(n)  == (n + YPerPage - 1) \div YPerPage
YItem(n) == 1 + ((n - 1) % YPerPage)
YPointers(pages) == [n \in 1..Len(pages) * YPerPage |-> <<pages[YRow(n)], YItem(n)>>]
YRows(pages) == [i \in DOMAIN pages |-> [j \in 1..YPerPage |-> YPointers(pages)[(i - 1) * YPerPage + j]]]

\* UcmPipelineStore passes the rows on; UcmPcStoreV1 flattens them, and the native store puts
\* the addresses of one block together again, in their order.
YFlat(ids, rows) == [n \in 1..Len(ids) * YPerPage |-> <<ids[YRow(n)], rows[YRow(n)][YItem(n)]>>]
YNth(S, j) == CHOOSE n \in S : Cardinality({m \in S : m <= n}) = j
YGrouped(ids, rows) ==
  [i \in DOMAIN ids |-> LET mine == {n \in DOMAIN YFlat(ids, rows) : YFlat(ids, rows)[n][1] = ids[i]}
                        IN [j \in 1..Cardinality(mine) |-> YFlat(ids, rows)[YNth(mine, j)][2]]]
YTransfer(ids, rows) == IF ycfg.store = "pc" THEN YGrouped(ids, rows) ELSE rows

\* The native store moves YTensorSize bytes per address, the pieces of a block side by side.
YWhole(x) == IF YTensorSize * YPerPage = YPageBytes /\ YBlockSize = YPageBytes THEN x ELSE YGarbage
YSaved(r, row)     == [j \in DOMAIN row |-> YWhole(ypool[r][row[j][1]][row[j][2]])]
YAfterDump(r, ids, rows, done) ==
  [b \in DOMAIN ynative \union done |->
     IF b \in done THEN YSaved(r, rows[CHOOSE i \in DOMAIN ids : ids[i] = b]) ELSE ynative[b]]
YAfterLoad(pool, ids, rows, done) ==
  [p \in DOMAIN pool |-> [j \in 1..YPerPage |->
     LET at == {e \in (DOMAIN ids) \X (1..YPerPage) : e[1] \in done /\ rows[e[1]][e[2]] = <<p, j>>} IN
     IF at = {} THEN pool[p][j] ELSE LET e == CHOOSE e \in at : TRUE IN YWhole(ynative[ids[e[1]]][e[2]])]]

----------------------------------------------------------------------------
(* Operations.  SGLang starts one, every rank answers, SGLang ends it. *)

YKeys == UNION {Range(s) : s \in ycfg.prefixes}
\* The pages of a request are computed by all ranks.
YCompute(s) ==
  /\ yop.kind = "none" /\ yops > 0 /\ s \in ycfg.prefixes /\ ytree = <<>> /\ \A r \in YRanks : yconn[r]
  /\ ytree' = [k \in Range(s) |-> YTake(Len(s))[CHOOSE i \in DOMAIN s : s[i] = k]]
  /\ ypool' = [r \in YRanks |-> [p \in 1..ycfg.pool |->
                 IF \E k \in Range(s) : ytree'[k] = p THEN YPieces(r, CHOOSE k \in Range(s) : ytree'[k] = p)
                                                      ELSE ypool[r][p]]]
  /\ yops' = yops - 1
  /\ UNCHANGED <<ycfg, ypc, yconn, yop, yans, ynative, yback, yfaults, ylost>>
YDrop ==
  /\ yop.kind = "none" /\ ytree # <<>> /\ ytree' = <<>>
  /\ UNCHANGED <<ycfg, ypc, yconn, ypool, yop, yans, ynative, yback, yops, yfaults, ylost>>

YStart(kind, s) ==
  /\ yop.kind = "none" /\ yops > 0 /\ s \in ycfg.prefixes /\ \A r \in YRanks : yconn[r]
  /\ IF kind = "set" THEN Range(s) \subseteq DOMAIN ytree ELSE ytree = <<>>
  /\ yop' = [kind |-> kind, keys |-> s, pages |-> IF kind = "set" THEN [i \in DOMAIN s |-> ytree[s[i]]] ELSE <<>>]
  /\ yops' = yops - 1
  /\ UNCHANGED <<ycfg, ypc, yconn, ypool, ytree, yans, ynative, yback, yfaults, ylost>>

YAnswer(r, n) == yans' = [yans EXCEPT ![r] = n]
YAsked(r, kind) == yop.kind = kind /\ yans[r] = -1

\* batch_set_v1; only rank 0 backs up a latent cache.  A failure leaves any of the blocks stored.
YBatchSet(r) ==
  LET ids == YPhysical(r, yop.keys)  rows == YTransfer(ids, YRows(yop.pages)) IN
  /\ YAsked(r, "set")
  /\ \/ ycfg.mla /\ r # 0 /\ YAnswer(r, Len(ids)) /\ UNCHANGED <<ynative, yfaults, ylost>>
     \/ /\ ~(ycfg.mla /\ r # 0) /\ YAnswer(r, Len(ids))
        /\ ynative' = YAfterDump(r, ids, rows, Range(ids))
        /\ UNCHANGED <<yfaults, ylost>>
     \/ /\ ~(ycfg.mla /\ r # 0) /\ yfaults > 0 /\ yfaults' = yfaults - 1 /\ ylost' = TRUE /\ YAnswer(r, 0)
        /\ \E done \in SUBSET Range(ids) : ynative' = YAfterDump(r, ids, rows, done)
  /\ UNCHANGED <<ycfg, ypc, yconn, ypool, ytree, yop, yback, yops>>

\* batch_exists: the length of the stored prefix; the other ranks of MLA leave it to rank 0.
YSkips(r) == ycfg.mla /\ r # 0
YOnPrefix(ids) == Max({n \in 0..Len(ids) : \A i \in 1..n : ids[i] \in DOMAIN ynative})
YBatchExists(r) ==
  /\ YAsked(r, "exists")
  /\ YAnswer(r, IF YSkips(r) THEN Len(yop.keys) ELSE YOnPrefix(YPhysical(r, yop.keys)))
  /\ UNCHANGED <<ycfg, ypc, yconn, ypool, ytree, yop, ynative, yback, yops, yfaults, ylost>>

\* batch_get_v1: all or nothing; a load that fails may have written any of the pages.
YGot(ok, n) == IF ok THEN n ELSE 0
YBatchGet(r) ==
  LET ids == YPhysical(r, yop.keys)  rows == YTransfer(ids, YRows(yop.pages))
      here == {i \in DOMAIN ids : ids[i] \in DOMAIN ynative} IN
  /\ YAsked(r, "get")
  /\ \/ /\ here = DOMAIN ids /\ YAnswer(r, YGot(TRUE, Len(ids)))
        /\ ypool' = [ypool EXCEPT ![r] = YAfterLoad(@, ids, rows, here)] /\ UNCHANGED <<yfaults, ylost>>
     \/ /\ here # DOMAIN ids \/ yfaults > 0
        /\ IF here = DOMAIN ids THEN yfaults' = yfaults - 1 /\ ylost' = TRUE ELSE UNCHANGED <<yfaults, ylost>>
        /\ \E done \in SUBSET here : ypool' = [ypool EXCEPT ![r] = YAfterLoad(@, ids, rows, done)]
        /\ YAnswer(r, YGot(FALSE, Len(ids)))
  /\ UNCHANGED <<ycfg, ypc, yconn, ytree, yop, ynative, yback, yops>>

\* The least answer counts: pages that all ranks have found are fetched, pages that all ranks
\* have fetched enter the tree.
YAgreed == Min(Range(yans))
YEnd ==
  /\ yop.kind # "none" /\ \A r \in YRanks : yans[r] # -1
  /\ yans' = [r \in YRanks |-> -1]
  /\ \/ yop.kind = "set" /\ yop' = YIdle /\ yback' = yback \union Range(yop.keys) /\ UNCHANGED ytree
     \/ /\ yop.kind = "exists"
        /\ yop' = IF YAgreed = 0 THEN YIdle
                  ELSE [kind |-> "get", keys |-> SubSeq(yop.keys, 1, YAgreed), pages |-> YTake(YAgreed)]
        /\ UNCHANGED <<yback, ytree>>
     \/ /\ yop.kind = "get"
        /\ ytree' = [k \in Range(SubSeq(yop.keys, 1, YAgreed)) |-> yop.pages[CHOOSE i \in DOMAIN yop.keys : yop.keys[i] = k]]
        /\ yop' = YIdle /\ UNCHANGED yback
  /\ UNCHANGED <<ycfg, ypc, yconn, ypool, ynative, yops, yfaults, ylost>>

\* The store drops a block.
YEvict(b) ==
  /\ b \in DOMAIN ynative /\ yfaults > 0 /\ yfaults' = yfaults - 1 /\ ylost' = TRUE
  /\ ynative' = [c \in DOMAIN ynative \ {b} |-> ynative[c]]
  /\ UNCHANGED <<ycfg, ypc, yconn, ypool, ytree, yop, yans, yback, yops>>

SglangNext ==
  \/ \E r \in YRanks : YRegister(r)
  \/ \E s \in ycfg.prefixes : YCompute(s)
  \/ YDrop
  \/ \E kind \in {"set", "exists"}, s \in ycfg.prefixes : YStart(kind, s)
  \/ \E r \in YRanks : YBatchSet(r)
  \/ \E r \in YRanks : YBatchExists(r)
  \/ \E r \in YRanks : YBatchGet(r)
  \/ YEnd
  \/ \E b \in DOMAIN ynative : YEvict(b)
  \/ (yop.kind = "none" /\ (yops = 0 \/ ycfg.layout # "page_first")) /\ UNCHANGED yvars

SglangSpec == SglangInit /\ [][SglangNext]_yvars

----------------------------------------------------------------------------
(* A page in the tree holds, on every rank, what that rank computed for    *)
(* the page's key, whether it was computed or fetched; and what was backed *)
(* up is found and fetched by every rank unless something failed.          *)
SglangRight ==
  ypc # "off" =>
    /\ \A r \in YRanks, k \in DOMAIN ytree : ypool[r][ytree[k]] = YPieces(r, k)
    /\ yop.kind \in {"exists", "get"} /\ ~ylost /\ Range(yop.keys) \subseteq yback =>
         \A r \in YRanks : yans[r] \in {-1, Len(yop.keys)}
=============================================================================
