-------------------------- MODULE RankConsistency --------------------------
(***************************************************************************)
(* Agreement of tensor-parallel ranks on which blocks the store holds      *)
(* (integration/vllm/rank_consistency.py and UCMWorkerMetadata).           *)
(*                                                                         *)
(* Every rank stores its own part of a block under its own key, but the    *)
(* scheduler looks up the key of rank 0 only.  A worker that does not find *)
(* its part reports the block as missing; the scheduler's tracker keeps it *)
(* out of later lookups until all ranks report that they have dumped it.   *)
(*                                                                         *)
(* A worker's account is a record: what each request dumped and what of    *)
(* that failed, and the events not yet reported to the scheduler.          *)
(***************************************************************************)
EXTENDS Naturals, Sequences, FiniteSets, FiniteSetsExt, SequencesExt

\* RankConsistencyManager.__init__ of a worker, over the requests reqs.
NewAccount(reqs) ==
  [dumped |-> [r \in reqs |-> {}], failed |-> [r \in reqs |-> {}],
   missReqs |-> {}, missBlocks |-> {}, loadFailed |-> {}, succeeded |-> {}]

\* UCMWorkerMetadata.mark_failed of the requests failed, and _mark_load_context_missing of
\* those for which the store answered NotFound: blocks are what they wanted.
LoadFailed(acct, failed, notFound, blocks) ==
  [acct EXCEPT !.loadFailed = @ \union failed,
               !.missReqs = @ \union notFound,
               !.missBlocks = @ \union blocks]

\* submit_dump: the blocks of every request of a task are on its account
\* before the store is asked; ctx maps the task's requests to their blocks.
DumpSubmitted(acct, ctx) ==
  [acct EXCEPT !.dumped = [r \in DOMAIN @ |->
      IF r \in DOMAIN ctx THEN @[r] \union ctx[r] ELSE @[r]]]

\* _record_dump_failure: the store refused a task, or its wait raised.
DumpFailed(acct, ctx) ==
  [acct EXCEPT !.failed = [r \in DOMAIN @ |->
      IF r \in DOMAIN ctx THEN @[r] \union ctx[r] ELSE @[r]]]

\* finish_dump: what a finished request dumped without any failure is queued
\* for the scheduler.
FinishDump(acct, reqs) ==
  [acct EXCEPT !.succeeded =
                  @ \union UNION {acct.dumped[r] \ acct.failed[r] : r \in reqs},
               !.dumped = [r \in DOMAIN @ |-> IF r \in reqs THEN {} ELSE @[r]],
               !.failed = [r \in DOMAIN @ |-> IF r \in reqs THEN {} ELSE @[r]]]

\* update_worker_meta and build_connector_worker_meta: the events leave the
\* account; without the manager only failed loads are reported.
WorkerMeta(acct, enabled) ==
  [loadFailed |-> acct.loadFailed,
   missReqs   |-> IF enabled THEN acct.missReqs ELSE {},
   missBlocks |-> IF enabled THEN acct.missBlocks ELSE {},
   succeeded  |-> IF enabled THEN acct.succeeded ELSE {}]

Reported(acct) ==
  [acct EXCEPT !.loadFailed = {}, !.missReqs = {}, !.missBlocks = {},
               !.succeeded = {}]

\* Mutant of Aggregate: any rank's success counts.
AggregateAny(metas, mla) ==
  [loadFailed |-> UNION {m.loadFailed : m \in metas},
   missReqs   |-> UNION {m.missReqs : m \in metas},
   missBlocks |-> UNION {m.missBlocks : m \in metas},
   succeeded  |-> UNION {m.succeeded : m \in metas}]

\* UCMWorkerMetadata.aggregate over all ranks: one rank that fails or misses is
\* enough; a dump counts when every rank succeeded, or any one for MLA models,
\* where one rank dumps for all.
Aggregate(metas, mla) ==
  LET anywhere == UNION {m.succeeded : m \in metas}
  IN  [loadFailed |-> UNION {m.loadFailed : m \in metas},
       missReqs   |-> UNION {m.missReqs : m \in metas},
       missBlocks |-> UNION {m.missBlocks : m \in metas},
       succeeded  |-> IF mla THEN anywhere
                      ELSE {b \in anywhere : \A m \in metas : b \in m.succeeded}]

\* RankConsistencyTracker.mark_missing with room for limit blocks, as the set of
\* possible results: an arbitrary mark makes room for each new one that does not
\* fit, so of several new marks the last one stays.
MarkMissing(marks, blocks, limit) ==
  LET all  == marks \union blocks
      drop == IF Cardinality(all) > limit THEN Cardinality(all) - limit ELSE 0
  IN  {all \ gone : gone \in {g \in kSubset(drop, all) :
                               blocks \ marks = {} \/ ~(blocks \ marks \subseteq g)}}

\* apply_worker_meta: successes are applied before misses, so a block reported
\* both ways stays marked.
ApplyWorkerMeta(marks, meta, limit) ==
  MarkMissing(marks \ meta.succeeded, meta.missBlocks, limit)

\* RankConsistencyTracker.valid_prefix: the blocks before the first marked one.
ValidPrefix(marks, ids) ==
  IF \E i \in 1..Len(ids) : ids[i] \in marks
  THEN SubSeq(ids, 1, Min({i \in 1..Len(ids) : ids[i] \in marks}) - 1)
  ELSE ids

\* lookup_on_prefix as a number of blocks: the store's prefix of what is valid.
LookupOnPrefix(marks, ids, present) ==
  LET valid == ValidPrefix(marks, ids)
  IN  Max({n \in 0..Len(valid) : \A i \in 1..n : valid[i] \in present})
=============================================================================
