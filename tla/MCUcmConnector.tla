--------------------------- MODULE MCUcmConnector ---------------------------
(***************************************************************************)
(* Small deployments and workloads of the vLLM connector.  A block has two *)
(* tokens; nfaults bounds how many faults of the given kinds happen in one *)
(* behaviour, preempts the preemptions, vblocks the device blocks.         *)
(***************************************************************************)
EXTENDS UcmConnector

Base ==
  [prompt |-> <<4>>, max |-> <<5>>, chain |-> <<<<"a", "b", "c">>>>,
   ranks |-> 2, vblocks |-> 5, layers |-> 1, lw |-> FALSE, mtp |-> FALSE, spec |-> 0,
   mla |-> FALSE, cp |-> 1, hbs |-> 2, apc |-> FALSE, share |-> FALSE, chunks |-> {},
   faults |-> {}, nfaults |-> 1, preempts |-> 0, cm |-> TRUE, recovery |-> "meta",
   threshold |-> 0, limit |-> 3, stored |-> {}]
Two == [prompt |-> <<4, 4>>, max |-> <<5, 4>>,
        chain |-> <<<<"a", "b", "c">>, <<"a", "d", "e">>>>] @@ Base
Keys(ks, ids, ls) == ks \X ids \X ls

\* Rank 1 has lost its part of b; dumps that would repair it may fail.
RankLostBlock ==
  [prompt |-> <<5>>, max |-> <<5>>,
   stored |-> Keys({0, 1}, {"a"}, {0}) \union Keys({0}, {"b"}, {0}),
   faults |-> {"dump", "submit", "abort"}] @@ Base
\* The same, seen by a second request; the tracker has room for one block.
TwoMeetLoss ==
  [chain |-> <<<<"a", "b", "c">>, <<"a", "b", "d">>>>, max |-> <<4, 4>>, limit |-> 1, vblocks |-> 2,
   stored |-> Keys({0, 1}, {"a"}, {0}) \union Keys({0}, {"b"}, {0})] @@ Two
\* A load or a lookup fails while two requests of a step share a block.
SharedLoadFault ==
  [apc |-> TRUE, share |-> TRUE, ranks |-> 1, prompt |-> <<4, 5>>, max |-> <<4, 5>>,
   vblocks |-> 7, chunks |-> {2}, stored |-> Keys({0}, {"a"}, {0}),
   faults |-> {"load", "lookup"}, recovery |-> "pop"] @@ Two
\* Few device blocks: requests are preempted and aborted while their dumps fly.
Preemption ==
  [ranks |-> 1, preempts |-> 2, vblocks |-> 4, chunks |-> {2}, apc |-> TRUE,
   threshold |-> 3, faults |-> {"abort"}] @@ Two
\* Layer by layer, and with a layer of a multi-token predictor.
Layerwise ==
  [lw |-> TRUE, layers |-> 2, max |-> <<4>>, stored |-> Keys({0, 1}, {"a"}, {0, 1}),
   faults |-> {"load"}] @@ Base
Predictor ==
  [lw |-> TRUE, mtp |-> TRUE, layers |-> 2, ranks |-> 1, prompt |-> <<5>>, max |-> <<6>>,
   stored |-> Keys({0}, {"a"}, {0, 1}), faults |-> {"submit", "load"}] @@ Base
\* One rank dumps for all.
SharedKeys ==
  [mla |-> TRUE, cm |-> FALSE, stored |-> Keys({0}, {"a"}, {0}),
   faults |-> {"dump", "load"}] @@ Base
\* Two context-parallel ranks share each engine block.
ContextParallel ==
  [cp |-> 2, hbs |-> 1, cm |-> FALSE, chain |-> <<<<"a", "b", "c", "d", "e", "f">>>>,
   stored |-> Keys({0}, {"a", "b", "c"}, {0}), faults |-> {"submit", "gc", "load"}] @@ Base

\* A preempted request loads what it dumped, and the load fails behind its num_cached_tokens;
\* preempted again, it loads what it has dumped since.
ResumeLoadFault ==
  [ranks |-> 1, preempts |-> 2, chunks |-> {2}, prompt |-> <<6>>, max |-> <<6>>, faults |-> {"load"}] @@ Base
\* The same with a block of an earlier request of the step, after a lookup that failed.
ResumeSharedFault ==
  [ranks |-> 1, preempts |-> 1, vblocks |-> 4, chunks |-> {1}, apc |-> TRUE, share |-> TRUE,
   prompt |-> <<3, 3>>, max |-> <<3, 4>>, chain |-> <<<<"a", "b">>, <<"a", "c">>>>,
   stored |-> Keys({0}, {"a"}, {0}), faults |-> {"load", "lookup"}, nfaults |-> 2, recovery |-> "pop"] @@ Base
\* A step with a failed load dumps a block, which a second request loads.
TaintedHit ==
  [ranks |-> 1, vblocks |-> 4, prompt |-> <<4, 5>>, max |-> <<4, 5>>,
   chain |-> <<<<"a", "b", "c">>, <<"a", "b", "d">>>>, stored |-> Keys({0}, {"a"}, {0}),
   faults |-> {"load"}] @@ Two

ConnectorSetups == {RankLostBlock, TwoMeetLoss, SharedLoadFault, Preemption, Layerwise,
                    Predictor, SharedKeys, ContextParallel, ResumeLoadFault, ResumeSharedFault, TaintedHit}

\* A preempted request finds, when it resumes, all its full blocks in the engine's
\* own cache: another request has computed the same prompt.
ResumeOnLocalHit ==
  {[ranks |-> 1, preempts |-> 1, vblocks |-> 6, chunks |-> {3}, apc |-> TRUE,
    prompt |-> <<5, 5>>, max |-> <<5, 5>>,
    chain |-> <<<<"a", "b", "c">>, <<"a", "b", "c">>>>] @@ Two}
=============================================================================
