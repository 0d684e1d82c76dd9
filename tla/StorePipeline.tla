---------------------------- MODULE StorePipeline ----------------------------
(***************************************************************************)
(* The store stacks of UcmPipelineStore: the builder registered for a      *)
(* pipeline's name stacks native layers from the bottom up, each with the  *)
(* configuration the builder derives for it, and a block moves through     *)
(* them shard by shard.  Sizes are in bytes; the layers are native.        *)
(***************************************************************************)
EXTENDS Integers, Sequences

CONSTANT PipelineSetups

\* Sizes are positive.  A block is a number of shards (the compressing builder checks that itself),
\* and a compressed shard has at least a page.
PipelineSetup(c) ==
  /\ c.device \in Int /\ c.tensor \in Nat /\ c.shard \in Nat \ {0} /\ c.block \in Nat /\ c.ratio \in Nat
  /\ c.name # "Cache|Compress|Posix" => c.block % c.shard = 0
  /\ c.name = "Cache|Compress|Posix" => (c.shard * c.ratio) \div 32 >= 4096
ASSUME PipelineAssumption == \A c \in PipelineSetups : PipelineSetup(c)

VARIABLES
  zcfg,    \* the configuration given to the store
  zpc,     \* "new", "build", "ready", "raised" or "off"
  zstack   \* layers stacked so far, bottom first: name and sizes

zvars == <<zcfg, zpc, zstack>>

ZSizes == [tensor |-> zcfg.tensor, shard |-> zcfg.shard, block |-> zcfg.block]
ZWorker == zcfg.device >= 0

\* The layers of a registered pipeline, bottom first.
ZCompressing == "Cache|Compress|Posix"
ZRegistry ==
  [name \in {"Cache|Ds3fs", "Cache|Empty", "Cache|Posix", "Cache|Fake", ZCompressing, "Mooncake|Posix", "Mooncake",
             "Posix", "Empty", "Fake"} |->
     CASE name = "Cache|Ds3fs" -> <<"Ds3fs", "Cache">>
       [] name = "Cache|Empty" -> <<"Empty", "Cache">>
       [] name = "Cache|Posix" -> <<"Posix", "Cache">>
       [] name = "Cache|Fake" -> <<"Fake", "Cache">>
       [] name = ZCompressing -> <<"Posix", "Compress", "Cache">>
       [] name = "Mooncake|Posix" -> <<"Posix", "Mooncake">>
       [] OTHER -> <<name>>]

\* A layer below a cache gets one buffer per shard.
ZUnderCache == IF ZWorker THEN [ZSizes EXCEPT !.tensor = zcfg.shard] ELSE ZSizes
ZPage == 4096
\* Mutant of ZShrunk: the block keeps its size.
ZShrunkKeepsBlock == LET s == (((zcfg.shard * zcfg.ratio) \div 32) \div ZPage) * ZPage
                     IN [tensor |-> s, shard |-> zcfg.shard, block |-> zcfg.block]
\* Below the compressor a shard shrinks by the ratio, down to a multiple of the page size.
ZShrunk == LET s == (((zcfg.shard * zcfg.ratio) \div 32) \div ZPage) * ZPage
           IN [tensor |-> s, shard |-> s, block |-> s * (zcfg.block \div zcfg.shard)]
ZUnderCompressor == IF ZWorker THEN ZShrunk ELSE ZSizes

ZLayerSizes(name, layer) ==
  CASE layer \in {"Ds3fs", "Posix"} /\ name \in {"Cache|Ds3fs", "Cache|Posix", "Mooncake|Posix"} -> ZUnderCache
    [] layer = "Posix" /\ name = ZCompressing -> ZUnderCompressor
    [] OTHER -> ZSizes

PipelineInit == zcfg \in PipelineSetups /\ zpc = "new" /\ zstack = <<>>

\* __init__: an unknown pipeline is refused.  The compressing builder gives up without an error
\* when a block is not a number of shards.
ZRefused == zcfg.name = ZCompressing /\ ZWorker /\ zcfg.block % zcfg.shard # 0
ZNew == /\ zpc = "new"
        /\ zpc' = IF zcfg.name \notin DOMAIN ZRegistry THEN "raised" ELSE IF ZRefused THEN "ready" ELSE "build"
        /\ UNCHANGED <<zcfg, zstack>>
ZStack == /\ zpc = "build" /\ Len(zstack) < Len(ZRegistry[zcfg.name])
          /\ LET layer == ZRegistry[zcfg.name][Len(zstack) + 1]
             IN zstack' = Append(zstack, [layer |-> layer, sizes |-> ZLayerSizes(zcfg.name, layer)])
          /\ zpc' = IF Len(zstack') = Len(ZRegistry[zcfg.name]) THEN "ready" ELSE "build"
          /\ UNCHANGED zcfg
PipelineNext ==
  \/ ZNew
  \/ ZStack
  \/ zpc \in {"ready", "raised"} /\ UNCHANGED zvars

PipelineSpec == PipelineInit /\ [][PipelineNext]_zvars

----------------------------------------------------------------------------
(* Native layers: what a layer hands to the one below for a shard. *)
ZHandsDown(i) == IF zstack[i].layer = "Compress" THEN (zcfg.shard * zcfg.ratio) \div 32 ELSE zcfg.shard

(* On a worker every layer moves exactly what the one above hands it for   *)
(* a shard, in one piece, and has room for as many shards per block as the *)
(* one above, so a block comes back whole.  For the compressing pipeline   *)
(* this needs shards that shrink to whole pages.                           *)
PipelineRight ==
  zpc = "ready" /\ ZWorker /\ ((zcfg.shard * zcfg.ratio) \div 32) % ZPage = 0 =>
    \A i \in 2..Len(zstack) :
      LET lower == zstack[i - 1].sizes IN
      zstack[i - 1].layer \in {"Posix", "Ds3fs"} =>
        /\ lower.tensor = ZHandsDown(i) /\ lower.shard = lower.tensor
        /\ lower.block \div lower.shard = zcfg.block \div zcfg.shard /\ lower.block % lower.shard = 0
=============================================================================
