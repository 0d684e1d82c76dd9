---------------------------- MODULE TableClients ----------------------------
(* The users of the node table, common to the atomic table and to the       *)
(* lock-level one: shard transfers of any thread of any process.            *)
EXTENDS NodeTable, FiniteSets

CONSTANTS Clients  \* shard transfers, each holding at most one Handle

ASSUME ClientsAssumption == IsFiniteSet(Clients) /\ NoKey \notin Nodes
=============================================================================
