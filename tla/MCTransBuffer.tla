--------------------------- MODULE MCTransBuffer ---------------------------
(* Small tables for TransBuffer: every key but kb collides in bucket A.     *)
EXTENDS TransBuffer, TLC

CONSTANTS kb, A, B

HashDef == [k \in Keys |-> IF k = kb THEN B ELSE A]
NodesDef == 0 .. NNode - 1
Symmetry == Permutations(Clients) \cup Permutations(Keys \ {kb})
=============================================================================
