---------------------------- MODULE MCShardVault ----------------------------
(* A small instance of ShardVault for TLC.                                 *)
EXTENDS ShardVault, TLC

CONSTANTS a, b, v1, v2, u1, u2

(* Two shards at first; a moves to the third, b stays when the second one  *)
(* is split and the level ends.                                            *)
MCHash == a :> 2 @@ b :> 1

MCTransactions == {a :> v1 @@ b :> v1, a :> None}

(* Two files hold a record of one key.                                     *)
MCRoots == {<<a, v1>>, <<a, v2>>}

Symmetry == Permutations(Updates)
=============================================================================
