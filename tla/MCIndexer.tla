------------------------------ MODULE MCIndexer ------------------------------
(***************************************************************************)
(* Indexer on small instances.                                             *)
(***************************************************************************)
EXTENDS Indexer, TLC

CONSTANTS amm, vault

OneDeployment  == <<amm>>
TwoDeployments == <<amm, vault>>

Symmetry == Permutations(Workers)
=============================================================================
