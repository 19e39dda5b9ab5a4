------------------------------ MODULE MCImports ------------------------------
(* Instances for TLC. *)
EXTENDS Imports, TLC

Same == Permutations(Indexer)

MCSource == [f \in File |-> "c"]
MCClassify == [f \in File |-> "t2"]
=============================================================================
