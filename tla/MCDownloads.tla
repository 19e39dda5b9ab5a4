---------------------------- MODULE MCDownloads ----------------------------
(* Instances of Downloads for TLC. *)
EXTENDS Downloads
CONSTANTS a, b, s
Sizes == [i \in Id |-> IF i = b THEN 2 ELSE 1]
=============================================================================
