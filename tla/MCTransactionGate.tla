-------------------------- MODULE MCTransactionGate --------------------------
(* Instances of TransactionGate for TLC. *)
EXTENDS TransactionGate

CONSTANTS v, w, t, u
=============================================================================
