-------------------------- MODULE MCServiceInterval --------------------------
(* An instance of ServiceInterval for TLC. *)
EXTENDS ServiceInterval
=============================================================================
