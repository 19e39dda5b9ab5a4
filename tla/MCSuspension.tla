---------------------------- MODULE MCSuspension ----------------------------
(* Instances of Suspension for TLC. *)
EXTENDS Suspension

CONSTANTS w, t, r, q, k

\* The properties of the passing run are about behaviours with none of the named races.
NoRace == hazard = {}
=============================================================================
