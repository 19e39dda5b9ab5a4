---------------------------- MODULE MCShareLinks ----------------------------
(* Instances of ShareLinks for TLC: the bounds within which two devices,   *)
(* and one alone, meet the cases.                                          *)
EXTENDS ShareLinks

CONSTANTS a, b

NoRace == race = {}
Bounds(m, ds, e, c, f) == [mode |-> m, devices |-> ds, edits |-> e, changes |-> c, faults |-> f]
Budgets ==
  {Bounds("latest", {a, b}, 2, 0, 0), Bounds("latest", {a, b}, 0, 2, 1)} \cup
  UNION {{Bounds(m, {a, b}, 1, 1, 0), Bounds(m, {a, b}, 1, 0, 1), Bounds(m, {a}, 2, 1, 1)}
         : m \in {"latest", "snapshot"}}
=============================================================================
