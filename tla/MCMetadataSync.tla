--------------------------- MODULE MCMetadataSync ---------------------------
(* Instances of MetadataSync for TLC. *)
EXTENDS MetadataSync

CONSTANTS a, b, f1, o1, o2

\* Every property of the passing runs is about behaviours with none of the named races.
NoRace == hazard = {}
OneObject == [o \in {o1} |-> f1]
TwoObjects == [o \in {o1, o2} |-> f1]
FromA == [o \in Object |-> a]
OriginA == [f \in File |-> a]
InStep == [d \in Device |-> 0]
BAhead == [d \in Device |-> IF d = b THEN 1 ELSE 0]
=============================================================================
