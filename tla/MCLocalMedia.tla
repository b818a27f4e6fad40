---------------------------- MODULE MCLocalMedia ----------------------------
(* A finite instance of LocalMedia: a file source may replace another one. *)
EXTENDS LocalMedia

CONSTANTS f1, f2

MCFiles == {f1, f2}

(* A race between two control threads is followed while both are in the    *)
(* engine and the third is not, and undefined behaviour not at all.        *)
OneRace == ~broken /\ (overlap => Cardinality({t \in Control : Busy(t)}) = 2)
=============================================================================
