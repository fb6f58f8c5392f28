------------------------- MODULE MCBackgroundRelay -------------------------
(***************************************************************************)
(* Small instances of BackgroundRelay.  The constants get their values in  *)
(* the .cfg files; Requests and workers are interchangeable.               *)
(***************************************************************************)
EXTENDS BackgroundRelay, TLC

Symmetry == Permutations(Ids) \cup Permutations(Agents)

\* The faults of a run with three requests: while all three are stored there is one of a
\* failed write, a crash and a stop; with two of them any that the bounds allow.
Within == Cardinality(Stored) = 3 => faults + crashes + stops <= 1
=============================================================================
