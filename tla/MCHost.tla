------------------------------- MODULE MCHost -------------------------------
(***************************************************************************)
(* Instances of Host for TLC.                                              *)
(***************************************************************************)
EXTENDS Host, TLC

CONSTANTS
    c1, c2,     \* calls, edits or users of a snapshot
    p1, p2,     \* setups or pruners
    s1, s2, s3  \* services

TwoFiles == <<"mcp", "settings">>
Versions == [u \in Updaters |-> u]
Symmetry == Permutations({c1, c2}) \cup Permutations({p1, p2})
              \cup Permutations({s1, s2, s3})

=============================================================================
