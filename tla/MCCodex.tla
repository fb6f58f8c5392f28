------------------------------- MODULE MCCodex -------------------------------
(***************************************************************************)
(* Instances of Codex for TLC.                                             *)
(***************************************************************************)
EXTENDS Codex, TLC

CONSTANTS
    c1, c2, c3,     \* calls
    a1, a2          \* calls of a component that has two

Symmetry == Permutations(Calls) \cup Permutations({a1, a2})

=============================================================================
