------------------------------ MODULE MCReload ------------------------------
(***************************************************************************)
(* Small instances of Reload.  Two actors are enough for every race of two *)
(* reloads; they are interchangeable.                                      *)
(***************************************************************************)
EXTENDS Reload, TLC

CONSTANTS a1, a2

Two == {a1, a2}
One == {a1}
Symmetric == Permutations(Two)

=============================================================================
