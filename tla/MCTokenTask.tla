---------------------------- MODULE MCTokenTask ----------------------------
(* Instances of TokenTask for TLC: two offices that have a row, calls that *)
(* may ask for either or for the empty domain.                             *)
EXTENDS TokenTask, TLC

CONSTANTS d1, d2

MCDomain == {d1, d2}

Seeded(d, i) == [id |-> i, domain |-> d, token |-> d, status |-> CREATED]
MCTable == {Seeded(d1, 1), Seeded(d2, 2)}
MCOneRow == {Seeded(d1, 1)}
MCInitialId == 2

Symmetry == Permutations(Call)
=============================================================================
