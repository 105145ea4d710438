------------------------------ MODULE MCRelay ------------------------------
(***************************************************************************)
(* Small instances of Relay for TLC.                                       *)
(***************************************************************************)
EXTENDS Relay, TLC

CONSTANTS w1, w2

MCWorkers == {w1, w2}
OneRow == {1}
TwoRows == {1, 2}
OneChild == {1}
TwoChildren == {1, 2}

\* Worker identities are compared for equality only.
WorkerSymmetry == Permutations(MCWorkers)

=============================================================================
