--------------------------- MODULE MCRevenueCache ---------------------------
(* Instances of RevenueCache for TLC. *)
EXTENDS RevenueCache, TLC

CONSTANTS w1, w2, w3, missing

ThreeWorkers == {w1, w2, w3}
WorkerSymmetry == Permutations(ThreeWorkers)
OneAndTwo == {1, 2}

=============================================================================
