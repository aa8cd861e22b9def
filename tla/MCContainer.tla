---------------------------- MODULE MCContainer ----------------------------
(* Small instances of Container for TLC.                                   *)
EXTENDS Container, TLC

CONSTANTS w1, w2, w3, small, large

MCSize == [c \in Chunks |-> IF c = large THEN 2 ELSE 1]

(* Workers are interchangeable; used by the runs without liveness.         *)
WorkerSymmetry == Permutations(Workers)
=============================================================================
