-------------------------- MODULE MCEvidenceStore --------------------------
(* Small instances of EvidenceStore for TLC: two files that begin with the *)
(* same chunk, and a single file of three chunks.                          *)
EXTENDS EvidenceStore, TLC

CONSTANTS o1, o2, f, g, n1, n2, a, b, c

MCShared == [x \in Files |-> IF x = f THEN <<a, b>> ELSE <<a>>]
MCDistinct == [x \in Files |-> <<a, b, c>>]

Way(containers, together, files, failures, deaths) ==
  [appending |-> containers, concurrent |-> together, files |-> files,
   faults |-> failures, crashes |-> deaths]

(* The command line, failing and crashing, and with a file per chunk only  *)
(* crashing, as a failure may then undo a file; the server, with two       *)
(* uploads at once, with containers of a chunk; and the command line with  *)
(* two failures.                                                           *)
MCSettings ==
  {Way(TRUE, 1, Files, 1, 1), Way(FALSE, 1, Files, 0, 1),
   Way(FALSE, 2, Files, 0, 0), Way(TRUE, 2, {g}, 0, 0)}
MCTrouble == {Way(TRUE, 1, Files, 2, 0)}

(* Operations are interchangeable, and so are names; used by the runs      *)
(* without liveness.                                                       *)
Symmetry == Permutations(Ops) \cup Permutations(Names)
=============================================================================
