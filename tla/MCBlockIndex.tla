---------------------------- MODULE MCBlockIndex ----------------------------
(* A small instance of BlockIndex for TLC: the first operation changes     *)
(* blocks, fills one and leaves one for Close; the second stores one of    *)
(* its chunks again.                                                       *)
EXTENDS BlockIndex

CONSTANTS o1, o2, a, b, c, d, x, y

MCContent == [o \in Ops |-> IF o = o1 THEN <<a, b, c>> ELSE <<a, d>>]
MCBlockOf == [h \in Chunks |-> IF h = b THEN y ELSE x]
=============================================================================
