------------------------------- MODULE MCNear -------------------------------
(* Small databases for Near.                                               *)
EXTENDS Near, TLC

CONSTANTS e1, e2, e3, p1, p2, i1, i2, a, b, c, x

(* Evidence files without partitions.                                      *)
Flat(c1, c2, c3) == [
  content |-> e1 :> c1 @@ e2 :> c2 @@ e3 :> c3,
  inputs |-> {e1},
  images |-> [e \in {e1, e2, e3} |-> {e}],
  first |-> [e \in {e1, e2, e3} |-> 1],
  last |-> e1 :> Len(c1) @@ e2 :> Len(c2) @@ e3 :> Len(c3),
  inside |-> [e \in {e1, e2, e3} |-> <<>>],
  missing |-> {}]

(* One with two partitions, the first with two indexed files, and one that *)
(* shares their chunks.                                                    *)
Nested(missing) == [
  content |-> e1 :> <<a, b, a>> @@ e2 :> <<a, b, b>>,
  inputs |-> {e2, p1, i1},
  images |-> [f \in {e1, p1, p2, i1, i2} |-> {e1}] @@ e2 :> {e2},
  first |-> [f \in {e1, e2, p1, i1} |-> 1] @@ i2 :> 2 @@ p2 :> 3,
  last |-> [f \in {e1, e2, p2} |-> 3] @@ p1 :> 2 @@ i1 :> 2 @@ i2 :> 2,
  inside |-> e1 :> (p1 :> {1, 2} @@ p2 :> {3}) @@ p1 :> (i1 :> {1} @@ i2 :> {2})
               @@ [f \in {e2, p2, i1, i2} |-> <<>>],
  missing |-> missing]

MCDatabases ==
  {Flat(<<a, a, b>>, <<a, b, a>>, <<a, b, b>>),
   Flat(<<x, a, b>>, <<x, x>>, <<c, c>>),
   Flat(<<a, b, x>>, <<a, b, x, a, b, x>>, <<b, b, x, a>>),
   Nested({}), Nested({p1}), Nested({p2})}
=============================================================================
