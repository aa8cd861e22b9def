------------------------------ MODULE MCSearch ------------------------------
(* Small databases for Search.                                             *)
EXTENDS Search, TLC

CONSTANTS e1, e2, p1, i1, u, v, w, x, y, z

(* "u", "uv" and "uvwx"; y and z are in none.                             *)
MCQueries == {<<u>>, <<u, v>>, <<u, v, w, x>>}

(* Two evidence files that share their first chunk, with occurrences       *)
(* within a chunk and across the boundary of two, by one byte and by more. *)
TwoImages(complete) == [
  ns |-> e1 :> "E" @@ e2 :> "E",
  names |-> e1 :> {<<x>>} @@ e2 :> {<<y>>, <<z>>},
  start |-> e1 :> 0 @@ e2 :> 0,
  size |-> e1 :> 11 @@ e2 :> 7,
  bytes |-> e1 :> <<u, y, u, v, w, x, y, u, v, w, x>>
            @@ e2 :> <<u, y, u, v, w, u, v>>,
  completed |-> e1 :> TRUE @@ e2 :> complete]

(* An indexed file of three names, two in one image; its chunks are cut.   *)
Nested == [
  ns |-> i1 :> "I" @@ p1 :> "P" @@ e1 :> "E" @@ e2 :> "E",
  names |-> i1 :> {<<e1, p1, x>>, <<e1, p1, y>>, <<e2, p1, z>>}
              @@ p1 :> {<<e1, x>>, <<e2, y>>} @@ e1 :> {<<x>>} @@ e2 :> {<<y>>},
  start |-> i1 :> 2 @@ p1 :> 0 @@ e1 :> 0 @@ e2 :> 0,
  size |-> i1 :> 4 @@ p1 :> 8 @@ e1 :> 8 @@ e2 :> 8,
  bytes |-> e1 :> <<y, y, u, v, w, x, u, v>> @@ e2 :> <<y, y, u, v, w, x, u, v>>,
  completed |-> e1 :> TRUE @@ e2 :> TRUE]

(* Indexed files that begin with the last byte of a chunk and lie in the   *)
(* last, short one, and a name that holds the separator.                   *)
Odd(start, size) == [
  ns |-> i1 :> "I" @@ e1 :> "E",
  names |-> i1 :> {<<e1, p1, x, y>>} @@ e1 :> {<<x>>},
  start |-> i1 :> start @@ e1 :> 0,
  size |-> i1 :> size @@ e1 :> 6,
  bytes |-> e1 :> <<u, v, w, u, v, w>>,
  completed |-> e1 :> TRUE]

MCDatabases ==
  {TwoImages(TRUE), TwoImages(FALSE), Nested, Odd(3, 2), Odd(5, 1), Odd(0, 5)}
=============================================================================
