-------------------------- MODULE MCContainerCache --------------------------
(* Layouts of up to five chunks for ContainerCache.                        *)
EXTENDS ContainerCache

CONSTANTS c1, c2, c3

(* Three compressed containers that take turns, and one that is too large  *)
(* or not, with one that is not compressed.                                *)
MCLayouts ==
  {[content |-> [p \in Paths |-> CASE p = c1 -> <<0, 6>>
                                   [] p = c2 -> <<3>>
                                   [] p = c3 -> <<9, 12>>],
    size |-> [p \in Paths |-> IF p = c1 THEN 2 ELSE 1],
    compressed |-> Paths],
   [content |-> [p \in Paths |-> CASE p = c1 -> <<0, 3, 9>>
                                   [] p = c2 -> <<6>>
                                   [] p = c3 -> <<12>>],
    size |-> [p \in Paths |-> IF p = c1 THEN 3 ELSE 2],
    compressed |-> {c1, c3}]}
=============================================================================
