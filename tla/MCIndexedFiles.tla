--------------------------- MODULE MCIndexedFiles ---------------------------
(* Images of up to two partitions for IndexedFiles.                        *)
EXTENDS IndexedFiles

CONSTANTS a, b

(* The same content twice in a partition, and in both partitions.          *)
MCLayouts ==
  {[p \in Indexers |-> IF p = 1 THEN <<a, a>> ELSE <<a>>],
   [p \in Indexers |-> IF p = 1 THEN <<a, b>> ELSE <<b>>]}

(* Nothing, the files of another image, which has partition 0 here, or     *)
(* what an earlier indexing of this image left when it failed.             *)
MCEarlier ==
  {Nothing,
   [k \in {a} |-> [names |-> {<<0, 1>>, <<0, 2>>},
                   start |-> <<0, 2>>]],
   [k \in {a, Nil} |-> [names |-> {<<1, IF k = a THEN 1 ELSE 2>>},
                        start |-> <<1, IF k = a THEN 1 ELSE 2>>]]}
=============================================================================
