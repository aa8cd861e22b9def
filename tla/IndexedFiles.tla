---------------------------- MODULE IndexedFiles ----------------------------
(***************************************************************************)
(* What the indexers of IndexHandshake leave in the database:              *)
(* lib/parser/exfat.go with the hashes of lib/util/util.go.                *)
(*                                                                         *)
(* An indexer collects the files of its partition in a map from content    *)
(* hashes to names, merges each entry of the map with the node the         *)
(* database holds, and writes the results in one batch at the end.  The    *)
(* content is read through the one os.File of the evidence file, whose     *)
(* offset StoreFile and every indexer move: a hash is that of the entry    *)
(* only if nobody else has moved the offset meanwhile.                     *)
(*                                                                         *)
(* A file is <<partition, index>>, which stands for its name as well as    *)
(* for its place in the image.  A node has the names of the files with its *)
(* content and the place of one of them.                                   *)
(***************************************************************************)
EXTENDS IndexHandshake, Sequences

CONSTANTS
  Layouts,   \* what an image may hold: the contents of a partition's files
  Earlier,   \* index nodes that earlier operations may have left
  Nil        \* the key of a file whose hash has failed

File == Int \X Int
Node == [names : SUBSET File, start : File]

Own(names) == {n \in names : n \in Indexers \X (1 .. MaxEntries)}

ASSUME LayoutsAssumption ==
  \A l \in Layouts : \A p \in Indexers :
    Len(l[p]) \in Nat /\ DOMAIN l[p] = 1 .. Len(l[p])
(* What earlier operations have left is right for the image stored.        *)
ASSUME EarlierAssumption ==
  \A e \in Earlier : \A k \in DOMAIN e :
    /\ e[k] \in Node
    /\ k # Nil => \A l \in Layouts : \A n \in Own(e[k].names) : l[n[1]][n[2]] = k

VARIABLES
  image,     \* the contents of the files of each partition
  before,    \* history: the index nodes StoreFile has found
  nodes,     \* the index nodes in the database
  idxmap,    \* what an indexer has collected and not yet merged
  batch,     \* what an indexer has merged and not yet written
  offset,    \* who has moved the offset of the os.File last; 0 is StoreFile
  hashing,   \* StoreFile is hashing the next partition
  misread    \* partitions stored under the hash of something else

data == <<image, before, nodes, idxmap, batch, offset, hashing, misread>>
allvars == <<vars, data>>

Nothing == <<>>   \* the empty map

Put(map, k, node) ==
  [x \in DOMAIN map \cup {k} |-> IF x = k THEN node ELSE map[x]]

Drop(map, k) == [x \in DOMAIN map \ {k} |-> map[x]]

-----------------------------------------------------------------------------
InitIndexed ==
  /\ Init
  /\ image \in Layouts
  /\ before \in Earlier /\ nodes = before
  /\ idxmap = [p \in Indexers |-> Nothing]
  /\ batch = [p \in Indexers |-> Nothing]
  /\ offset = 0 /\ hashing = FALSE /\ misread = {}

(* GetLogicalFileHash for a partition after the first: StoreFile moves the *)
(* offset, and reads on from wherever it is then.                          *)
HashPartition ==
  /\ main = "index" /\ started \in 1 .. partitions - 1 /\ ~hashing
  /\ hashing' = TRUE /\ offset' = 0
  /\ UNCHANGED <<vars, image, before, nodes, idxmap, batch, misread>>

Start ==
  /\ started = 0 \/ hashing
  /\ StartIndexer
  /\ hashing' = FALSE
  /\ misread' = IF started > 0 /\ offset # 0 THEN misread \cup {started + 1}
                                             ELSE misread
  /\ UNCHANGED <<image, before, nodes, idxmap, batch, offset>>

(* StoreFile's other steps; none while it hashes a partition but failing.  *)
StoreFile ==
  /\ \/ StoreEvidence \/ StoreFails \/ AskAsync \/ MarkCompleted
     \/ \E p \in Indexers : SyncReceive(p) \/ Receive(p)
  /\ UNCHANGED data

-----------------------------------------------------------------------------
(* GetIndexableEntries; after an error, of what there is.                  *)
List(p) ==
  /\ Call(p)
  /\ pc[p] = "list" =>
       /\ entries'[p] <= Len(image[p])
       /\ failure[p] = "none" => entries'[p] = Len(image[p])
  /\ UNCHANGED data

(* Mutant: an indexer hashes from wherever the offset is.                  *)
MutBeginHash(p) == BeginRound(p) /\ UNCHANGED data

(* Opening and listing read the image with calls that do not depend on the *)
(* offset; the hash of an entry begins by moving it.                       *)
BeginHash(p) ==
  /\ BeginRound(p)
  /\ offset' = IF pc[p] = "loop" THEN p ELSE offset
  /\ UNCHANGED <<image, before, nodes, idxmap, batch, hashing, misread>>

Entry(p) == <<p, entries[p] - left[p] + 1>>
Content(name) == image[name[1]][name[2]]

(* The hash that comes out, right or nobody else's.                        *)
HashOf(p) == IF offset = p THEN Content(Entry(p)) ELSE Entry(p)

(* Mutant: the last name for a content takes the place of the others.      *)
MutCollect(p, k) ==
  idxmap' = [idxmap EXCEPT
    ![p] = Put(@, k, [names |-> {Entry(p)}, start |-> Entry(p)])]

Collect(p, k) ==
  LET found == idxmap[p]
      node == IF k \in DOMAIN found
                THEN [found[k] EXCEPT !.names = @ \cup {Entry(p)}]
                ELSE [names |-> {Entry(p)}, start |-> Entry(p)]
  IN  idxmap' = [idxmap EXCEPT ![p] = Put(found, k, node)]

HashEntry(p) ==
  /\ pc[p] = "loop" /\ Round(p)
  /\ Collect(p, HashOf(p))
  /\ UNCHANGED <<image, before, nodes, batch, offset, hashing, misread>>

(* An entry whose hash has failed is kept, under no hash.                  *)
HashFails(p) ==
  /\ pc[p] = "loop" /\ RoundFails(p)
  /\ Collect(p, Nil)
  /\ UNCHANGED <<image, before, nodes, batch, offset, hashing, misread>>

StartStoring(p) ==
  /\ StartMerge(p)
  /\ left'[p] = Cardinality(DOMAIN idxmap[p])
  /\ UNCHANGED data

(* Mutant: the names of a node that has fewer of them are overwritten.     *)
MutMerged(new, old) ==
  IF Cardinality(new.names) < Cardinality(old.names)
    THEN [old EXCEPT !.names = @ \cup new.names]
    ELSE new

(* The names of both, and the place of the one that has more.              *)
Merged(new, old) ==
  IF Cardinality(new.names) < Cardinality(old.names)
    THEN [old EXCEPT !.names = @ \cup new.names]
    ELSE [new EXCEPT !.names = @ \cup old.names]

(* One of the two has no name of its own to add to the other; then, even   *)
(* if that is the old one, nothing is written.                             *)
NothingToAdd(new, old) ==
  IF Cardinality(new.names) < Cardinality(old.names)
    THEN new.names \subseteq old.names
    ELSE old.names \subseteq new.names

(* A round of storeIndexedFiles takes any file left in the map.  It reads  *)
(* the database, not what another indexer has in its batch.                *)
Merge(p) ==
  /\ pc[p] = "merge" /\ Round(p)
  /\ \E k \in DOMAIN idxmap[p] :
       LET new == idxmap[p][k]
           put(node) == batch' = [batch EXCEPT ![p] = Put(@, k, node)]
       IN  /\ idxmap' = [idxmap EXCEPT ![p] = Drop(@, k)]
           /\ IF k \notin DOMAIN nodes THEN put(new)
              ELSE IF NothingToAdd(new, nodes[k]) THEN UNCHANGED batch
              ELSE put(Merged(new, nodes[k]))
  /\ UNCHANGED <<image, before, nodes, offset, hashing, misread>>

MergeFails(p) ==
  /\ pc[p] = "merge" /\ RoundFails(p)
  /\ UNCHANGED data

Written(ks, p) ==
  [k \in DOMAIN nodes \cup ks |-> IF k \in ks THEN batch[p][k] ELSE nodes[k]]

(* A batch that fails may have been written in part.                       *)
Flush(p) ==
  /\ FlushIndex(p)
  /\ \E ks \in SUBSET DOMAIN batch[p] :
       /\ sending' = sending => ks = DOMAIN batch[p]
       /\ nodes' = Written(ks, p)
  /\ batch' = [batch EXCEPT ![p] = Nothing]
  /\ UNCHANGED <<image, before, idxmap, offset, hashing, misread>>

Rest(p) ==
  /\ CallFails(p) \/ EndMerge(p) \/ StorePartition(p) \/ Panic(p)
  /\ UNCHANGED data

-----------------------------------------------------------------------------
NextIndexed ==
  \/ HashPartition \/ Start \/ StoreFile
  \/ \E p \in Indexers :
       \/ List(p) \/ BeginHash(p) \/ HashEntry(p) \/ HashFails(p)
       \/ StartStoring(p) \/ Merge(p) \/ MergeFails(p) \/ Flush(p) \/ Rest(p)

SpecIndexed == InitIndexed /\ [][NextIndexed]_allvars

-----------------------------------------------------------------------------
(* At most one indexer runs at a time, and not beside StoreFile's hashes.  *)
OneAtATime == sync \/ partitions <= 1

(* A file is indexed under the hash of its content, and a partition stored *)
(* under its own, as long as nobody moves the shared offset.               *)
HashedRight ==
  OneAtATime =>
    /\ misread = {}
    /\ \A k \in DOMAIN nodes \ {Nil} :
         \A n \in Own(nodes[k].names) : Content(n) = k

(* When a file is marked completed and no call has failed, its index names *)
(* every file of every partition, except for a content whose node held     *)
(* before nothing but names that were found again.                         *)
AllNamed ==
  main = "done" /\ faults = 0 /\ OneAtATime =>
    \A p \in 1 .. partitions : \A i \in DOMAIN image[p] :
      LET k == image[p][i] IN
      /\ k \in DOMAIN nodes
      /\ \/ <<p, i>> \in nodes[k].names
         \/ k \in DOMAIN before /\ \A n \in before[k].names : n \in Own({n})

(* No step, a failing one included, takes a name from the index.  Two      *)
(* indexers side by side may: each merges with what it has read before the *)
(* other's batch is written.                                               *)
NamesKept ==
  [][OneAtATime =>
       \A k \in DOMAIN nodes :
         k \in DOMAIN nodes' /\ nodes[k].names \subseteq nodes'[k].names]_allvars
=============================================================================
