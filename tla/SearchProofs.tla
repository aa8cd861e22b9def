---------------------------- MODULE SearchProofs ----------------------------
(***************************************************************************)
(* Proofs about searching, in any database, for any query, with any number *)
(* of goroutines and of failures.                                          *)
(***************************************************************************)
EXTENDS Search, SequenceTheorems, FiniteSetTheorems, TLAPS

-----------------------------------------------------------------------------
(* The database.                                                           *)

Given == db \in Databases /\ query \in Queries

LEMMA Database ==
  ASSUME Given
  PROVE  /\ IsFiniteSet(Fids)
         /\ \A f \in Fids :
              /\ f # None /\ \E n \in 1 .. 3 : f \in In(n)
              /\ Start(f) \in Nat /\ Size(f) \in Nat /\ End(f) \in Nat
              /\ IsFiniteSet(db.names[f])
              /\ \A n \in db.names[f] : IsSeq(n) /\ Len(n) > 0
              /\ \A e \in EviHashes(f) :
                   /\ e \in Evidence /\ IsSeq(db.bytes[e])
                   /\ End(f) <= Len(db.bytes[e])
<1>1. db \in Databases
  BY DEF Given
<1>2. ASSUME NEW f \in Fids
      PROVE  /\ IsFiniteSet(Fids)
             /\ f # None /\ \E n \in 1 .. 3 : f \in In(n)
             /\ Start(f) \in Nat /\ Size(f) \in Nat /\ End(f) \in Nat
             /\ IsFiniteSet(db.names[f])
             /\ \A n \in db.names[f] : IsSeq(n) /\ Len(n) > 0
             /\ \A e \in EviHashes(f) :
                  /\ e \in Evidence /\ IsSeq(db.bytes[e])
                  /\ End(f) <= Len(db.bytes[e])
  <2>1. /\ IsFiniteSet(DOMAIN db.ns) /\ f # None /\ db.ns[f] \in {"I", "P", "E"}
        /\ db.start[f] \in Nat /\ db.size[f] \in Nat
        /\ IsFiniteSet(db.names[f])
        /\ \A n \in db.names[f] : IsSeq(n) /\ Len(n) > 0
        /\ \A e \in IF db.ns[f] = "E" THEN {f} ELSE {n[1] : n \in db.names[f]} :
             /\ e \in DOMAIN db.ns /\ db.ns[e] = "E" /\ IsSeq(db.bytes[e])
             /\ db.start[f] + db.size[f] <= Len(db.bytes[e])
    BY <1>1, DatabasesAssumption DEF Fids
  <2>2. EviHashes(f) = IF db.ns[f] = "E" THEN {f} ELSE {n[1] : n \in db.names[f]}
    BY DEF EviHashes, Evidence
  <2>3. \A e \in EviHashes(f) :
          /\ e \in Evidence /\ IsSeq(db.bytes[e])
          /\ End(f) <= Len(db.bytes[e])
    BY <2>1, <2>2 DEF Evidence, Fids, Start, Size, End
  <2>4. \E n \in 1 .. 3 : f \in In(n)
    BY <2>1 DEF In, Namespaces
  <2>5. Start(f) \in Nat /\ Size(f) \in Nat /\ End(f) \in Nat
    BY <2>1 DEF Start, Size, End
  <2> QED
    BY <2>1, <2>3, <2>4, <2>5 DEF Fids
<1>3. Fids = {} => IsFiniteSet(Fids)
  BY FS_EmptySet
<1> QED
  BY <1>2, <1>3

(* Files of one namespace are of no other.                                 *)
LEMMA OneNamespace ==
  ASSUME NEW m \in 1 .. 3, NEW n \in 1 .. 3, NEW f \in In(m), f \in In(n)
  PROVE  m = n
BY DEF In, Namespaces

(* Where chunks start.                                                     *)
ChonkOffsets == {n * ChonkSize : n \in Nat}

LEMMA OffsetTypes ==
  /\ ChonkSize \in Nat /\ ChonkSize > 0
  /\ ChonkOffsets \subseteq Nat
  /\ \A at \in ChonkOffsets : at + ChonkSize \in ChonkOffsets
<1>1. ChonkSize \in Nat /\ ChonkSize > 0
  BY BoundsAssumption
<1>2. ASSUME NEW at \in ChonkOffsets
      PROVE  at \in Nat /\ at + ChonkSize \in ChonkOffsets
  <2>1. PICK n \in Nat : at = n * ChonkSize
    BY DEF ChonkOffsets
  <2>2. at \in Nat
    BY <1>1, <2>1
  <2>3. at + ChonkSize = (n + 1) * ChonkSize
    BY <1>1, <2>1
  <2> QED
    BY <2>2, <2>3 DEF ChonkOffsets
<1> QED
  BY <1>1, <1>2

LEMMA OffsetsApart ==
  ASSUME NEW at \in ChonkOffsets, NEW to \in ChonkOffsets, at < to
  PROVE  at + ChonkSize <= to
<1>1. PICK m \in Nat, n \in Nat : at = m * ChonkSize /\ to = n * ChonkSize
  BY DEF ChonkOffsets
<1>2. ChonkSize \in Nat /\ ChonkSize > 0
  BY BoundsAssumption
<1>3. m < n
  BY <1>1, <1>2
<1>4. (m + 1) * ChonkSize <= n * ChonkSize
  BY <1>2, <1>3
<1> QED
  BY <1>1, <1>2, <1>4

LEMMA Multiples ==
  ASSUME NEW at \in Nat
  PROVE  at % ChonkSize = 0 <=> at \in ChonkOffsets
<1>1. ChonkSize \in Nat /\ ChonkSize > 0
  BY BoundsAssumption
<1>2. ASSUME at % ChonkSize = 0 PROVE at \in ChonkOffsets
  <2>1. at = (at \div ChonkSize) * ChonkSize /\ at \div ChonkSize \in Nat
    BY <1>1, <1>2
  <2> QED
    BY <2>1 DEF ChonkOffsets
<1>3. ASSUME at \in ChonkOffsets PROVE at % ChonkSize = 0
  <2>1. PICK n \in Nat : at = n * ChonkSize
    BY <1>3 DEF ChonkOffsets
  <2> QED
    BY <1>1, <2>1
<1> QED
  BY <1>2, <1>3

(* Every place is in a chunk, and GetDBStartOffset finds it.               *)
LEMMA InChonk ==
  ASSUME NEW p \in Nat
  PROVE  /\ (p \div ChonkSize) * ChonkSize \in ChonkOffsets
         /\ (p \div ChonkSize) * ChonkSize <= p
         /\ p < (p \div ChonkSize) * ChonkSize + ChonkSize
<1>1. ChonkSize \in Nat /\ ChonkSize > 0
  BY BoundsAssumption
<1>2. p \div ChonkSize \in Nat
  BY <1>1
<1> QED
  BY <1>1, <1>2 DEF ChonkOffsets

LEMMA DbstartIs ==
  ASSUME NEW f
  PROVE  Dbstart(f) = (Start(f) \div ChonkSize) * ChonkSize
BY DEF Dbstart, Cut!GetDBStartOffset

LEMMA FileStarts ==
  ASSUME Given, NEW f \in Fids
  PROVE  Dbstart(f) \in ChonkOffsets /\ Dbstart(f) <= Start(f)
         /\ Start(f) < Dbstart(f) + ChonkSize
BY Database, DbstartIs, InChonk

-----------------------------------------------------------------------------
(* The goroutines and who waits for them.                                  *)

Task == [at : {"read", "set", "overlap", "ok", "error", "gone"}, count : Nat]
Tasks == UNION {[S -> Task] : S \in SUBSET Nat}

Mains == {"search", "report", "done", "failed", "panic"}

Types ==
  /\ main \in Mains /\ ns \in 1 .. 3 /\ unread \subseteq In(ns)
  /\ fpc \in [Fids -> {"none", "meta", "chonks", "ok", "error", "gone"}]
  /\ image \in [Fids -> Evidence \cup {None}]
  /\ sindex \in [Fids -> Nat] /\ factive \in [Fids -> Int]
  /\ cpc \in [Fids -> Tasks]
  /\ faults \in Nat

(* Until the search is given up, active is the number of goroutines of     *)
(* files, and one namespace is done with before the next.                  *)
Calm == main \in {"search", "report", "done"}
Busy == {f \in Fids : fpc[f] \notin {"none", "gone"}}

Queue ==
  Calm =>
    /\ active = Cardinality(Busy)
    /\ \A n \in 1 .. 3 : \A f \in In(n) :
         /\ n > ns => fpc[f] = "none"
         /\ n < ns => fpc[f] = "gone"
         /\ n = ns => (fpc[f] = "none" <=> f \in unread)
    /\ main # "search" => \A f \in Fids : fpc[f] = "gone"

(* A file has no chunk before it has its evidence file; then the chunks    *)
(* from its first one on have a goroutine each, and factive is the number  *)
(* of those not heard of.  A file that ended well has all its chunks.      *)
Live(f) == {at \in DOMAIN cpc[f] : cpc[f][at].at # "gone"}

NoImage(f) ==
  /\ DOMAIN cpc[f] = {} /\ factive[f] = 0 /\ fpc[f] # "chonks"
  /\ Calm => fpc[f] \notin {"ok", "gone"}

InImage(f) ==
  /\ image[f] \in EviHashes(f) /\ Completed(image[f])
  /\ fpc[f] \notin {"none", "meta"}
  /\ sindex[f] \in ChonkOffsets /\ sindex[f] >= Dbstart(f)
  /\ DOMAIN cpc[f] =
       {at \in ChonkOffsets : at >= Dbstart(f) /\ at < sindex[f]}
  /\ \A at \in DOMAIN cpc[f] : at < End(f)
  /\ IsFiniteSet(DOMAIN cpc[f])
  /\ fpc[f] = "chonks" => factive[f] = Cardinality(Live(f))
  /\ Calm /\ fpc[f] \in {"ok", "gone"} =>
       Live(f) = {} /\ sindex[f] >= End(f)

Cutting(f) == IF image[f] = None THEN NoImage(f) ELSE InImage(f)

(* A failed call is still to be heard of; only failed calls are errors of  *)
(* chunks.                                                                 *)
Errs(f) ==
  fpc[f] = "error" \/ \E at \in DOMAIN cpc[f] : cpc[f][at].at = "error"

Erring ==
  /\ Calm /\ faults > 0 => \E f \in Fids : Errs(f)
  /\ \A f \in Fids : \A at \in DOMAIN cpc[f] :
       cpc[f][at].at = "error" => faults > 0

FlowInv ==
  Given /\ Types /\ Queue /\ (\A f \in Fids : Cutting(f)) /\ Erring

LEMMA TaskMaps ==
  ASSUME NEW m
  PROVE  m \in Tasks <=> DOMAIN m \subseteq Nat /\ m \in [DOMAIN m -> Task]
BY DEF Tasks

LEMMA SameDb ==
  ASSUME UNCHANGED input
  PROVE  /\ UNCHANGED <<db, query>> /\ (Given => Given')
         /\ Fids' = Fids /\ Evidence' = Evidence /\ In(1)' = In(1)
         /\ \A n : In(n)' = In(n)
         /\ \A f : /\ EviHashes(f)' = EviHashes(f)
                   /\ Start(f)' = Start(f) /\ Size(f)' = Size(f)
                   /\ End(f)' = End(f) /\ Dbstart(f)' = Dbstart(f)
                   /\ Completed(f)' = Completed(f)
<1>1. UNCHANGED <<db, query>>
  BY DEF input
<1>2. Fids' = Fids /\ Evidence' = Evidence /\ \A n : In(n)' = In(n)
  BY <1>1 DEF Fids, Evidence, In
<1>3. \A f : Start(f)' = Start(f) /\ Size(f)' = Size(f)
  BY <1>1 DEF Start, Size
<1>4. \A f : End(f)' = End(f) /\ EviHashes(f)' = EviHashes(f)
  BY <1>1, <1>2, <1>3 DEF End, EviHashes
<1>5. \A f : Dbstart(f)' = Dbstart(f)
  BY <1>3 DEF Dbstart, Cut!GetDBStartOffset
<1>6. \A f : Completed(f)' = Completed(f)
  BY <1>1 DEF Completed
<1> QED
  BY <1>1, <1>2, <1>3, <1>4, <1>5, <1>6 DEF Given

LEMMA FlowInit == Init => FlowInv
<1> SUFFICES ASSUME Init PROVE FlowInv
  OBVIOUS
<1>1. Given
  BY DEF Init, Given
<1>2. /\ \A f \in Fids : /\ cpc[f] = <<>> /\ fpc[f] = "none"
                         /\ factive[f] = 0 /\ image[f] = None
      /\ main = "search" /\ ns = 1 /\ unread = In(1) /\ active = 0
      /\ faults = 0
  BY DEF Init
<1>3. <<>> \in Tasks
  <2>1. PICK m : m = <<>>
    OBVIOUS
  <2>2. DOMAIN m = {} /\ m \in [DOMAIN m -> Task]
    BY <2>1
  <2> QED
    BY <2>1, <2>2, TaskMaps
<1>4. Types
  BY <1>2, <1>3 DEF Init, Types, Mains
<1>5. Queue
  <2>1. Busy = {}
    BY <1>2 DEF Busy
  <2>2. \A n \in 1 .. 3 : \A f \in In(n) :
          /\ f \in Fids
          /\ n = 1 => f \in unread
    BY <1>2 DEF In
  <2> QED
    BY <1>2, <2>1, <2>2, FS_EmptySet DEF Queue
<1>6. ASSUME NEW f \in Fids PROVE Cutting(f)
  <2>1. DOMAIN cpc[f] = {}
    BY <1>2
  <2> QED
    BY <1>2, <2>1 DEF Cutting, NoImage
<1>7. Erring
  <2>1. \A f \in Fids : DOMAIN cpc[f] = {}
    BY <1>2
  <2> QED
    BY <1>2, <2>1 DEF Erring
<1> QED
  BY <1>1, <1>4, <1>5, <1>6, <1>7 DEF FlowInv

(* A file that a step does not touch.                                      *)
LEMMA SameCutting ==
  ASSUME UNCHANGED input, NEW f, Cutting(f), Calm' => Calm,
         image'[f] = image[f], sindex'[f] = sindex[f],
         factive'[f] = factive[f], cpc'[f] = cpc[f], fpc'[f] = fpc[f]
  PROVE  Cutting(f)'
<1>1. Live(f)' = Live(f)
  BY DEF Live
<1>2. NoImage(f) => NoImage(f)'
  BY DEF NoImage
<1>3. InImage(f) => InImage(f)'
  BY <1>1, SameDb DEF InImage
<1> QED
  BY <1>2, <1>3 DEF Cutting

(* Steps that only take the search further, or end it.                     *)
LEMMA MainMoves ==
  ASSUME FlowInv, UNCHANGED <<input, ns, unread, active, files, cpc>>,
         \/ main' \in {"failed", "panic"} /\ faults' \in {faults, faults + 1}
         \/ main = "report" /\ main' \in {"report", "done"} /\ faults' = faults
         \/ main' = main /\ faults' = faults
  PROVE  FlowInv'
<1>1. UNCHANGED <<ns, unread, active, fpc, image, sindex, factive, cpc>>
  BY DEF files
<1>2. /\ Calm' => Calm /\ faults' = faults
      /\ main' \in Mains /\ faults' \in Nat
      /\ faults > 0 => faults' > 0
  BY DEF FlowInv, Types, Mains, Calm
<1>3. Given' /\ Types'
  BY <1>1, <1>2, SameDb DEF FlowInv, Types
<1>4. Queue'
  <2>1. Busy' = Busy
    BY <1>1, SameDb DEF Busy
  <2>2. Calm' /\ main' # "search" => main # "search"
    BY DEF Calm
  <2> QED
    BY <1>1, <1>2, <2>1, <2>2, SameDb DEF FlowInv, Queue
<1>5. \A f \in Fids' : Cutting(f)'
  BY <1>1, <1>2, SameDb, SameCutting DEF FlowInv
<1>6. Erring'
  BY <1>1, <1>2, SameDb DEF FlowInv, Erring, Errs
<1> QED
  BY <1>3, <1>4, <1>5, <1>6 DEF FlowInv

LEMMA SpawnFileFlow ==
  ASSUME FlowInv, NEW f \in Fids, SpawnFile(f)
  PROVE  FlowInv'
<1>1. /\ UNCHANGED input
      /\ UNCHANGED <<main, ns, image, sindex, factive, cpc, faults>>
      /\ main = "search" /\ f \in unread /\ unread' = unread \ {f}
      /\ active' = active + 1 /\ fpc' = [fpc EXCEPT ![f] = "meta"]
  BY DEF SpawnFile, Searching
<1>2. /\ Given /\ Types /\ Queue /\ (\A g \in Fids : Cutting(g)) /\ Erring
      /\ Calm /\ f \in In(ns) /\ fpc[f] = "none"
  BY <1>1 DEF FlowInv, Types, Queue, Calm
<1>3. /\ DOMAIN fpc' = Fids /\ fpc'[f] = "meta"
      /\ \A g \in Fids : g # f => fpc'[g] = fpc[g]
  BY <1>1, <1>2 DEF Types
<1>4. Given' /\ Types'
  BY <1>1, <1>2, SameDb DEF Types
<1>5. Queue'
  <2>1. Busy' = Busy \cup {f} /\ f \notin Busy
    BY <1>1, <1>2, <1>3, SameDb DEF Busy
  <2>2. IsFiniteSet(Busy)
    BY <1>2, Database, FS_Subset DEF Busy
  <2>3. active' = Cardinality(Busy')
    BY <1>1, <1>2, <2>1, <2>2, FS_AddElement DEF Queue
  <2>4. \A n \in 1 .. 3 : \A g \in In(n) :
          /\ n > ns => fpc'[g] = "none"
          /\ n < ns => fpc'[g] = "gone"
          /\ n = ns => (fpc'[g] = "none" <=> g \in unread')
    <3> SUFFICES ASSUME NEW n \in 1 .. 3, NEW g \in In(n)
                 PROVE  /\ n > ns => fpc'[g] = "none"
                        /\ n < ns => fpc'[g] = "gone"
                        /\ n = ns => (fpc'[g] = "none" <=> g \in unread')
      OBVIOUS
    <3>1. CASE g = f
      <4>1. n = ns
        BY <1>2, <3>1, OneNamespace DEF Types
      <4> QED
        BY <1>1, <1>2, <1>3, <3>1, <4>1 DEF Types
    <3>2. CASE g # f
      <4>1. g \in Fids
        BY DEF In
      <4> QED
        BY <1>1, <1>2, <1>3, <3>2, <4>1 DEF Queue
    <3> QED
      BY <3>1, <3>2
  <2> QED
    BY <1>1, <2>3, <2>4, SameDb DEF Queue
<1>6. ASSUME NEW g \in Fids PROVE Cutting(g)'
  <2>1. CASE g = f
    <3>1. NoImage(f) /\ image[f] = None
      BY <1>2 DEF Cutting, InImage
    <3>2. NoImage(f)'
      BY <1>1, <1>3, <3>1 DEF NoImage
    <3> QED
      BY <1>1, <2>1, <3>1, <3>2 DEF Cutting
  <2>2. CASE g # f
    BY <1>1, <1>2, <1>3, <2>2, SameCutting DEF Calm
  <2> QED
    BY <2>1, <2>2
<1>7. Erring'
  BY <1>1, <1>2, <1>3, SameDb DEF Erring, Errs, Calm
<1> QED
  BY <1>1, <1>4, <1>5, <1>6, <1>7, SameDb DEF FlowInv

LEMMA CollectFileFlow ==
  ASSUME FlowInv, NEW f \in Fids, CollectFile(f)
  PROVE  FlowInv'
<1>1. /\ UNCHANGED input
      /\ UNCHANGED <<ns, unread, image, sindex, factive, cpc, faults>>
      /\ main = "search" /\ fpc[f] \in {"ok", "error"}
      /\ active' = active - 1 /\ fpc' = [fpc EXCEPT ![f] = "gone"]
      /\ main' = IF fpc[f] = "ok" THEN main ELSE "failed"
  BY DEF CollectFile, Receiving, Searching
<1>2. /\ Given /\ Types /\ Queue /\ (\A g \in Fids : Cutting(g)) /\ Erring
      /\ Calm
  BY <1>1 DEF FlowInv, Calm
<1>3. /\ DOMAIN fpc' = Fids /\ fpc'[f] = "gone"
      /\ \A g \in Fids : g # f => fpc'[g] = fpc[g]
  BY <1>1, <1>2 DEF Types
<1>4. Given' /\ Types'
  BY <1>1, <1>2, SameDb DEF Types, Mains
<1>5. Calm' => main' = main /\ fpc[f] = "ok"
  BY <1>1 DEF Calm
<1>6. Queue'
  <2>1. Busy' = Busy \ {f} /\ f \in Busy
    BY <1>1, <1>3, SameDb DEF Busy
  <2>2. IsFiniteSet(Busy)
    BY <1>2, Database, FS_Subset DEF Busy
  <2>3. active' = Cardinality(Busy')
    BY <1>1, <1>2, <2>1, <2>2, FS_RemoveElement DEF Queue
  <2>4. \A n \in 1 .. 3 : \A g \in In(n) :
          /\ n > ns => fpc'[g] = "none"
          /\ n < ns => fpc'[g] = "gone"
          /\ n = ns => (fpc'[g] = "none" <=> g \in unread)
    <3> SUFFICES ASSUME NEW n \in 1 .. 3, NEW g \in In(n)
                 PROVE  /\ n > ns => fpc'[g] = "none"
                        /\ n < ns => fpc'[g] = "gone"
                        /\ n = ns => (fpc'[g] = "none" <=> g \in unread)
      OBVIOUS
    <3>1. g \in Fids /\ (g = f => fpc[g] # "none")
      BY <1>1 DEF In
    <3> QED
      BY <1>2, <1>3, <3>1 DEF Queue
  <2> QED
    BY <1>1, <1>5, <2>3, <2>4, SameDb DEF Queue
<1>7. ASSUME NEW g \in Fids PROVE Cutting(g)'
  <2>1. CASE g = f
    <3>1. CASE image[f] = None
      <4>1. NoImage(f)
        BY <1>2, <3>1 DEF Cutting
      <4>2. ~Calm'
        BY <1>1, <1>2, <1>5, <4>1 DEF NoImage
      <4> QED
        BY <1>1, <1>3, <2>1, <3>1, <4>1, <4>2 DEF Cutting, NoImage
    <3>2. CASE image[f] # None
      <4>1. InImage(f) /\ Live(f)' = Live(f)
        BY <1>1, <1>2, <3>2 DEF Cutting, Live
      <4> QED
        BY <1>1, <1>2, <1>3, <1>5, <2>1, <3>2, <4>1, SameDb DEF Cutting, InImage
    <3> QED
      BY <3>1, <3>2
  <2>2. CASE g # f
    BY <1>1, <1>2, <1>3, <2>2, SameCutting
  <2> QED
    BY <2>1, <2>2
<1>8. Erring'
  <2>1. Calm' => ~Errs(f)
    <3> SUFFICES ASSUME Calm' PROVE ~Errs(f)
      OBVIOUS
    <3>1. fpc[f] = "ok" /\ InImage(f)
      BY <1>2, <1>5 DEF Cutting, NoImage
    <3>2. Live(f) = {}
      BY <1>2, <3>1 DEF InImage
    <3> QED
      BY <3>1, <3>2 DEF Errs, Live
  <2>2. \A g \in Fids : g # f /\ Errs(g) => Errs(g)'
    BY <1>1, <1>3 DEF Errs
  <2> QED
    BY <1>1, <1>2, <2>1, <2>2, SameDb DEF Erring
<1> QED
  BY <1>1, <1>4, <1>6, <1>7, <1>8, SameDb DEF FlowInv

LEMMA NextNamespaceFlow ==
  ASSUME FlowInv, NextNamespace
  PROVE  FlowInv'
<1>1. /\ UNCHANGED input
      /\ UNCHANGED <<active, fpc, image, sindex, factive, cpc, faults>>
      /\ main = "search" /\ unread = {} /\ active = 0
      /\ \/ ns < 3 /\ ns' = ns + 1 /\ unread' = In(ns + 1) /\ main' = main
         \/ ns >= 3 /\ main' = "report" /\ ns' = ns /\ unread' = unread
  BY DEF NextNamespace, Searching, files, FlowInv, Types
<1>2. /\ Given /\ Types /\ Queue /\ (\A g \in Fids : Cutting(g)) /\ Erring
      /\ Calm /\ Calm'
  BY <1>1 DEF FlowInv, Calm
<1>3. Busy = {}
  <2>1. IsFiniteSet(Busy)
    BY <1>2, Database, FS_Subset DEF Busy
  <2> QED
    BY <1>1, <1>2, <2>1, FS_EmptySet DEF Queue
<1>4. \A n \in 1 .. 3 : \A g \in In(n) :
        /\ g \in Fids
        /\ n > ns => fpc[g] = "none"
        /\ n <= ns => fpc[g] = "gone"
  <2> SUFFICES ASSUME NEW n \in 1 .. 3, NEW g \in In(n)
               PROVE  /\ g \in Fids
                      /\ n > ns => fpc[g] = "none"
                      /\ n <= ns => fpc[g] = "gone"
    OBVIOUS
  <2>1. g \in Fids /\ (fpc[g] = "none" \/ fpc[g] = "gone")
    BY <1>3 DEF In, Busy
  <2>2. n <= ns => n < ns \/ n = ns
    BY <1>2 DEF Types
  <2> QED
    BY <1>1, <1>2, <2>1, <2>2 DEF Queue
<1>5. Given' /\ Types'
  BY <1>1, <1>2, SameDb DEF Types, Mains
<1>6. Queue'
  <2>1. Busy' = Busy
    BY <1>1, SameDb DEF Busy
  <2>2. \A n \in 1 .. 3 : \A g \in In(n) :
          /\ n > ns' => fpc[g] = "none"
          /\ n < ns' => fpc[g] = "gone"
          /\ n = ns' => (fpc[g] = "none" <=> g \in unread')
    <3>1. CASE ns < 3
      <4>1. \A n \in 1 .. 3 : /\ n > ns' => n > ns
                              /\ n < ns' => n <= ns
                              /\ n = ns' => n > ns /\ unread' = In(n)
        BY <1>1, <1>2, <3>1 DEF Types
      <4> QED
        BY <1>4, <4>1
    <3>2. CASE ns >= 3
      <4>1. ns = 3 /\ ns' = 3 /\ unread' = {}
        BY <1>1, <1>2, <3>2 DEF Types
      <4> QED
        BY <1>4, <4>1
    <3> QED
      BY <1>2, <3>1, <3>2 DEF Types
  <2>3. main' # "search" => \A f \in Fids : fpc[f] = "gone"
    <3> SUFFICES ASSUME main' # "search", NEW f \in Fids PROVE fpc[f] = "gone"
      OBVIOUS
    <3>1. ns >= 3 /\ ns \in 1 .. 3
      BY <1>1, <1>2 DEF Types
    <3>2. PICK n \in 1 .. 3 : f \in In(n)
      BY <1>2, Database
    <3> QED
      BY <1>4, <3>1, <3>2
  <2> QED
    BY <1>1, <1>2, <2>1, <2>2, <2>3, SameDb DEF Queue
<1>7. \A g \in Fids : Cutting(g)'
  BY <1>1, <1>2, SameCutting
<1>8. Erring'
  BY <1>1, <1>2, SameDb DEF Erring, Errs
<1> QED
  BY <1>1, <1>5, <1>6, <1>7, <1>8, SameDb DEF FlowInv

(* Steps of the goroutine of one file that leave its chunks alone.         *)
LEMMA FileMoves ==
  ASSUME FlowInv, NEW f \in Fids, Searching,
         UNCHANGED <<input, main, ns, unread, active, factive, cpc>>,
         fpc[f] \notin {"none", "gone"},
         fpc[f] # "error",
         NEW to \in {"chonks", "ok", "error"}, fpc' = [fpc EXCEPT ![f] = to],
         image' \in [Fids -> Evidence \cup {None}], sindex' \in [Fids -> Nat],
         \A g \in Fids : g # f => image'[g] = image[g] /\ sindex'[g] = sindex[g],
         Cutting(f)',
         \/ faults' = faults
         \/ faults' = faults + 1 /\ to = "error"
  PROVE  FlowInv'
<1>1. /\ Given /\ Types /\ Queue /\ (\A g \in Fids : Cutting(g)) /\ Erring
      /\ Calm /\ Calm' /\ main = "search" /\ main' = "search"
  BY DEF FlowInv, Calm, Searching
<1>2. /\ DOMAIN fpc' = Fids /\ fpc'[f] = to
      /\ \A g \in Fids : g # f => fpc'[g] = fpc[g]
  BY <1>1 DEF Types
<1>3. Given' /\ Types'
  BY <1>1, SameDb DEF Types
<1>4. Queue'
  <2>1. Busy' = Busy
    BY <1>2, SameDb DEF Busy
  <2>2. \A n \in 1 .. 3 : \A g \in In(n) :
          /\ n > ns => fpc'[g] = "none"
          /\ n < ns => fpc'[g] = "gone"
          /\ n = ns => (fpc'[g] = "none" <=> g \in unread)
    <3> SUFFICES ASSUME NEW n \in 1 .. 3, NEW g \in In(n)
                 PROVE  /\ n > ns => fpc'[g] = "none"
                        /\ n < ns => fpc'[g] = "gone"
                        /\ n = ns => (fpc'[g] = "none" <=> g \in unread)
      OBVIOUS
    <3>1. g \in Fids
      BY DEF In
    <3>2. CASE g = f
      BY <1>1, <1>2, <3>2 DEF Queue
    <3>3. CASE g # f
      BY <1>1, <1>2, <3>1, <3>3 DEF Queue
    <3> QED
      BY <3>2, <3>3
  <2> QED
    BY <1>1, <2>1, <2>2, SameDb DEF Queue
<1>5. \A g \in Fids : Cutting(g)'
  BY <1>1, <1>2, SameCutting
<1>6. Erring'
  <2>1. faults' > 0 => \E g \in Fids : Errs(g)'
    <3>1. CASE faults' = faults + 1 /\ to = "error"
      BY <1>2, <3>1 DEF Errs
    <3>2. CASE faults' = faults /\ faults > 0
      <4>1. PICK g \in Fids : Errs(g)
        BY <1>1, <3>2 DEF Erring
      <4>2. Errs(g)'
        BY <1>2, <4>1 DEF Errs
      <4> QED
        BY <4>2
    <3> QED
      BY <3>1, <3>2
  <2>2. faults > 0 => faults' > 0
    BY <1>1 DEF Types
  <2> QED
    BY <1>1, <2>1, <2>2, SameDb DEF Erring
<1> QED
  BY <1>3, <1>4, <1>5, <1>6, SameDb DEF FlowInv

LEMMA GetFileMetaFlow ==
  ASSUME FlowInv, NEW f \in Fids, GetFileMeta(f) \/ FileMetaFails(f)
  PROVE  FlowInv'
<1>1. Given /\ Types /\ Cutting(f)
  BY DEF FlowInv
<1>2. /\ Searching /\ fpc[f] = "meta"
      /\ UNCHANGED <<input, main, ns, unread, active, factive, cpc>>
  BY DEF GetFileMeta, FileMetaFails, FilePart
<1>3. NoImage(f) /\ image[f] = None
  BY <1>1, <1>2 DEF Cutting, InImage
<1>4. CASE FileMetaFails(f) \/ (GetFileMeta(f) /\ fpc' = [fpc EXCEPT ![f] = "error"]
                                  /\ image' = image)
  <2>1. /\ image' = image /\ fpc' = [fpc EXCEPT ![f] = "error"]
        /\ faults' \in {faults, faults + 1}
    BY <1>4 DEF FileMetaFails, GetFileMeta, Fault
  <2>2. /\ sindex' \in [Fids -> Nat]
        /\ \A g \in Fids : g # f => sindex'[g] = sindex[g]
    <3>1. Dbstart(f) \in Nat
      BY <1>1, FileStarts, OffsetTypes
    <3> QED
      BY <1>1, <1>4, <3>1 DEF FileMetaFails, GetFileMeta, Types
  <2>3. fpc'[f] = "error"
    BY <1>1, <2>1 DEF Types
  <2>4. Cutting(f)'
    BY <1>2, <1>3, <2>1, <2>3 DEF Cutting, NoImage
  <2> QED
    BY <1>1, <1>2, <2>1, <2>2, <2>4, FileMoves DEF Types
<1>5. ASSUME NEW e \in EviHashes(f), Completed(e), GetFileMeta(f),
             image' = [image EXCEPT ![f] = e],
             fpc' = [fpc EXCEPT ![f] = "chonks"]
      PROVE  FlowInv'
  <2>1. sindex' = [sindex EXCEPT ![f] = Dbstart(f)] /\ faults' = faults
    BY <1>5 DEF GetFileMeta
  <2>2. e \in Evidence /\ e # None /\ Dbstart(f) \in ChonkOffsets
    BY <1>1, Database, FileStarts DEF Evidence
  <2>3. /\ image'[f] = e /\ image' \in [Fids -> Evidence \cup {None}]
        /\ sindex'[f] = Dbstart(f) /\ sindex' \in [Fids -> Nat]
        /\ fpc'[f] = "chonks"
        /\ \A g \in Fids : g # f => image'[g] = image[g] /\ sindex'[g] = sindex[g]
    BY <1>1, <1>5, <2>1, <2>2, OffsetTypes DEF Types
  <2>4. cpc' = cpc /\ factive' = factive
    BY <1>2
  <2>5. Dbstart(f)' = Dbstart(f) /\ EviHashes(f)' = EviHashes(f)
        /\ Completed(e)' = Completed(e)
    BY <1>2, SameDb
  <2>6. Live(f)' = {} /\ DOMAIN cpc'[f] = {} /\ factive'[f] = 0
    BY <1>3, <2>4 DEF NoImage, Live
  <2>7. Dbstart(f) \in Nat
    BY <2>2, OffsetTypes
  <2>8. {at \in ChonkOffsets : at >= Dbstart(f) /\ at < sindex'[f]} = {}
    <3> SUFFICES ASSUME NEW at \in ChonkOffsets, at >= Dbstart(f), at < sindex'[f]
                 PROVE  FALSE
      OBVIOUS
    <3>1. at \in Nat
      BY OffsetTypes
    <3> QED
      BY <2>3, <2>7, <3>1
  <2>9. IsFiniteSet({}) /\ Cardinality({}) = 0
    BY FS_EmptySet
  <2>10. InImage(f)'
    <3>1. image'[f] \in EviHashes(f)' /\ Completed(image[f])'
      BY <1>5, <2>3, <2>5 DEF Completed
    <3> QED
      BY <2>2, <2>3, <2>5, <2>6, <2>7, <2>8, <2>9, <3>1 DEF InImage
  <2>11. Cutting(f)'
    BY <2>2, <2>3, <2>10 DEF Cutting
  <2> QED
    BY <1>2, <1>5, <2>1, <2>3, <2>11, FileMoves
<1> QED
  BY <1>4, <1>5 DEF GetFileMeta

LEMMA FileSearchedFlow ==
  ASSUME FlowInv, NEW f \in Fids, FileSearched(f)
  PROVE  FlowInv'
<1>1. Given /\ Types /\ Cutting(f)
  BY DEF FlowInv
<1>2. /\ Searching /\ fpc[f] = "chonks" /\ sindex[f] >= End(f) /\ factive[f] = 0
      /\ fpc' = [fpc EXCEPT ![f] = "ok"]
      /\ UNCHANGED <<input, main, ns, unread, active, image, sindex, factive,
                     cpc, faults>>
  BY DEF FileSearched, FilePart
<1>3. InImage(f) /\ image[f] # None
  BY <1>1, <1>2 DEF Cutting, NoImage
<1>4. Live(f) = {}
  <2>1. IsFiniteSet(Live(f)) /\ Cardinality(Live(f)) = 0
    BY <1>2, <1>3, FS_Subset DEF InImage, Live
  <2> QED
    BY <2>1, FS_EmptySet
<1>5. Live(f)' = Live(f) /\ fpc'[f] = "ok"
  BY <1>1, <1>2 DEF Live, Types
<1>6. InImage(f)'
  BY <1>2, <1>3, <1>4, <1>5, SameDb DEF InImage
<1>7. Cutting(f)'
  BY <1>2, <1>3, <1>6 DEF Cutting
<1> QED
  BY <1>1, <1>2, <1>7, FileMoves DEF Types

(* Steps of the chunks of one file.                                        *)
LEMMA ChonkMoves ==
  ASSUME FlowInv, NEW f \in Fids, Searching,
         UNCHANGED <<input, main, ns, unread, active, image>>,
         fpc' = fpc \/ (fpc[f] = "chonks" /\ fpc' = [fpc EXCEPT ![f] = "error"]),
         cpc' \in [Fids -> Tasks], sindex' \in [Fids -> Nat],
         factive' \in [Fids -> Int],
         \A g \in Fids : g # f =>
           /\ cpc'[g] = cpc[g] /\ sindex'[g] = sindex[g]
           /\ factive'[g] = factive[g],
         Cutting(f)',
         Errs(f) => Errs(f)',
         faults' = faults \/ (faults' = faults + 1 /\ Errs(f)'),
         \A at \in DOMAIN cpc'[f] : cpc'[f][at].at = "error" => faults' > 0
  PROVE  FlowInv'
<1>1. /\ Given /\ Types /\ Queue /\ (\A g \in Fids : Cutting(g)) /\ Erring
      /\ Calm /\ Calm' /\ main = "search" /\ main' = "search"
  BY DEF FlowInv, Calm, Searching
<1>2. /\ \A g \in Fids : g # f => fpc'[g] = fpc[g]
      /\ fpc'[f] = fpc[f] \/ (fpc[f] = "chonks" /\ fpc'[f] = "error")
      /\ fpc' \in [Fids -> {"none", "meta", "chonks", "ok", "error", "gone"}]
  BY <1>1 DEF Types
<1>3. Given' /\ Types'
  BY <1>1, <1>2, SameDb DEF Types
<1>4. Queue'
  <2>1. Busy' = Busy
    BY <1>2, SameDb DEF Busy
  <2>2. \A g \in Fids : /\ fpc'[g] = "none" <=> fpc[g] = "none"
                        /\ fpc'[g] = "gone" <=> fpc[g] = "gone"
    BY <1>2
  <2>3. \A n \in 1 .. 3 : \A g \in In(n) : g \in Fids
    BY DEF In
  <2> QED
    BY <1>1, <2>1, <2>2, <2>3, SameDb DEF Queue
<1>5. \A g \in Fids : Cutting(g)'
  BY <1>1, <1>2, SameCutting
<1>6. Erring'
  <2>1. faults' > 0 => \E g \in Fids : Errs(g)'
    <3>1. CASE faults' = faults + 1 /\ Errs(f)'
      BY <3>1
    <3>2. CASE faults' = faults /\ faults > 0
      <4>1. PICK g \in Fids : Errs(g)
        BY <1>1, <3>2 DEF Erring
      <4>2. g # f => Errs(g)'
        BY <1>2, <4>1 DEF Errs
      <4> QED
        BY <4>1, <4>2
    <3> QED
      BY <3>1, <3>2
  <2>2. faults > 0 => faults' > 0
    BY <1>1 DEF Types
  <2>3. \A g \in Fids : \A at \in DOMAIN cpc'[g] :
          cpc'[g][at].at = "error" => faults' > 0
    BY <1>1, <2>2 DEF Erring
  <2> QED
    BY <2>1, <2>3, SameDb DEF Erring
<1> QED
  BY <1>3, <1>4, <1>5, <1>6, SameDb DEF FlowInv

LEMMA SpawnChonkFlow ==
  ASSUME FlowInv, NEW f \in Fids, SpawnChonk(f)
  PROVE  FlowInv'
<1>1. Given /\ Types /\ Cutting(f) /\ Erring
  BY DEF FlowInv
<1> DEFINE s == sindex[f]
           new == [at |-> "read", count |-> 0]
<1>2. /\ Searching /\ fpc[f] = "chonks" /\ s < End(f)
      /\ cpc' = [cpc EXCEPT ![f] = With(cpc[f], s, new)]
      /\ sindex' = [sindex EXCEPT ![f] = s + ChonkSize]
      /\ factive' = [factive EXCEPT ![f] = factive[f] + 1]
      /\ UNCHANGED <<input, main, ns, unread, active, fpc, image, faults>>
  BY DEF SpawnChonk, FilePart
<1>3. InImage(f) /\ image[f] # None
  BY <1>1, <1>2 DEF Cutting, NoImage
<1>4. /\ s \in ChonkOffsets /\ s \in Nat /\ s >= Dbstart(f)
      /\ Dbstart(f) \in Nat /\ ChonkSize \in Nat /\ ChonkSize > 0
      /\ s + ChonkSize \in ChonkOffsets
  BY <1>1, <1>3, FileStarts, OffsetTypes DEF InImage
<1>5. s \notin DOMAIN cpc[f]
  BY <1>3, <1>4 DEF InImage
<1>6. new \in Task /\ new.at = "read"
  BY DEF Task
<1>7. cpc[f] \in Tasks
  BY <1>1 DEF Types
<1> HIDE DEF new
<1>8. PICK m : m = With(cpc[f], s, new)
  OBVIOUS
<1>9. /\ DOMAIN m = DOMAIN cpc[f] \cup {s} /\ m[s] = new
      /\ \A at \in DOMAIN cpc[f] : m[at] = cpc[f][at]
      /\ m \in [DOMAIN m -> Task]
  BY <1>5, <1>6, <1>7, <1>8, TaskMaps DEF With
<1>10. m \in Tasks
  BY <1>4, <1>7, <1>9, TaskMaps
<1>11. /\ cpc' \in [Fids -> Tasks] /\ cpc'[f] = m
       /\ sindex' \in [Fids -> Nat] /\ sindex'[f] = s + ChonkSize
       /\ factive' \in [Fids -> Int] /\ factive'[f] = factive[f] + 1
       /\ \A g \in Fids : g # f =>
            /\ cpc'[g] = cpc[g] /\ sindex'[g] = sindex[g]
            /\ factive'[g] = factive[g]
  BY <1>1, <1>2, <1>4, <1>8, <1>10 DEF Types
<1>12. DOMAIN m =
         {at \in ChonkOffsets : at >= Dbstart(f) /\ at < s + ChonkSize}
  <2>1. ASSUME NEW at \in ChonkOffsets, at >= Dbstart(f), at < s + ChonkSize
        PROVE  at \in DOMAIN m
    <3>1. at \in Nat
      BY OffsetTypes
    <3>2. ~(s < at)
      BY <1>4, <2>1, <3>1, OffsetsApart
    <3>3. at = s \/ at < s
      BY <1>4, <3>1, <3>2
    <3> QED
      BY <1>3, <1>9, <2>1, <3>3 DEF InImage
  <2>2. ASSUME NEW at \in DOMAIN m
        PROVE  /\ at \in ChonkOffsets /\ at >= Dbstart(f)
               /\ at < s + ChonkSize
    <3>1. CASE at = s
      BY <1>4, <3>1
    <3>2. CASE at \in DOMAIN cpc[f]
      <4>1. /\ at \in ChonkOffsets /\ at \in Nat /\ at >= Dbstart(f)
            /\ at < s
        BY <1>3, <3>2, OffsetTypes DEF InImage
      <4> QED
        BY <1>4, <4>1
    <3> QED
      BY <1>9, <3>1, <3>2
  <2> QED
    BY <2>1, <2>2
<1>13. Live(f)' = Live(f) \cup {s} /\ s \notin Live(f)
  BY <1>5, <1>6, <1>9, <1>11 DEF Live
<1>14. IsFiniteSet(DOMAIN m)
  BY <1>3, <1>9, FS_AddElement DEF InImage
<1>15. factive'[f] = Cardinality(Live(f)')
  <2>1. IsFiniteSet(Live(f)) /\ factive[f] = Cardinality(Live(f))
    BY <1>2, <1>3, FS_Subset DEF InImage, Live
  <2> QED
    BY <1>11, <1>13, <2>1, FS_AddElement
<1>16. InImage(f)'
  <2>1. \A at \in DOMAIN m : at < End(f)
    BY <1>2, <1>3, <1>9 DEF InImage
  <2>2. s + ChonkSize >= Dbstart(f)
    BY <1>4
  <2> QED
    BY <1>2, <1>3, <1>4, <1>11, <1>12, <1>14, <1>15, <2>1, <2>2, SameDb
       DEF InImage
<1>17. Cutting(f)'
  BY <1>2, <1>3, <1>16 DEF Cutting
<1>18. Errs(f) => Errs(f)'
  BY <1>2, <1>9, <1>11 DEF Errs
<1>19. \A at \in DOMAIN cpc'[f] : cpc'[f][at].at = "error" => faults' > 0
  BY <1>1, <1>2, <1>6, <1>9, <1>11 DEF Erring
<1> QED
  BY <1>2, <1>11, <1>17, <1>18, <1>19, ChonkMoves

(* One goroutine of a chunk goes on.                                       *)
LEMMA SetTask ==
  ASSUME cpc \in [Fids -> Tasks], NEW f \in Fids, NEW at \in DOMAIN cpc[f],
         NEW t \in Task,
         cpc' = [cpc EXCEPT ![f] = [cpc[f] EXCEPT ![at] = t]]
  PROVE  /\ cpc' \in [Fids -> Tasks] /\ DOMAIN cpc'[f] = DOMAIN cpc[f]
         /\ cpc'[f][at] = t
         /\ \A to \in DOMAIN cpc[f] : to # at => cpc'[f][to] = cpc[f][to]
         /\ \A g \in Fids : g # f => cpc'[g] = cpc[g]
         /\ cpc[f][at] \in Task
<1>1. DOMAIN cpc[f] \subseteq Nat /\ cpc[f] \in [DOMAIN cpc[f] -> Task]
  BY TaskMaps
<1>2. PICK m : m = [cpc[f] EXCEPT ![at] = t]
  OBVIOUS
<1>3. /\ DOMAIN m = DOMAIN cpc[f] /\ m \in [DOMAIN m -> Task] /\ m[at] = t
      /\ \A to \in DOMAIN cpc[f] : to # at => m[to] = cpc[f][to]
  BY <1>1, <1>2
<1>4. m \in Tasks
  BY <1>1, <1>3, TaskMaps
<1> QED
  BY <1>1, <1>2, <1>3, <1>4

(* A goroutine of a chunk that is not heard of yet.                        *)
LEMMA TaskMoves ==
  ASSUME FlowInv, NEW f \in Fids, NEW at \in DOMAIN cpc[f], NEW t \in Task,
         UNCHANGED flow,
         Searching, cpc[f][at].at \notin {"error", "gone"},
         cpc' = [cpc EXCEPT ![f] = [cpc[f] EXCEPT ![at] = t]],
         t.at # "gone",
         \/ faults' = faults /\ t.at # "error"
         \/ faults' = faults + 1 /\ t.at = "error"
  PROVE  FlowInv'
<1>1. Given /\ Types /\ Cutting(f) /\ Erring
  BY DEF FlowInv
<1>2. UNCHANGED <<input, main, ns, unread, active, fpc, image, sindex, factive>>
  BY DEF flow, files
<1>3. /\ cpc' \in [Fids -> Tasks] /\ DOMAIN cpc'[f] = DOMAIN cpc[f]
      /\ cpc'[f][at] = t
      /\ \A to \in DOMAIN cpc[f] : to # at => cpc'[f][to] = cpc[f][to]
      /\ \A g \in Fids : g # f => cpc'[g] = cpc[g]
  BY <1>1, SetTask DEF Types
<1>4. InImage(f) /\ image[f] # None
  BY <1>1 DEF Cutting, NoImage
<1>5. Live(f)' = Live(f)
  BY <1>3 DEF Live
<1>6. InImage(f)'
  BY <1>2, <1>3, <1>4, <1>5, SameDb DEF InImage, Calm
<1>7. Cutting(f)'
  BY <1>2, <1>4, <1>6 DEF Cutting
<1>8. Errs(f) => Errs(f)'
  BY <1>2, <1>3 DEF Errs
<1>9. t.at = "error" => Errs(f)'
  BY <1>3 DEF Errs
<1>10. faults' \in {faults, faults + 1} /\ faults \in Nat
  BY <1>1 DEF Types
<1>11. \A to \in DOMAIN cpc'[f] : cpc'[f][to].at = "error" => faults' > 0
  BY <1>1, <1>3, <1>10 DEF Erring
<1> QED
  BY <1>1, <1>2, <1>3, <1>7, <1>8, <1>9, <1>11, ChonkMoves DEF Types

LEMMA CollectSets ==
  ASSUME cpc \in [Fids -> Tasks], NEW f \in Fids, NEW at \in DOMAIN cpc[f],
         CollectChonk(f, at)
  PROVE  \E t \in Task :
           t.at = "gone" /\ cpc' = [cpc EXCEPT ![f] = [cpc[f] EXCEPT ![at] = t]]
<1> DEFINE t == [cpc[f][at] EXCEPT !.at = "gone"]
<1>1. cpc[f][at] \in Task
  BY TaskMaps
<1>2. t \in Task /\ t.at = "gone"
  BY <1>1 DEF Task
<1>3. cpc' = [cpc EXCEPT ![f] = [cpc[f] EXCEPT ![at] = t]]
  BY DEF CollectChonk, Goto
<1> HIDE DEF t
<1> QED
  BY <1>2, <1>3

LEMMA CollectChonkFlow ==
  ASSUME FlowInv, NEW f \in Fids, NEW at \in DOMAIN cpc[f], CollectChonk(f, at)
  PROVE  FlowInv'
<1>1. Given /\ Types /\ Cutting(f) /\ Erring
  BY DEF FlowInv
<1>2. /\ Searching /\ fpc[f] = "chonks" /\ cpc[f][at].at \in {"ok", "error"}
      /\ UNCHANGED <<input, main, ns, unread, active, image, sindex, faults>>
      /\ \/ /\ cpc[f][at].at = "ok" /\ fpc' = fpc
            /\ factive' = [factive EXCEPT ![f] = factive[f] - 1]
         \/ /\ cpc[f][at].at = "error" /\ factive' = factive
            /\ fpc' = [fpc EXCEPT ![f] = "error"]
  BY DEF CollectChonk, FilePart
<1>3. PICK t \in Task :
        t.at = "gone" /\ cpc' = [cpc EXCEPT ![f] = [cpc[f] EXCEPT ![at] = t]]
  BY <1>1, CollectSets DEF Types
<1>4. /\ cpc' \in [Fids -> Tasks] /\ DOMAIN cpc'[f] = DOMAIN cpc[f]
      /\ cpc'[f][at].at = "gone"
      /\ \A to \in DOMAIN cpc[f] : to # at => cpc'[f][to] = cpc[f][to]
      /\ \A g \in Fids : g # f => cpc'[g] = cpc[g]
  BY <1>1, <1>3, SetTask DEF Types
<1>5. InImage(f) /\ image[f] # None
  BY <1>1, <1>2 DEF Cutting, NoImage
<1>6. Live(f)' = Live(f) \ {at} /\ at \in Live(f)
  BY <1>2, <1>4 DEF Live
<1>7. factive' \in [Fids -> Int] /\ \A g \in Fids : g # f => factive'[g] = factive[g]
  BY <1>1, <1>2 DEF Types
<1>8. fpc'[f] = "chonks" => factive'[f] = Cardinality(Live(f)')
  <2>1. IsFiniteSet(Live(f)) /\ factive[f] = Cardinality(Live(f))
    BY <1>2, <1>5, FS_Subset DEF InImage, Live
  <2>2. fpc'[f] = "chonks" => factive'[f] = factive[f] - 1
    BY <1>1, <1>2 DEF Types
  <2> QED
    BY <1>6, <2>1, <2>2, FS_RemoveElement
<1>9. fpc'[f] \in {"chonks", "error"}
  BY <1>1, <1>2 DEF Types
<1>10. InImage(f)'
  BY <1>2, <1>4, <1>5, <1>8, <1>9, SameDb DEF InImage
<1>11. Cutting(f)'
  BY <1>2, <1>5, <1>10 DEF Cutting
<1>12. Errs(f) => Errs(f)'
  <2>1. CASE fpc'[f] = "error"
    BY <2>1 DEF Errs
  <2>2. CASE fpc'[f] # "error"
    <3>1. cpc[f][at].at = "ok" /\ fpc'[f] = fpc[f]
      BY <1>1, <1>2, <2>2 DEF Types
    <3> QED
      BY <1>4, <3>1 DEF Errs
  <2> QED
    BY <2>1, <2>2
<1>13. \A to \in DOMAIN cpc'[f] : cpc'[f][to].at = "error" => faults' > 0
  BY <1>1, <1>2, <1>4 DEF Erring
<1> QED
  BY <1>1, <1>2, <1>4, <1>7, <1>11, <1>12, <1>13, ChonkMoves DEF Types

(* What GetChonkData returns of a chunk of the file: what is left of its   *)
(* data from the start of the file on, or more.                            *)
From(f, at) == IF at < Start(f) THEN Start(f) ELSE at
DataEnd(e, at) == IF at + ChonkSize < Len(db.bytes[e]) THEN at + ChonkSize
                                                       ELSE Len(db.bytes[e])
Keeps(f, e, at) ==
  IF Size(f) < DataEnd(e, at) - From(f, at) THEN Size(f)
  ELSE IF at + ChonkSize > End(f) THEN End(f) - at
  ELSE DataEnd(e, at) - From(f, at)

InFile(f, at) ==
  at \in ChonkOffsets /\ at >= Dbstart(f) /\ at < End(f)

LEMMA ChonkNumbers ==
  ASSUME Given, NEW f \in Fids, NEW e \in EviHashes(f), NEW at, InFile(f, at)
  PROVE  /\ at \in Nat /\ ChonkSize \in Nat /\ ChonkSize > 0
         /\ Start(f) \in Nat /\ Size(f) \in Nat /\ End(f) \in Nat
         /\ Dbstart(f) \in Nat /\ End(f) = Start(f) + Size(f)
         /\ Len(db.bytes[e]) \in Nat /\ End(f) <= Len(db.bytes[e])
         /\ at # Dbstart(f) => at > Start(f)
         /\ at = Dbstart(f) => at <= Start(f)
         /\ From(f, at) \in Nat /\ From(f, at) >= at
         /\ DataEnd(e, at) \in Nat /\ From(f, at) <= DataEnd(e, at)
         /\ Keeps(f, e, at) \in Nat
<1>1. /\ at \in Nat /\ ChonkSize \in Nat /\ ChonkSize > 0
      /\ Start(f) \in Nat /\ Size(f) \in Nat /\ End(f) \in Nat
      /\ Dbstart(f) \in ChonkOffsets /\ Dbstart(f) \in Nat
      /\ Dbstart(f) <= Start(f) /\ Start(f) < Dbstart(f) + ChonkSize
      /\ IsSeq(db.bytes[e]) /\ End(f) <= Len(db.bytes[e])
  BY Database, FileStarts, OffsetTypes DEF InFile
<1>2. Len(db.bytes[e]) \in Nat /\ End(f) = Start(f) + Size(f)
  BY <1>1 DEF IsSeq, End
<1>3. at # Dbstart(f) => at >= Dbstart(f) + ChonkSize
  BY <1>1, OffsetsApart DEF InFile
<1>4. at # Dbstart(f) => at > Start(f)
  BY <1>1, <1>3
<1>5. From(f, at) \in Nat /\ From(f, at) >= at
  BY <1>1 DEF From
<1>6. DataEnd(e, at) \in Nat /\ From(f, at) <= DataEnd(e, at)
  BY <1>1, <1>2, <1>4 DEF DataEnd, From, InFile
<1>7. Keeps(f, e, at) \in Nat
  BY <1>1, <1>2, <1>5, <1>6 DEF Keeps, InFile
<1> QED
  BY <1>1, <1>2, <1>4, <1>5, <1>6, <1>7

LEMMA FromStartIs ==
  ASSUME Given, NEW f \in Fids, NEW e \in EviHashes(f), NEW at, InFile(f, at)
  PROVE  Cut(f, e, at)!FromStart =
           [k \in 1 .. DataEnd(e, at) - From(f, at) |-> From(f, at) + k - 1]
<1> DEFINE data == Cut(f, e, at)!ChonkNode(at)
           n == DataEnd(e, at) - at
<1>1. data = [k \in 1 .. n |-> at + k - 1]
  BY DEF Cut!ChonkNode, Cut!Bytes, Cut!ChonkEnd, DataEnd
<1>2. n \in Nat
  BY ChonkNumbers
<1>3. Len(data) = n /\ data \in Seq(Int)
  BY <1>1, <1>2, ChonkNumbers
<1>4. Cut(f, e, at)!dbstart = Dbstart(f)
  BY DEF Cut!dbstart, Dbstart, Cut!GetDBStartOffset
<1>5. Cut(f, e, at)!FromStart =
        IF at = Dbstart(f) THEN SubSeq(data, Start(f) - at + 1, Len(data))
                           ELSE data
  BY <1>4 DEF Cut!FromStart
<1> HIDE DEF data
<1>6. CASE at # Dbstart(f)
  BY <1>1, <1>5, <1>6, ChonkNumbers DEF From
<1>7. CASE at = Dbstart(f)
  <2> DEFINE d == Start(f) - at
  <2>1. d \in Nat /\ d <= n /\ From(f, at) = at + d
    BY <1>7, ChonkNumbers DEF From
  <2>2. SubSeq(data, d + 1, n) = [k \in 1 .. n - d |-> at + d + k - 1]
    <3> HIDE DEF d, n
    <3>1. SubSeq(data, d + 1, n) = [k \in 1 .. n - d |-> data[d + k]]
      BY <1>2, <1>3, <2>1
    <3>2. \A k \in 1 .. n - d : data[d + k] = at + d + k - 1
      BY <1>1, <1>2, <2>1, ChonkNumbers
    <3> QED
      BY <3>1, <3>2
  <2>3. DataEnd(e, at) - From(f, at) = n - d
    BY <2>1, ChonkNumbers
  <2> QED
    BY <1>3, <1>5, <1>7, <2>1, <2>2, <2>3
<1> QED
  BY <1>6, <1>7

LEMMA ChonkDataIs ==
  ASSUME Given, NEW f \in Fids, NEW e \in EviHashes(f), NEW at, InFile(f, at)
  PROVE  /\ Cut(f, e, at)!GetChonkData \in Seq(Int \cup {Junk})
         /\ Keeps(f, e, at) <= DataEnd(e, at) - From(f, at) =>
              Cut(f, e, at)!GetChonkData =
                [k \in 1 .. Keeps(f, e, at) |-> From(f, at) + k - 1]
<1> DEFINE from == Cut(f, e, at)!FromStart
           n == DataEnd(e, at) - From(f, at)
<1>1. from = [k \in 1 .. n |-> From(f, at) + k - 1]
  BY FromStartIs
<1>2. n \in Nat /\ From(f, at) \in Nat /\ Keeps(f, e, at) \in Nat
  BY ChonkNumbers
<1>3. from \in Seq(Int) /\ Len(from) = n
  <2> HIDE DEF from, n
  <2> QED
    BY <1>1, <1>2
<1>4. Cut(f, e, at)!Kept = Keeps(f, e, at)
  BY <1>3 DEF Cut!Kept, Keeps, Cut!end, End
<1>5. Cut(f, e, at)!GetChonkData =
        IF Keeps(f, e, at) <= n THEN SubSeq(from, 1, Keeps(f, e, at))
        ELSE from \o [k \in 1 .. Keeps(f, e, at) - n |-> Junk]
  BY <1>3, <1>4 DEF Cut!GetChonkData, Cut!WithinSlice
<1> HIDE DEF from, n
<1>6. CASE Keeps(f, e, at) <= n
  <2>1. SubSeq(from, 1, Keeps(f, e, at)) =
          [k \in 1 .. Keeps(f, e, at) |-> From(f, at) + k - 1]
    BY <1>1, <1>2, <1>3, <1>6
  <2>2. [k \in 1 .. Keeps(f, e, at) |-> From(f, at) + k - 1]
          \in Seq(Int \cup {Junk})
    BY <1>2
  <2> QED
    BY <1>5, <1>6, <2>1, <2>2
<1>7. CASE ~(Keeps(f, e, at) <= n)
  <2>1. from \in Seq(Int \cup {Junk})
    BY <1>1, <1>2
  <2>2. [k \in 1 .. Keeps(f, e, at) - n |-> Junk] \in Seq(Int \cup {Junk})
    BY <1>2, <1>7
  <2>3. from \o [k \in 1 .. Keeps(f, e, at) - n |-> Junk]
          \in Seq(Int \cup {Junk})
    BY <2>1, <2>2
  <2> QED
    BY <1>5, <1>7, <2>3 DEF n
<1> QED
  BY <1>6, <1>7 DEF n

LEMMA StateSeq ==
  ASSUME Given, NEW f \in Fids, NEW e \in EviHashes(f), NEW at, InFile(f, at)
  PROVE  /\ \E S : State(f, e, at) \in Seq(S)
         /\ Len(State(f, e, at)) \in Nat
<1> DEFINE offsets == Cut(f, e, at)!GetChonkData
           S == {State(f, e, at)[k] : k \in DOMAIN State(f, e, at)}
<1>1. offsets \in Seq(Int \cup {Junk})
  BY ChonkDataIs
<1>2. PICK n \in Nat : DOMAIN offsets = 1 .. n
  BY <1>1
<1>3. State(f, e, at) =
        [k \in 1 .. n |-> IF offsets[k] = Junk THEN Junk
                          ELSE db.bytes[e][offsets[k] + 1]]
  BY <1>2 DEF State
<1>4. State(f, e, at) \in [1 .. n -> S]
  BY <1>3
<1>5. State(f, e, at) \in Seq(S)
  <2> HIDE DEF S
  <2> QED
    BY <1>2, <1>4
<1>6. Len(State(f, e, at)) \in Nat
  <2> HIDE DEF S
  <2> QED
    BY <1>5
<1> QED
  BY <1>5, <1>6

(* A count is the number of places where the query starts.                 *)
LEMMA CountNat ==
  ASSUME Given, NEW data, Len(data) \in Nat
  PROVE  Count(data) \in Nat
<1>1. Len(query) \in Nat
  BY QueriesAssumption DEF Given, IsSeq
<1>2. IsFiniteSet(1 .. Len(data) - Len(query) + 1)
  <2>1. 1 \in Int /\ Len(data) - Len(query) + 1 \in Int
    BY <1>1
  <2> QED
    BY <2>1, FS_Interval
<1>3. IsFiniteSet({k \in 1 .. Len(data) - Len(query) + 1 :
                     SubSeq(data, k, k + Len(query) - 1) = query})
  BY <1>2, FS_Subset
<1> QED
  BY <1>3, FS_CardinalityType DEF Count

(* The goroutine of a chunk has its evidence file and a chunk of the file. *)
LEMMA ChonkOfFile ==
  ASSUME FlowInv, NEW f \in Fids, NEW at \in DOMAIN cpc[f]
  PROVE  /\ Given /\ image[f] \in EviHashes(f) /\ image[f] # None
         /\ InFile(f, at) /\ InImage(f)
BY DEF FlowInv, Cutting, NoImage, InImage, InFile

(* A step of the goroutine of a chunk, with what it becomes.               *)
Becomes(f, at, t) ==
  /\ UNCHANGED flow /\ Searching /\ t \in Task
  /\ cpc' = [cpc EXCEPT ![f] = [cpc[f] EXCEPT ![at] = t]]

LEMMA GotoBecomes ==
  ASSUME FlowInv, NEW f \in Fids, NEW at \in DOMAIN cpc[f],
         NEW l \in {"read", "set", "overlap", "ok", "error", "gone"},
         UNCHANGED flow, Searching, Goto(f, at, l)
  PROVE  Becomes(f, at, [cpc[f][at] EXCEPT !.at = l])
         /\ [cpc[f][at] EXCEPT !.at = l].at = l
<1>1. cpc \in [Fids -> Tasks]
  BY DEF FlowInv, Types
<1>2. cpc[f][at] \in Task
  BY <1>1, TaskMaps
<1> DEFINE t == [cpc[f][at] EXCEPT !.at = l]
<1>3. t \in Task /\ t.at = l
        /\ cpc' = [cpc EXCEPT ![f] = [cpc[f] EXCEPT ![at] = t]]
  BY <1>2 DEF Goto, Task
<1> HIDE DEF t
<1>4. Becomes(f, at, t) /\ t.at = l
  BY <1>3 DEF Becomes
<1> QED
  BY <1>4 DEF t

LEMMA BecomesFlow ==
  ASSUME FlowInv, NEW f \in Fids, NEW at \in DOMAIN cpc[f], NEW t,
         Becomes(f, at, t),
         cpc[f][at].at \notin {"error", "gone"}, t.at # "gone",
         \/ faults' = faults /\ t.at # "error"
         \/ faults' = faults + 1 /\ t.at = "error"
  PROVE  FlowInv'
BY TaskMoves DEF Becomes

LEMMA CountChonkBecomes ==
  ASSUME FlowInv, NEW f \in Fids, NEW at \in DOMAIN cpc[f], CountChonk(f, at)
  PROVE  Becomes(f, at, [at |-> "set",
                         count |-> Count(State(f, image[f], at))])
<1>1. Count(State(f, image[f], at)) \in Nat
  BY ChonkOfFile, StateSeq, CountNat
<1>2. [at |-> "set", count |-> Count(State(f, image[f], at))] \in Task
  BY <1>1 DEF Task
<1> QED
  BY <1>2 DEF Becomes, CountChonk, ChonkAt

(* What happens to a chunk in a step of its goroutine.                     *)
LEMMA ChonkFlow ==
  ASSUME FlowInv, NEW f \in Fids, NEW at \in DOMAIN cpc[f],
         \/ CountCached(f, at) \/ CountChonk(f, at) \/ SetCount(f, at)
         \/ NoOverlap(f, at) \/ SearchOverlap(f, at) \/ ChonkFails(f, at)
  PROVE  FlowInv'
<1>1. CASE CountCached(f, at) \/ SetCount(f, at)
  <2>1. /\ UNCHANGED flow /\ Searching /\ Goto(f, at, "overlap")
        /\ cpc[f][at].at \notin {"error", "gone"} /\ faults' = faults
    BY <1>1 DEF CountCached, SetCount, ChonkAt
  <2>2. PICK t : t = [cpc[f][at] EXCEPT !.at = "overlap"]
    OBVIOUS
  <2>3. Becomes(f, at, t) /\ t.at = "overlap"
    BY <2>1, <2>2, GotoBecomes
  <2> QED
    BY <2>1, <2>3, BecomesFlow
<1>2. CASE NoOverlap(f, at) \/ SearchOverlap(f, at)
  <2>1. /\ UNCHANGED flow /\ Searching /\ Goto(f, at, "ok")
        /\ cpc[f][at].at \notin {"error", "gone"} /\ faults' = faults
    BY <1>2 DEF NoOverlap, SearchOverlap, ChonkAt
  <2>2. PICK t : t = [cpc[f][at] EXCEPT !.at = "ok"]
    OBVIOUS
  <2>3. Becomes(f, at, t) /\ t.at = "ok"
    BY <2>1, <2>2, GotoBecomes
  <2> QED
    BY <2>1, <2>3, BecomesFlow
<1>3. CASE ChonkFails(f, at)
  <2>1. /\ UNCHANGED flow /\ Searching /\ Goto(f, at, "error")
        /\ cpc[f][at].at \notin {"error", "gone"} /\ faults' = faults + 1
    BY <1>3 DEF ChonkFails, ChonkAt, Fault
  <2>2. PICK t : t = [cpc[f][at] EXCEPT !.at = "error"]
    OBVIOUS
  <2>3. Becomes(f, at, t) /\ t.at = "error"
    BY <2>1, <2>2, GotoBecomes
  <2> QED
    BY <2>1, <2>3, BecomesFlow
<1>4. CASE CountChonk(f, at)
  <2> DEFINE t == [at |-> "set", count |-> Count(State(f, image[f], at))]
  <2>1. Becomes(f, at, t) /\ t.at = "set"
    BY <1>4, CountChonkBecomes
  <2>2. cpc[f][at].at \notin {"error", "gone"} /\ faults' = faults
    BY <1>4 DEF CountChonk, ChonkAt
  <2> HIDE DEF t
  <2> QED
    BY <2>1, <2>2, BecomesFlow
<1> QED
  BY <1>1, <1>2, <1>3, <1>4

LEMMA FlowStep == FlowInv /\ [Next]_vars => FlowInv'
<1> SUFFICES ASSUME FlowInv, [Next]_vars PROVE FlowInv'
  OBVIOUS
<1>1. CASE UNCHANGED vars
  BY <1>1, MainMoves DEF vars
<1>2. CASE NextNamespace
  BY <1>2, NextNamespaceFlow
<1>3. ASSUME NEW f \in Fids,
             \/ SpawnFile(f) \/ CollectFile(f)
             \/ GetFileMeta(f) \/ FileMetaFails(f)
             \/ SpawnChonk(f) \/ FileSearched(f)
      PROVE  FlowInv'
  BY <1>3, SpawnFileFlow, CollectFileFlow, GetFileMetaFlow, SpawnChonkFlow,
     FileSearchedFlow
<1>4. ASSUME NEW f \in Fids, NEW at \in DOMAIN cpc[f],
             \/ CollectChonk(f, at)
             \/ CountCached(f, at) \/ CountChonk(f, at) \/ SetCount(f, at)
             \/ NoOverlap(f, at) \/ SearchOverlap(f, at) \/ ChonkFails(f, at)
      PROVE  FlowInv'
  BY <1>4, CollectChonkFlow, ChonkFlow
<1>5. ASSUME NEW f, NEW at, ChonkPanics(f, at)
      PROVE  FlowInv'
  BY <1>5, MainMoves DEF ChonkPanics
<1>6. CASE ReportStep
  <2>1. CASE ReportFails
    BY <2>1, MainMoves DEF ReportFails, Fault
  <2>2. CASE WriteReport
    BY <2>2, MainMoves DEF WriteReport, reading, Writing
  <2>3. CASE EndArtefact
    BY <2>3, MainMoves DEF EndArtefact, reading
  <2>4. ASSUME NEW f, ReportArtefact(f) \/ ReportName(f) PROVE FlowInv'
    BY <2>4, MainMoves DEF ReportArtefact, ReportName, reading
  <2> QED
    BY <1>6, <2>1, <2>2, <2>3, <2>4 DEF ReportStep
<1> QED
  BY <1>1, <1>2, <1>3, <1>4, <1>5, <1>6 DEF Next, SearchStep

THEOREM FlowInvariance == Spec => []FlowInv
<1>1. Init => FlowInv
  BY FlowInit
<1>2. FlowInv /\ [Next]_vars => FlowInv'
  BY FlowStep
<1> QED
  BY <1>1, <1>2, PTL DEF Spec

(* A report is written when all goroutines are heard of and none failed.   *)
LEMMA SearchedAll == FlowInv => ReportOfEverything
<1> SUFFICES ASSUME FlowInv, main \in {"report", "done"}
             PROVE  /\ faults = 0
                    /\ \A f \in Fids :
                         /\ fpc[f] = "gone" /\ Completed(image[f])
                         /\ sindex[f] >= End(f)
                         /\ \A at \in DOMAIN cpc[f] : cpc[f][at].at = "gone"
  BY DEF ReportOfEverything
<1>1. Calm
  BY DEF Calm
<1>2. \A f \in Fids : fpc[f] = "gone"
  BY <1>1 DEF FlowInv, Queue
<1>3. \A f \in Fids : InImage(f)
  BY <1>1, <1>2 DEF FlowInv, Cutting, NoImage
<1>4. \A f \in Fids : \A at \in DOMAIN cpc[f] : cpc[f][at].at = "gone"
  BY <1>1, <1>2, <1>3 DEF InImage, Live
<1>5. \A f \in Fids : ~Errs(f)
  BY <1>2, <1>4 DEF Errs
<1>6. faults = 0
  BY <1>1, <1>5 DEF FlowInv, Types, Erring
<1> QED
  BY <1>1, <1>2, <1>3, <1>4, <1>6 DEF InImage

THEOREM EverythingIsSearched == Spec => []ReportOfEverything
BY SearchedAll, FlowInvariance, PTL

-----------------------------------------------------------------------------
(* The report.                                                             *)

LEMMA AppendIs ==
  ASSUME NEW r, IsSeq(r), NEW x
  PROVE  /\ IsSeq(Append(r, x)) /\ Len(Append(r, x)) = Len(r) + 1
         /\ Len(r) \in Nat /\ DOMAIN r = 1 .. Len(r)
         /\ DOMAIN Append(r, x) = 1 .. Len(r) + 1
         /\ \A k \in 1 .. Len(r) : Append(r, x)[k] = r[k]
         /\ Append(r, x)[Len(r) + 1] = x
<1> DEFINE S == {r[k] : k \in DOMAIN r} \cup {x}
<1>1. PICK q : q = Append(r, x)
  OBVIOUS
<1>2. r \in Seq(S) /\ x \in S
  <2>1. {r[k] : k \in DOMAIN r} \subseteq S /\ r \in Seq({r[k] : k \in DOMAIN r})
    BY DEF IsSeq
  <2> HIDE DEF S
  <2>2. r \in Seq(S)
    BY <2>1
  <2> QED
    BY <2>2 DEF S
<1> HIDE DEF S
<1>3. /\ Len(q) = Len(r) + 1 /\ Len(r) \in Nat /\ DOMAIN r = 1 .. Len(r)
      /\ DOMAIN q = 1 .. Len(r) + 1
      /\ \A k \in 1 .. Len(r) : q[k] = r[k]
      /\ q[Len(r) + 1] = x /\ q \in Seq(S)
  BY <1>1, <1>2
<1>4. q \in Seq({q[k] : k \in DOMAIN q})
  BY <1>3
<1> QED
  BY <1>1, <1>3, <1>4 DEF IsSeq

LEMMA ReplaceIs ==
  ASSUME NEW r, IsSeq(r), NEW i \in 1 .. Len(r), NEW x,
         NEW q, q = [r EXCEPT ![i] = x]
  PROVE  /\ IsSeq(q) /\ Len(q) = Len(r) /\ DOMAIN q = DOMAIN r
         /\ Len(r) \in Nat /\ DOMAIN r = 1 .. Len(r)
         /\ \A k \in DOMAIN r : k # i => q[k] = r[k]
         /\ q[i] = x
<1>1. Len(r) \in Nat /\ DOMAIN r = 1 .. Len(r)
  BY DEF IsSeq
<1>2. /\ DOMAIN q = 1 .. Len(r) /\ q[i] = x
      /\ \A k \in DOMAIN r : k # i => q[k] = r[k]
  BY <1>1
<1>3. q \in [1 .. Len(r) -> {q[k] : k \in DOMAIN q}]
  <2>1. q = [k \in 1 .. Len(r) |-> IF k = i THEN x ELSE r[k]]
    BY <1>1
  <2>2. q = [k \in 1 .. Len(r) |-> q[k]]
    BY <2>1
  <2> QED
    BY <1>2, <2>2
<1>4. q \in Seq({q[k] : k \in DOMAIN q})
  <2> DEFINE S == {q[k] : k \in DOMAIN q}
  <2>1. PICK n \in Nat : q \in [1 .. n -> S]
    BY <1>1, <1>3
  <2> HIDE DEF S
  <2>2. q \in Seq(S)
    BY ONLY <2>1
  <2> QED
    BY <2>2 DEF S
<1>5. Len(q) = Len(r)
  BY <1>1, <1>2, <1>4
<1> QED
  BY <1>1, <1>2, <1>4, <1>5 DEF IsSeq

(* An occurrence has these fields.                                         *)
IsOcc(o) ==
  o = [artefact |-> o.artefact, names |-> o.names, disk |-> o.disk,
       diskNames |-> o.diskNames, partition |-> o.partition,
       partNames |-> o.partNames]

(* One occurrence for each artefact, the last one for the artefact the     *)
(* report is at, whose names in a disk image so far idx counts.            *)
Fresh == {n \in db.names[artefact] \ nameless : Len(n) > 1}

Occs ==
  /\ IsSeq(report)
  /\ \A k \in DOMAIN report : IsOcc(report[k]) /\ report[k].artefact \in Fids
  /\ \A k, l \in DOMAIN report :
       report[k].artefact = report[l].artefact => k = l

AtArtefact ==
  artefact # None =>
    /\ artefact \in Fids /\ Len(report) > 0
    /\ report[Len(report)].artefact = artefact
    /\ nameless \subseteq db.names[artefact]
    /\ idx = Cardinality(Fresh)
    /\ idx > 0 => \E n \in Fresh : report[Len(report)].disk = n[1]

Remembered == \A f \in DOMAIN smap : smap[f] = NodeNames(f)

RepInv == Given /\ Occs /\ AtArtefact /\ Remembered /\ ReportConsistent

(* What ReportConsistent says of one occurrence.                           *)
Consistent(o, missing) ==
  LET names == db.names[o.artefact]
  IN /\ o.names = {LastPart(n) : n \in names \ missing}
     /\ o.disk # None
          /\ (Cardinality(names) <= 2 \/ Cardinality({n[1] : n \in names}) = 1)
        => o.diskNames = NodeNames(o.disk)

Missing(a) == IF artefact = a THEN nameless ELSE {}

LEMMA ConsistentIs ==
  ReportConsistent <=>
    \A k \in DOMAIN report :
      Consistent(report[k], Missing(report[k].artefact))
BY DEF ReportConsistent, Consistent, Missing

LEMMA RepSame ==
  ASSUME RepInv, UNCHANGED <<input, writing>>
  PROVE  RepInv'
<1>1. /\ UNCHANGED <<db, query, artefact, nameless, idx, smap, report>>
      /\ Given' /\ Fids' = Fids
  BY SameDb DEF writing, RepInv
<1>2. Occs'
  BY <1>1 DEF RepInv, Occs
<1>3. AtArtefact' /\ Remembered'
  BY <1>1 DEF RepInv, AtArtefact, Fresh, Remembered, NodeNames
<1>4. ReportConsistent'
  BY <1>1 DEF RepInv, ReportConsistent, NodeNames
<1> QED
  BY <1>1, <1>2, <1>3, <1>4 DEF RepInv

LEMMA RepInit == Init => RepInv
<1> SUFFICES ASSUME Init PROVE RepInv
  OBVIOUS
<1>1. Given /\ report = <<>> /\ smap = <<>> /\ artefact = None
  BY DEF Init, Given
<1>2. DOMAIN report = {} /\ IsSeq(report) /\ DOMAIN smap = {}
  BY <1>1 DEF IsSeq
<1> QED
  BY <1>1, <1>2 DEF RepInv, Occs, AtArtefact, Remembered, ReportConsistent

LEMMA EndArtefactRep ==
  ASSUME RepInv, EndArtefact
  PROVE  RepInv'
<1>1. /\ UNCHANGED <<nameless, idx, smap, report>> /\ UNCHANGED input
      /\ artefact # None /\ nameless = {} /\ artefact' = None
  BY DEF EndArtefact, reading
<1>2. UNCHANGED <<db, query>> /\ Given' /\ Fids' = Fids
  BY <1>1, SameDb DEF RepInv
<1>3. Occs' /\ AtArtefact'
  BY <1>1, <1>2 DEF RepInv, Occs, AtArtefact
<1>4. Remembered'
  BY <1>1, <1>2 DEF RepInv, Remembered, NodeNames
<1>5. ReportConsistent'
  BY <1>1, <1>2 DEF RepInv, ReportConsistent, NodeNames
<1> QED
  BY <1>2, <1>3, <1>4, <1>5 DEF RepInv

LEMMA ReportArtefactRep ==
  ASSUME RepInv, NEW f, ReportArtefact(f)
  PROVE  RepInv'
<1> DEFINE o == [artefact |-> f, names |-> {}, disk |-> None, diskNames |-> {},
                 partition |-> None, partNames |-> {}]
           r == Append(report, o)
           n == Len(report)
<1>1. /\ UNCHANGED smap /\ UNCHANGED input /\ artefact = None
      /\ f \in Fids /\ f \notin Reported /\ artefact' = f
      /\ nameless' = db.names[f] /\ idx' = 0
  BY DEF ReportArtefact, reading, Artefacts
<1>2. UNCHANGED <<db, query>> /\ Given' /\ Fids' = Fids
  BY <1>1, SameDb DEF RepInv
<1>3. report' = r
  <2>1. [NoOccurance EXCEPT !.artefact = f] = o
    BY DEF NoOccurance
  <2>2. report' = Append(report, [NoOccurance EXCEPT !.artefact = f])
    BY DEF ReportArtefact
  <2> QED
    BY <2>1, <2>2
<1>4. o.artefact = f /\ o.names = {} /\ o.disk = None /\ IsOcc(o)
  BY DEF IsOcc
<1> HIDE DEF o
<1>5. /\ IsSeq(r) /\ Len(r) = n + 1 /\ n \in Nat /\ DOMAIN report = 1 .. n
      /\ DOMAIN r = 1 .. n + 1 /\ r[n + 1] = o
      /\ \A k \in 1 .. n : r[k] = report[k]
  BY AppendIs DEF RepInv, Occs
<1> HIDE DEF r, n
<1>6. \A k \in 1 .. n : report[k].artefact # f
  BY <1>1, <1>5 DEF Reported
<1>7. Occs'
  <2>1. \A k \in 1 .. n + 1 : IsOcc(r[k]) /\ r[k].artefact \in Fids
    BY <1>1, <1>4, <1>5 DEF RepInv, Occs
  <2>2. ASSUME NEW k \in 1 .. n + 1, NEW l \in 1 .. n + 1,
               r[k].artefact = r[l].artefact
        PROVE  k = l
    <3>1. \A j \in 1 .. n + 1 : j \in 1 .. n \/ j = n + 1
      BY <1>5
    <3>2. CASE k \in 1 .. n /\ l \in 1 .. n
      BY <1>5, <2>2, <3>2 DEF RepInv, Occs
    <3> QED
      BY <1>4, <1>5, <1>6, <2>2, <3>1, <3>2
  <2> QED
    BY <1>2, <1>3, <1>5, <2>1, <2>2 DEF Occs
<1>8. AtArtefact'
  <2>1. Fresh' = {}
    BY <1>1, <1>2 DEF Fresh
  <2>2. report'[Len(report')].artefact = f /\ Len(report') > 0
    BY <1>3, <1>4, <1>5
  <2> QED
    BY <1>1, <1>2, <2>1, <2>2, FS_EmptySet DEF AtArtefact
<1>9. Remembered'
  BY <1>1, <1>2 DEF RepInv, Remembered, NodeNames
<1>10. ReportConsistent'
  <2>1. ASSUME NEW k \in 1 .. n + 1
        PROVE  Consistent(r[k], IF r[k].artefact = f THEN db.names[f] ELSE {})
    <3>1. CASE k = n + 1
      BY <1>4, <1>5, <3>1 DEF Consistent
    <3>2. CASE k \in 1 .. n
      <4>1. Consistent(report[k], Missing(report[k].artefact))
        BY <1>5, <3>2, ConsistentIs DEF RepInv
      <4>2. artefact # report[k].artefact
        BY <1>1, <1>2, <1>5, <3>2, Database DEF RepInv, Occs
      <4> QED
        BY <1>5, <1>6, <3>2, <4>1, <4>2 DEF Missing
    <3> QED
      BY <1>5, <3>1, <3>2
  <2>2. ASSUME NEW k \in 1 .. n + 1
        PROVE  Consistent(r[k], IF artefact' = r[k].artefact THEN nameless'
                                                             ELSE {})
    BY <1>1, <2>1
  <2> QED
    BY <1>2, <1>3, <1>5, <2>2 DEF ReportConsistent, Consistent, NodeNames
<1> QED
  BY <1>2, <1>7, <1>8, <1>9, <1>10 DEF RepInv

(* The occurrence after a name, before and after it has a disk image.      *)
LEMMA ListedIs ==
  ASSUME NEW n, IsOcc(Current)
  PROVE  Listed(n) = [artefact |-> Current.artefact,
                      names |-> Current.names \cup {LastPart(n)},
                      disk |-> Current.disk, diskNames |-> Current.diskNames,
                      partition |-> Current.partition,
                      partNames |-> Current.partNames]
<1>1. PICK c : c = Current
  OBVIOUS
<1>2. PICK a, m, d, dn, p, pn :
        c = [artefact |-> a, names |-> m, disk |-> d, diskNames |-> dn,
             partition |-> p, partNames |-> pn]
  BY <1>1 DEF IsOcc
<1>3. Listed(n) = [c EXCEPT !.names = c.names \cup {LastPart(n)}]
  BY <1>1 DEF Listed
<1> QED
  BY <1>1, <1>2, <1>3

LEMMA SetFields ==
  ASSUME NEW a, NEW m, NEW d, NEW dn, NEW p, NEW pn, NEW n
  PROVE  \A k : k = [artefact |-> a, names |-> m, disk |-> d, diskNames |-> dn,
                    partition |-> p, partNames |-> pn] =>
           /\ [k EXCEPT !.disk = n[1], !.partition = artefact,
                        !.diskNames = Shown(n[1], @)]
                = [artefact |-> a, names |-> m, disk |-> n[1],
                   diskNames |-> Shown(n[1], dn), partition |-> artefact,
                   partNames |-> pn]
           /\ [k EXCEPT !.disk = n[1], !.partition = n[2],
                        !.diskNames = Shown(n[1], @),
                        !.partNames = Shown(n[2], @)]
                = [artefact |-> a, names |-> m, disk |-> n[1],
                   diskNames |-> Shown(n[1], dn), partition |-> n[2],
                   partNames |-> Shown(n[2], pn)]
<1> DEFINE r == [artefact |-> a, names |-> m, disk |-> d, diskNames |-> dn,
                 partition |-> p, partNames |-> pn]
           s == [artefact |-> a, names |-> m, disk |-> n[1], diskNames |-> dn,
                 partition |-> p, partNames |-> pn]
           t == [artefact |-> a, names |-> m, disk |-> n[1], diskNames |-> dn,
                 partition |-> artefact, partNames |-> pn]
           u == [artefact |-> a, names |-> m, disk |-> n[1], diskNames |-> dn,
                 partition |-> n[2], partNames |-> pn]
           v == [artefact |-> a, names |-> m, disk |-> n[1], diskNames |-> Shown(n[1], dn),
                 partition |-> artefact, partNames |-> pn]
           w == [artefact |-> a, names |-> m, disk |-> n[1], diskNames |-> Shown(n[1], dn),
                 partition |-> n[2], partNames |-> pn]
           x == [artefact |-> a, names |-> m, disk |-> n[1], diskNames |-> Shown(n[1], dn),
                 partition |-> n[2], partNames |-> Shown(n[2], pn)]
<1>1. [r EXCEPT !.disk = n[1]] = s
  OBVIOUS
<1>2. [s EXCEPT !.partition = artefact] = t /\ [s EXCEPT !.partition = n[2]] = u
  OBVIOUS
<1>3. /\ [t EXCEPT !.diskNames = Shown(n[1], dn)] = v
      /\ [u EXCEPT !.diskNames = Shown(n[1], dn)] = w
  OBVIOUS
<1>4. [w EXCEPT !.partNames = Shown(n[2], pn)] = x
  OBVIOUS
<1>5. r.diskNames = dn /\ r.partNames = pn
  OBVIOUS
<1> HIDE DEF r, s, t, u, v, w, x
<1>6. [r EXCEPT !.disk = n[1], !.partition = artefact,
                !.diskNames = Shown(n[1], @)] = v
  BY <1>1, <1>2, <1>3, <1>5, Zenon
<1>7. [r EXCEPT !.disk = n[1], !.partition = n[2],
                !.diskNames = Shown(n[1], @), !.partNames = Shown(n[2], @)] = x
  BY <1>1, <1>2, <1>3, <1>4, <1>5, Zenon
<1>8. \A k : k = r =>
        /\ [k EXCEPT !.disk = n[1], !.partition = artefact,
                     !.diskNames = Shown(n[1], @)] = v
        /\ [k EXCEPT !.disk = n[1], !.partition = n[2],
                     !.diskNames = Shown(n[1], @), !.partNames = Shown(n[2], @)] = x
  BY <1>6, <1>7, Zenon
<1> QED
  BY <1>8, Zenon DEF r, v, x

LEMMA NamedIs ==
  ASSUME NEW n, IsOcc(Current), NEW o,
         \/ o = [Listed(n) EXCEPT !.disk = n[1], !.partition = artefact,
                                  !.diskNames = Shown(n[1], @)]
         \/ o = [Listed(n) EXCEPT !.disk = n[1], !.partition = n[2],
                                  !.diskNames = Shown(n[1], @),
                                  !.partNames = Shown(n[2], @)]
  PROVE  /\ IsOcc(o) /\ o.artefact = Current.artefact
         /\ o.names = Current.names \cup {LastPart(n)}
         /\ o.disk = n[1] /\ o.diskNames = Shown(n[1], Current.diskNames)
<1>1. PICK c : c = Listed(n)
  OBVIOUS
<1>2. PICK a, m, d, dn, p, pn :
        /\ c = [artefact |-> a, names |-> m, disk |-> d, diskNames |-> dn,
                partition |-> p, partNames |-> pn]
        /\ a = Current.artefact /\ m = Current.names \cup {LastPart(n)}
        /\ dn = Current.diskNames
  BY <1>1, ListedIs
<1>3. \E q, qn : o = [artefact |-> a, names |-> m, disk |-> n[1],
                      diskNames |-> Shown(n[1], dn),
                      partition |-> q, partNames |-> qn]
  <2>1. CASE o = [Listed(n) EXCEPT !.disk = n[1], !.partition = artefact,
                                   !.diskNames = Shown(n[1], @)]
    <3>1. o = [c EXCEPT !.disk = n[1], !.partition = artefact,
                            !.diskNames = Shown(n[1], @)]
      BY ONLY <1>1, <2>1
    <3>2. o = [artefact |-> a, names |-> m, disk |-> n[1],
               diskNames |-> Shown(n[1], dn), partition |-> artefact,
               partNames |-> pn]
      BY ONLY <1>2, <3>1, SetFields
    <3> QED
      BY ONLY <3>2
  <2>2. CASE o = [Listed(n) EXCEPT !.disk = n[1], !.partition = n[2],
                                   !.diskNames = Shown(n[1], @),
                                   !.partNames = Shown(n[2], @)]
    <3>1. o = [c EXCEPT !.disk = n[1], !.partition = n[2],
                            !.diskNames = Shown(n[1], @),
                            !.partNames = Shown(n[2], @)]
      BY ONLY <1>1, <2>2
    <3>2. o = [artefact |-> a, names |-> m, disk |-> n[1],
               diskNames |-> Shown(n[1], dn), partition |-> n[2],
               partNames |-> Shown(n[2], pn)]
      BY ONLY <1>2, <3>1, SetFields
    <3> QED
      BY ONLY <3>2
  <2> QED
    BY <2>1, <2>2
<1>4. PICK q, qn : o = [artefact |-> a, names |-> m, disk |-> n[1],
                        diskNames |-> Shown(n[1], dn),
                        partition |-> q, partNames |-> qn]
  BY <1>3
<1> QED
  BY <1>2, <1>4 DEF IsOcc

(* What a name does to the report.                                         *)
LEMMA ReportNamePuts ==
  ASSUME RepInv, NEW n \in nameless, ReportName(n)
  PROVE  (smap' = smap \/ \E fs : Remember(fs)) /\ \E o :
           /\ report' = [report EXCEPT ![Len(report)] = o]
           /\ IsOcc(o) /\ o.artefact = Current.artefact
           /\ o.names = Current.names \cup {LastPart(n)}
           /\ \/ Len(n) = 1 /\ idx' = idx /\ o.disk = Current.disk
                   /\ o.diskNames = Current.diskNames
              \/ Len(n) > 1 /\ idx' = idx + 1 /\ o.disk = n[1]
                   /\ o.diskNames = Shown(n[1], Current.diskNames)
<1>1. IsOcc(Current)
  <2>1. IsSeq(report) /\ Len(report) > 0
    BY DEF RepInv, Occs, AtArtefact, ReportName
  <2>2. Len(report) \in DOMAIN report
    BY <2>1 DEF IsSeq
  <2> QED
    BY <2>2 DEF RepInv, Occs, Current
<1>2. idx' = IF Len(n) = 1 THEN idx ELSE idx + 1
  BY DEF ReportName
<1>3. \/ Len(n) = 1 /\ Put(Listed(n)) /\ smap' = smap
      \/ Len(n) = 2 /\ Put([Listed(n) EXCEPT !.disk = n[1],
                              !.partition = artefact,
                              !.diskNames = Shown(n[1], @)])
                        /\ Remember({n[1]})
      \/ Len(n) = 3 /\ Put([Listed(n) EXCEPT !.disk = n[1],
                              !.partition = n[2],
                              !.diskNames = Shown(n[1], @),
                              !.partNames = Shown(n[2], @)])
                        /\ Remember({n[1], n[2]})
  <2>1. Len(n) \in 1 .. 3
    <3>1. IsSeq(n) /\ Len(n) > 0 /\ Len(n) <= 3
      <4>1. artefact \in Fids /\ n \in db.names[artefact] /\ Len(n) <= 3
        BY Zenon DEF RepInv, AtArtefact, ReportName
      <4> QED
        BY <4>1, Database DEF RepInv
    <3>2. Len(n) \in Nat
      BY <3>1 DEF IsSeq
    <3>3. \A l \in Nat : l > 0 /\ l <= 3 => l \in 1 .. 3
      OBVIOUS
    <3> QED
      BY <3>1, <3>2, <3>3, Zenon
  <2>2. Len(n) = 1 \/ Len(n) = 2 \/ Len(n) = 3
    BY <2>1
  <2> QED
    BY <2>2 DEF ReportName
<1>4. smap' = smap \/ \E fs : Remember(fs)
  BY <1>3, Zenon
<1>5. CASE Len(n) = 1 /\ Put(Listed(n))
  <2>1. /\ IsOcc(Listed(n)) /\ Listed(n).artefact = Current.artefact
        /\ Listed(n).names = Current.names \cup {LastPart(n)}
        /\ Listed(n).disk = Current.disk
        /\ Listed(n).diskNames = Current.diskNames
    BY <1>1, ListedIs DEF IsOcc
  <2>2. report' = [report EXCEPT ![Len(report)] = Listed(n)]
    BY <1>5 DEF Put
  <2> QED
    BY <1>2, <1>4, <1>5, <2>1, <2>2, Zenon
<1>6. CASE Len(n) = 2 /\ Put([Listed(n) EXCEPT !.disk = n[1],
                                !.partition = artefact,
                                !.diskNames = Shown(n[1], @)])
  <2>1. PICK o : o = [Listed(n) EXCEPT !.disk = n[1], !.partition = artefact,
                                       !.diskNames = Shown(n[1], @)]
    OBVIOUS
  <2>2. report' = [report EXCEPT ![Len(report)] = o]
    BY <1>6, <2>1 DEF Put
  <2>3. /\ IsOcc(o) /\ o.artefact = Current.artefact
        /\ o.names = Current.names \cup {LastPart(n)}
        /\ o.disk = n[1] /\ o.diskNames = Shown(n[1], Current.diskNames)
    BY <1>1, <2>1, NamedIs
  <2>4. Len(n) = 2
    BY <1>6, Zenon
  <2>5. Len(n) > 1
    BY ONLY <2>4
  <2>6. idx' = idx + 1
    BY ONLY <1>2, <2>4
  <2> QED
    BY <1>4, <2>2, <2>3, <2>5, <2>6, Zenon
<1>7. CASE Len(n) = 3 /\ Put([Listed(n) EXCEPT !.disk = n[1],
                                !.partition = n[2],
                                !.diskNames = Shown(n[1], @),
                                !.partNames = Shown(n[2], @)])
  <2>1. PICK o : o = [Listed(n) EXCEPT !.disk = n[1], !.partition = n[2],
                                       !.diskNames = Shown(n[1], @),
                                       !.partNames = Shown(n[2], @)]
    OBVIOUS
  <2>2. report' = [report EXCEPT ![Len(report)] = o]
    BY <1>7, <2>1 DEF Put
  <2>3. /\ IsOcc(o) /\ o.artefact = Current.artefact
        /\ o.names = Current.names \cup {LastPart(n)}
        /\ o.disk = n[1] /\ o.diskNames = Shown(n[1], Current.diskNames)
    BY <1>1, <2>1, NamedIs
  <2>4. Len(n) = 3
    BY <1>7, Zenon
  <2>5. Len(n) > 1
    BY ONLY <2>4
  <2>6. idx' = idx + 1
    BY ONLY <1>2, <2>4
  <2> QED
    BY <1>4, <2>2, <2>3, <2>5, <2>6, Zenon
<1> QED
  BY <1>3, <1>5, <1>6, <1>7, Zenon

(* Names in one image, or two of them: the names shown are the image's.    *)
LEMMA ShownRight ==
  ASSUME RepInv, artefact # None, NEW n \in nameless, Len(n) > 1,
         Consistent(Current, nameless), n[1] # None,
         \/ Cardinality(db.names[artefact]) <= 2
         \/ Cardinality({m[1] : m \in db.names[artefact]}) = 1
  PROVE  Shown(n[1], Current.diskNames) = NodeNames(n[1])
<1>1. /\ Given /\ artefact \in Fids /\ Current.artefact = artefact
      /\ n \in db.names[artefact] /\ idx = Cardinality(Fresh)
      /\ idx > 0 => \E m \in Fresh : Current.disk = m[1]
  BY DEF RepInv, AtArtefact, Current
<1>2. IsFiniteSet(db.names[artefact])
  BY <1>1, Database
<1>3. IsFiniteSet(Fresh) /\ Cardinality(Fresh) \in Nat
  BY <1>2, FS_Subset, FS_CardinalityType DEF Fresh
<1>4. CASE n[1] \notin DOMAIN smap \/ idx <= 1
  BY <1>4 DEF Shown, RepInv, Remembered
<1>5. CASE n[1] \in DOMAIN smap /\ ~(idx <= 1)
  <2>1. Shown(n[1], Current.diskNames) = Current.diskNames
    BY <1>5 DEF Shown
  <2>2. PICK m \in Fresh : Current.disk = m[1]
    BY <1>1, <1>3, <1>5
  <2>3. n \notin Fresh /\ Fresh \cup {n} \subseteq db.names[artefact]
    BY <1>1 DEF Fresh
  <2>4. Cardinality(Fresh \cup {n}) = idx + 1
    BY <1>1, <1>3, <2>3, FS_AddElement
  <2>5. Cardinality(Fresh \cup {n}) <= Cardinality(db.names[artefact])
    BY <1>2, <2>3, FS_Subset
  <2>6. ~(Cardinality(db.names[artefact]) <= 2)
    <3>1. Cardinality(db.names[artefact]) \in Nat /\ idx \in Nat
      BY <1>1, <1>2, <1>3, FS_CardinalityType
    <3> QED
      BY <1>5, <2>4, <2>5, <3>1
  <2>7. Cardinality({l[1] : l \in db.names[artefact]}) = 1
    BY <2>6
  <2>8. IsFiniteSet({l[1] : l \in db.names[artefact]})
    <3> DEFINE S == db.names[artefact]
               T == {l[1] : l \in S}
               g == [l \in S |-> l[1]]
    <3>1. g \in Surjection(S, T)
      BY DEF Surjection
    <3> HIDE DEF S, T, g
    <3>2. IsFiniteSet(S)
      BY <1>2 DEF S
    <3>3. IsFiniteSet(T)
      BY <3>1, <3>2, FS_Surjection
    <3> QED
      BY <3>3 DEF S, T
  <2>9. PICK e : {l[1] : l \in db.names[artefact]} = {e}
    BY <2>7, <2>8, FS_Singleton
  <2>10. m[1] = n[1]
    <3>1. \A l \in db.names[artefact] : l[1] = e
      BY <2>9
    <3> QED
      BY <1>1, <2>3, <3>1
  <2>11. Current.diskNames = NodeNames(Current.disk)
    BY <1>1, <2>2, <2>7, <2>10 DEF Consistent
  <2> QED
    BY <2>1, <2>2, <2>10, <2>11
<1> QED
  BY <1>4, <1>5

LEMMA ReportNameRep ==
  ASSUME RepInv, NEW n \in nameless, ReportName(n)
  PROVE  RepInv'
<1> DEFINE e == Len(report)
<1>1. /\ UNCHANGED input /\ artefact' = artefact /\ artefact # None
      /\ nameless' = nameless \ {n}
  BY Zenon DEF ReportName, reading
<1>2. UNCHANGED <<db, query>> /\ Given /\ Given' /\ Fids' = Fids
  BY <1>1, SameDb DEF RepInv
<1>3. /\ artefact \in Fids /\ nameless \subseteq db.names[artefact]
      /\ e > 0 /\ report[e].artefact = artefact
      /\ idx = Cardinality(Fresh)
      /\ idx > 0 => \E m \in Fresh : report[e].disk = m[1]
  BY <1>1 DEF RepInv, AtArtefact
<1>4. PICK o :
        /\ report' = [report EXCEPT ![e] = o]
        /\ IsOcc(o) /\ o.artefact = Current.artefact
        /\ o.names = Current.names \cup {LastPart(n)}
        /\ \/ Len(n) = 1 /\ idx' = idx /\ o.disk = Current.disk
                /\ o.diskNames = Current.diskNames
           \/ Len(n) > 1 /\ idx' = idx + 1 /\ o.disk = n[1]
                /\ o.diskNames = Shown(n[1], Current.diskNames)
  BY ReportNamePuts
<1>5. Current = report[e] /\ o.artefact = artefact
  BY <1>3, <1>4 DEF Current
<1>6. /\ IsSeq(report') /\ Len(report') = e /\ DOMAIN report' = DOMAIN report
      /\ e \in DOMAIN report /\ report'[e] = o
      /\ \A k \in DOMAIN report : k # e => report'[k] = report[k]
  <2>1. IsSeq(report) /\ e \in 1 .. Len(report) /\ e = Len(report)
    BY <1>3 DEF RepInv, Occs, IsSeq
  <2>2. report' = [report EXCEPT ![e] = o]
    BY <1>4
  <2>3. /\ IsSeq(report') /\ Len(report') = Len(report)
        /\ DOMAIN report' = DOMAIN report /\ DOMAIN report = 1 .. Len(report)
        /\ \A k \in DOMAIN report : k # e => report'[k] = report[k]
        /\ report'[e] = o
    <3> DEFINE i == e
    <3>1. i \in 1 .. Len(report) /\ report' = [report EXCEPT ![i] = o]
      BY <2>1, <2>2
    <3> HIDE DEF i
    <3>2. PICK q : q = report'
      OBVIOUS
    <3>3. IsSeq(report) /\ q = [report EXCEPT ![i] = o]
      BY ONLY <2>1, <3>1, <3>2, Zenon
    <3>4. /\ IsSeq(q) /\ Len(q) = Len(report)
          /\ DOMAIN q = DOMAIN report /\ DOMAIN report = 1 .. Len(report)
          /\ \A k \in DOMAIN report : k # i => q[k] = report[k]
          /\ q[i] = o
      BY ONLY <3>1, <3>3, ReplaceIs
    <3> QED
      BY ONLY <3>2, <3>4, Zenon DEF i
  <2> QED
    BY ONLY <2>1, <2>3
<1>7. \A k \in DOMAIN report : report'[k].artefact = report[k].artefact
  BY <1>3, <1>5, <1>6
<1>8. Occs'
  <2>1. \A k \in DOMAIN report :
          IsOcc(report'[k]) /\ report'[k].artefact \in Fids
    BY <1>3, <1>4, <1>5, <1>6, <1>7 DEF RepInv, Occs
  <2>2. \A k, l \in DOMAIN report :
          report'[k].artefact = report'[l].artefact => k = l
    BY <1>7 DEF RepInv, Occs
  <2> QED
    BY <1>2, <1>6, <2>1, <2>2 DEF Occs
<1>9. IsFiniteSet(Fresh) /\ Cardinality(Fresh) \in Nat
  <2>1. IsFiniteSet(db.names[artefact])
    BY <1>2, <1>3, Database
  <2> QED
    BY <2>1, FS_Subset, FS_CardinalityType DEF Fresh
<1>10. /\ Len(n) = 1 => Fresh' = Fresh
       /\ Len(n) > 1 => Fresh' = Fresh \cup {n} /\ n \notin Fresh
  <2>1. Fresh' = {m \in db.names[artefact] \ (nameless \ {n}) : Len(m) > 1}
    BY <1>1, <1>2 DEF Fresh
  <2>2. db.names[artefact] \ (nameless \ {n})
          = (db.names[artefact] \ nameless) \cup {n}
    BY <1>3
  <2>3. ASSUME Len(n) = 1 PROVE Fresh' = Fresh
    <3>1. ~(Len(n) > 1)
      BY <2>3
    <3> QED
      BY <2>1, <2>2, <3>1, Zenon DEF Fresh
  <2>4. ASSUME Len(n) > 1 PROVE Fresh' = Fresh \cup {n} /\ n \notin Fresh
    BY <2>1, <2>2, <2>4 DEF Fresh
  <2> QED
    BY <2>3, <2>4
<1>11. AtArtefact'
  <2>1. idx' = Cardinality(Fresh')
    BY <1>3, <1>4, <1>9, <1>10, FS_AddElement
  <2>2. idx' > 0 => \E m \in Fresh' : o.disk = m[1]
    <3>1. CASE Len(n) = 1
      BY <1>3, <1>4, <1>5, <1>10, <3>1
    <3>2. CASE Len(n) > 1
      BY <1>4, <1>10, <3>2
    <3> QED
      BY <1>4, <3>1, <3>2
  <2> QED
    BY <1>1, <1>2, <1>3, <1>5, <1>6, <2>1, <2>2 DEF AtArtefact
<1>12. Remembered'
  <2>1. smap' = smap \/ \E fs : Remember(fs)
    BY ReportNamePuts
  <2>2. \A f \in DOMAIN smap : smap[f] = NodeNames(f)
    BY DEF RepInv, Remembered
  <2>3. \A f \in DOMAIN smap' : smap'[f] = NodeNames(f)
    BY <2>1, <2>2 DEF Remember
  <2> QED
    BY <1>2, <2>3 DEF Remembered, NodeNames
<1>13. Consistent(Current, nameless)
  BY <1>3, <1>5, <1>6, ConsistentIs DEF RepInv, Missing
<1>14. Consistent(o, nameless')
  <2>1. o.names = {LastPart(m) : m \in db.names[artefact] \ nameless'}
    BY <1>1, <1>3, <1>4, <1>5, <1>13 DEF Consistent
  <2>2. ASSUME o.disk # None,
               \/ Cardinality(db.names[artefact]) <= 2
               \/ Cardinality({m[1] : m \in db.names[artefact]}) = 1
        PROVE  o.diskNames = NodeNames(o.disk)
    <3>1. CASE Len(n) = 1
      <4>1. o.disk = Current.disk /\ o.diskNames = Current.diskNames
        BY <1>4, <3>1
      <4>2. Current.artefact = artefact
        BY <1>3, <1>5
      <4> QED
        BY <1>13, <2>2, <4>1, <4>2, Zenon DEF Consistent
    <3>2. CASE Len(n) > 1
      <4>1. o.disk = n[1] /\ o.diskNames = Shown(n[1], Current.diskNames)
        <5>1. Len(n) \in Nat
          BY <1>2, <1>3, Database DEF IsSeq
        <5>2. \A l \in Nat : l > 1 => l # 1
          OBVIOUS
        <5>3. Len(n) # 1
          BY <3>2, <5>1, <5>2, Zenon
        <5> QED
          BY <1>4, <5>3, Zenon
      <4>2. n[1] # None
        BY <2>2, <4>1
      <4>3. Shown(n[1], Current.diskNames) = NodeNames(n[1])
        BY <1>1, <1>13, <2>2, <3>2, <4>2, ShownRight, Zenon
      <4> QED
        BY <4>1, <4>3
    <3> QED
      BY <1>4, <3>1, <3>2
  <2> QED
    BY <1>5, <2>1, <2>2 DEF Consistent
<1>15. ReportConsistent'
  <2>1. ASSUME NEW k \in DOMAIN report
        PROVE  Consistent(report'[k], IF artefact' = report'[k].artefact
                                      THEN nameless' ELSE {})
    <3>1. CASE k = e
      BY <1>1, <1>5, <1>6, <1>14, <3>1
    <3>2. CASE k # e
      <4>1. report'[k] = report[k] /\ report[k].artefact # artefact
        BY <1>3, <1>6, <3>2 DEF RepInv, Occs
      <4>2. Consistent(report[k], Missing(report[k].artefact))
        BY ConsistentIs DEF RepInv
      <4> QED
        BY <1>1, <4>1, <4>2 DEF Missing
    <3> QED
      BY <3>1, <3>2
  <2> QED
    BY <1>2, <1>6, <2>1 DEF ReportConsistent, Consistent, NodeNames
<1> QED
  BY <1>2, <1>8, <1>11, <1>12, <1>15 DEF RepInv

LEMMA RepStep == RepInv /\ [Next]_vars => RepInv'
<1> SUFFICES ASSUME RepInv, [Next]_vars PROVE RepInv'
  OBVIOUS
<1>1. CASE UNCHANGED vars
  BY <1>1, RepSame DEF vars
<1>2. CASE SearchStep
  <2>1. CASE NextNamespace
    BY <2>1, RepSame DEF NextNamespace
  <2>2. ASSUME NEW f, \/ SpawnFile(f) \/ CollectFile(f) \/ GetFileMeta(f)
                     \/ FileMetaFails(f) \/ SpawnChonk(f) \/ FileSearched(f)
        PROVE  RepInv'
    BY <2>2, RepSame DEF SpawnFile, CollectFile, GetFileMeta, FileMetaFails,
       SpawnChonk, FileSearched
  <2>3. ASSUME NEW f, NEW at,
               \/ CollectChonk(f, at) \/ CountCached(f, at)
               \/ CountChonk(f, at) \/ SetCount(f, at) \/ NoOverlap(f, at)
               \/ SearchOverlap(f, at) \/ ChonkPanics(f, at)
               \/ ChonkFails(f, at)
        PROVE  RepInv'
    <3>1. UNCHANGED <<input, writing>>
      BY <2>3 DEF CollectChonk, CountCached, CountChonk, SetCount, NoOverlap,
         SearchOverlap, ChonkPanics, ChonkFails, flow
    <3> QED
      BY <3>1, RepSame
  <2> QED
    BY <1>2, <2>1, <2>2, <2>3, Zenon DEF SearchStep
<1>3. CASE ReportStep
  <2>1. CASE ReportFails \/ WriteReport
    <3>1. UNCHANGED <<input, writing>>
      BY <2>1 DEF ReportFails, WriteReport, reading
    <3> QED
      BY <3>1, RepSame
  <2> QED
    BY <1>3, <2>1, ReportArtefactRep, ReportNameRep, EndArtefactRep
       DEF ReportStep
<1> QED
  BY <1>1, <1>2, <1>3 DEF Next

(* In whatever order the names come, and whatever is looked up for which.  *)
THEOREM ReportIsConsistent == Spec => []ReportConsistent
<1>1. Init => RepInv
  BY RepInit
<1>2. RepInv /\ [Next]_vars => RepInv'
  BY RepStep
<1>3. RepInv => ReportConsistent
  BY DEF RepInv
<1> QED
  BY <1>1, <1>2, <1>3, PTL DEF Spec

-----------------------------------------------------------------------------
(* The counts.  A place is how many bytes of the evidence file are before  *)
(* it; these are the places from one to another where the query starts.    *)
Hits(b, lo, hi) ==
  {p \in lo .. hi : \A j \in 1 .. Len(query) : b[p + j] = query[j]}

LEMMA QueryLen == ASSUME Given PROVE Len(query) \in Nat /\ Len(query) > 0
BY QueriesAssumption DEF Given, IsSeq

LEMMA HitsFinite ==
  ASSUME NEW b, NEW lo \in Int, NEW hi \in Int
  PROVE  IsFiniteSet(Hits(b, lo, hi)) /\ Cardinality(Hits(b, lo, hi)) \in Nat
<1>1. IsFiniteSet(lo .. hi)
  BY FS_Interval
<1> QED
  BY <1>1, FS_Subset, FS_CardinalityType DEF Hits

(* n bytes of b, from the place d on.                                      *)
IsPart(s, n, b, d) == n \in Nat /\ d \in Nat /\ s = [i \in 1 .. n |-> b[d + i]]

(* A part of a sequence is the query if it is so byte for byte.            *)
LEMMA PartIs ==
  ASSUME Given, NEW n, NEW s, NEW b, NEW d, IsPart(s, n, b, d)
  PROVE  \A k \in 1 .. n - Len(query) + 1 :
           SubSeq(s, k, k + Len(query) - 1) = query
             <=> \A j \in 1 .. Len(query) : b[(d + k - 1) + j] = query[j]
<1>0. n \in Nat /\ d \in Nat /\ s = [i \in 1 .. n |-> b[d + i]]
  BY DEF IsPart
<1> TAKE k \in 1 .. n - Len(query) + 1
<1> DEFINE m == Len(query)
<1>1. m \in Nat /\ m > 0 /\ IsSeq(query)
  BY QueryLen, QueriesAssumption DEF Given
<1>2. query = [j \in 1 .. m |-> query[j]]
  <2>1. query \in Seq({query[j] : j \in DOMAIN query})
    BY <1>1 DEF IsSeq
  <2> QED
    BY <2>1
<1>3. k \in Nat /\ k >= 1 /\ k + m - 1 <= n
  BY <1>0, <1>1
<1> DEFINE S == {b[d + i] : i \in 1 .. n}
<1>4. s \in [1 .. n -> S]
  BY <1>0
<1>5. s \in Seq(S) /\ Len(s) = n
  <2> HIDE DEF S
  <2> QED
    BY ONLY <1>0, <1>4
<1> HIDE DEF m, S
<1>6. SubSeq(s, k, k + m - 1) = [j \in 1 .. m |-> s[k + j - 1]]
  BY <1>0, <1>1, <1>3, <1>5
<1>7. \A j \in 1 .. m : s[k + j - 1] = b[(d + k - 1) + j]
  <2> SUFFICES ASSUME NEW j \in 1 .. m PROVE s[k + j - 1] = b[(d + k - 1) + j]
    OBVIOUS
  <2>1. k + j - 1 \in 1 .. n /\ d + (k + j - 1) = (d + k - 1) + j
    BY <1>0, <1>1, <1>3
  <2> QED
    BY <1>0, <2>1
<1>8. SubSeq(s, k, k + m - 1) = [j \in 1 .. m |-> b[(d + k - 1) + j]]
  BY <1>6, <1>7
<1> QED
  BY <1>2, <1>8 DEF m

LEMMA CountIs ==
  ASSUME Given, NEW n, NEW s, NEW b, NEW d, IsPart(s, n, b, d)
  PROVE  Count(s) = Cardinality(Hits(b, d, d + n - Len(query)))
<1> DEFINE m == Len(query)
           K == {k \in 1 .. n - m + 1 : SubSeq(s, k, k + m - 1) = query}
           H == Hits(b, d, d + n - m)
           g == [k \in K |-> d + k - 1]
<1>0. n \in Nat /\ d \in Nat /\ s = [i \in 1 .. n |-> b[d + i]]
  BY DEF IsPart
<1>1. m \in Nat /\ m > 0
  BY QueryLen
<1>2. Len(s) = n
  <2> DEFINE S == {b[d + i] : i \in 1 .. n}
  <2>1. s \in [1 .. n -> S]
    BY <1>0
  <2> HIDE DEF S
  <2> QED
    BY ONLY <1>0, <2>1
<1>3. Count(s) = Cardinality(K)
  BY <1>2 DEF Count
<1>4. \A k \in 1 .. n - m + 1 :
        k \in K <=> \A j \in 1 .. m : b[(d + k - 1) + j] = query[j]
  <2>1. \A k \in 1 .. n - Len(query) + 1 :
          SubSeq(s, k, k + Len(query) - 1) = query
            <=> \A j \in 1 .. Len(query) : b[(d + k - 1) + j] = query[j]
    BY PartIs
  <2>2. \A k \in 1 .. n - m + 1 :
          k \in K <=> SubSeq(s, k, k + Len(query) - 1) = query
    BY Zenon
  <2> QED
    BY <2>1, <2>2, Zenon
<1> HIDE DEF m, K
<1>5. K \subseteq 1 .. n - m + 1
  BY DEF K, m
<1>6. \A k \in K : d + k - 1 \in H
  <2> SUFFICES ASSUME NEW k \in K PROVE d + k - 1 \in H
    OBVIOUS
  <2>1. k \in 1 .. n - m + 1 /\ k \in Int
    BY <1>0, <1>1, <1>5
  <2>2. d + k - 1 \in d .. d + n - m
    BY <1>0, <1>1, <2>1
  <2> QED
    BY <1>4, <2>1, <2>2 DEF Hits, m
<1>7. \A p \in H : p - d + 1 \in K /\ d + (p - d + 1) - 1 = p
  <2> SUFFICES ASSUME NEW p \in H
               PROVE  p - d + 1 \in K /\ d + (p - d + 1) - 1 = p
    OBVIOUS
  <2>1. p \in d .. d + n - m
    BY DEF Hits, m
  <2>2. p - d + 1 \in 1 .. n - m + 1 /\ d + (p - d + 1) - 1 = p
    BY <1>0, <1>1, <2>1
  <2>3. \A j \in 1 .. m : b[p + j] = query[j]
    BY DEF Hits, m
  <2> QED
    BY <1>4, <2>2, <2>3
<1>8. g \in Bijection(K, H)
  <2> HIDE DEF H
  <2>1. g \in [K -> H]
    BY <1>6
  <2>2. \A k, l \in K : g[k] = g[l] => k = l
    BY <1>0, <1>1, <1>5
  <2>3. \A p \in H : \E k \in K : g[k] = p
    BY <1>7
  <2> QED
    BY <2>1, <2>2, <2>3 DEF Bijection, Injection, Surjection, IsInjective
<1>9. IsFiniteSet(K)
  <2>1. n - m + 1 \in Int /\ 1 \in Int
    BY <1>0, <1>1
  <2> QED
    BY <1>5, <2>1, FS_Interval, FS_Subset
<1>10. Cardinality(H) = Cardinality(K)
  BY <1>8, <1>9, FS_Bijection DEF ExistsBijection
<1> QED
  BY <1>3, <1>10 DEF H, m

(* A file that starts with a chunk has its own part of each of its chunks. *)
PartEnd(f, at) == IF at + ChonkSize < End(f) THEN at + ChonkSize ELSE End(f)

LEMMA Aligned ==
  ASSUME Given, NEW f \in Fids, Start(f) % ChonkSize = 0
  PROVE  Dbstart(f) = Start(f) /\ Start(f) \in ChonkOffsets
<1>1. Start(f) \in Nat
  BY Database
<1>2. Start(f) \in ChonkOffsets
  BY <1>1, Multiples
<1>3. Dbstart(f) \in ChonkOffsets /\ Dbstart(f) <= Start(f)
        /\ Start(f) < Dbstart(f) + ChonkSize
  BY FileStarts
<1>4. Dbstart(f) \in Nat /\ ChonkSize \in Nat
  BY <1>3, OffsetTypes
<1>5. Dbstart(f) < Start(f) => Dbstart(f) + ChonkSize <= Start(f)
  BY <1>2, <1>3, OffsetsApart
<1>6. Dbstart(f) = Start(f)
  BY <1>1, <1>3, <1>4, <1>5
<1> QED
  BY <1>2, <1>6

LEMMA StateIs ==
  ASSUME Given, NEW f \in Fids, NEW e \in EviHashes(f), NEW at, InFile(f, at),
         Start(f) % ChonkSize = 0
  PROVE  IsPart(State(f, e, at), PartEnd(f, at) - at, db.bytes[e], at)
<1> DEFINE n == PartEnd(f, at) - at
           offsets == Cut(f, e, at)!GetChonkData
           b == db.bytes[e]
<1>1. /\ at \in Nat /\ ChonkSize \in Nat /\ ChonkSize > 0
      /\ Start(f) \in Nat /\ Size(f) \in Nat /\ End(f) \in Nat
      /\ Dbstart(f) = Start(f) /\ End(f) = Start(f) + Size(f)
      /\ Len(b) \in Nat /\ End(f) <= Len(b) /\ at >= Start(f) /\ at < End(f)
  BY ChonkNumbers, Aligned DEF InFile
<1>2. From(f, at) = at
  BY <1>1 DEF From
<1>3. at # Start(f) => at >= Start(f) + ChonkSize
  BY <1>1, Aligned, OffsetsApart DEF InFile
<1>4. Keeps(f, e, at) = n /\ n \in Nat /\ n <= DataEnd(e, at) - at
  <2> HIDE DEF b
  <2>1. DataEnd(e, at) = IF at + ChonkSize < Len(b) THEN at + ChonkSize
                                                    ELSE Len(b)
    BY DEF DataEnd, b
  <2>2. n \in Nat /\ n <= DataEnd(e, at) - at
    BY <1>1, <2>1 DEF PartEnd
  <2>3. CASE at = Start(f)
    BY <1>1, <1>2, <2>1, <2>3 DEF Keeps, PartEnd
  <2>4. CASE at >= Start(f) + ChonkSize
    BY <1>1, <1>2, <2>1, <2>4 DEF Keeps, PartEnd
  <2> QED
    BY <1>3, <2>2, <2>3, <2>4
<1>5. offsets = [k \in 1 .. n |-> at + k - 1]
  BY <1>2, <1>4, ChonkDataIs
<1>6. State(f, e, at) =
        [k \in DOMAIN offsets |-> IF offsets[k] = Junk THEN Junk
                                  ELSE b[offsets[k] + 1]]
  BY DEF State
<1> HIDE DEF n, offsets, b
<1>7. \A k \in 1 .. n : offsets[k] # Junk /\ offsets[k] + 1 = at + k
  BY <1>1, <1>4, <1>5, BoundsAssumption
<1>8. DOMAIN offsets = 1 .. n
  BY <1>5
<1>9. State(f, e, at) = [k \in 1 .. n |-> b[at + k]]
  BY <1>6, <1>7, <1>8
<1> QED
  BY <1>1, <1>4, <1>9 DEF IsPart, n, b

(* Where the query starts in a chunk, so that it ends in it, or does not   *)
(* but has more than its first byte there.                                 *)
Occ(f) == Hits(db.bytes[image[f]], Start(f), End(f) - Len(query))

Inner(f, at) ==
  {p \in Occ(f) : p \in at .. at + ChonkSize - 1
                    /\ p + Len(query) <= at + ChonkSize}
Outer(f, at) ==
  {p \in Occ(f) : /\ p \in at .. at + ChonkSize - 1
                  /\ p + Len(query) > at + ChonkSize
                  /\ p + 1 # at + ChonkSize}

LEMMA InnerCount ==
  ASSUME Given, NEW f \in Fids, image[f] \in EviHashes(f), NEW at,
         InFile(f, at), Start(f) % ChonkSize = 0
  PROVE  Count(State(f, image[f], at)) = Cardinality(Inner(f, at))
<1> DEFINE b == db.bytes[image[f]]
           q == Len(query)
           n == PartEnd(f, at) - at
<1>1. /\ at \in Nat /\ ChonkSize \in Nat /\ ChonkSize > 0
      /\ Start(f) \in Nat /\ End(f) \in Nat
      /\ at >= Start(f) /\ at < End(f)
  BY ChonkNumbers, Aligned DEF InFile
<1>2. q \in Nat /\ q > 0
  BY QueryLen
<1>3. Count(State(f, image[f], at)) = Cardinality(Hits(b, at, at + n - q))
  <2> HIDE DEF b, n
  <2>1. IsPart(State(f, image[f], at), n, b, at)
    BY StateIs DEF b, n
  <2> QED
    BY <2>1, CountIs
<1>4. \A p \in Int :
        p \in at .. at + n - q
          <=> /\ p \in Start(f) .. End(f) - q
              /\ p \in at .. at + ChonkSize - 1 /\ p + q <= at + ChonkSize
  BY <1>1, <1>2 DEF PartEnd
<1>5. Hits(b, at, at + n - q) = Inner(f, at)
  <2> HIDE DEF b, n, q
  <2>1. /\ \A p \in at .. at + n - q : p \in Int
        /\ \A p \in Start(f) .. End(f) - q : p \in Int
    OBVIOUS
  <2>2. Occ(f) = Hits(b, Start(f), End(f) - q)
    BY DEF Occ, b, q
  <2>3. \A p : p \in Inner(f, at) <=> p \in Occ(f)
          /\ p \in at .. at + ChonkSize - 1 /\ p + q <= at + ChonkSize
    BY DEF Inner, q
  <2> QED
    BY <1>4, <2>1, <2>2, <2>3 DEF Hits
<1> QED
  BY <1>3, <1>5

(* Parts of parts, and of two parts that meet.                             *)
LEMMA PartSeq ==
  ASSUME NEW n, NEW s, NEW b, NEW d, IsPart(s, n, b, d)
  PROVE  /\ n \in Nat /\ d \in Nat /\ Len(s) = n
         /\ \A i \in 1 .. n : s[i] = b[d + i]
         /\ \E S : s \in Seq(S)
<1> DEFINE S == {b[d + i] : i \in 1 .. n}
<1>1. n \in Nat /\ d \in Nat /\ s = [i \in 1 .. n |-> b[d + i]]
  BY DEF IsPart
<1>2. s \in [1 .. n -> S]
  BY <1>1
<1>3. Len(s) = n /\ s \in Seq(S)
  <2> HIDE DEF S
  <2> QED
    BY ONLY <1>1, <1>2
<1> QED
  BY <1>1, <1>3

LEMMA PartSub ==
  ASSUME NEW n, NEW s, NEW b, NEW d, IsPart(s, n, b, d),
         NEW x \in Nat, NEW y \in Nat, 1 <= x, x <= y + 1, y <= n
  PROVE  IsPart(SubSeq(s, x, y), y - x + 1, b, d + x - 1)
<1>1. PICK S : /\ n \in Nat /\ d \in Nat /\ Len(s) = n /\ s \in Seq(S)
               /\ \A i \in 1 .. n : s[i] = b[d + i]
  BY PartSeq
<1>2. SubSeq(s, x, y) = [j \in 1 .. y - x + 1 |-> s[x + j - 1]]
  BY <1>1
<1>3. \A j \in 1 .. y - x + 1 :
        x + j - 1 \in 1 .. n /\ d + (x + j - 1) = (d + x - 1) + j
  BY <1>1
<1>4. SubSeq(s, x, y) = [j \in 1 .. y - x + 1 |-> b[(d + x - 1) + j]]
  BY <1>1, <1>2, <1>3
<1>5. y - x + 1 \in Nat /\ d + x - 1 \in Nat
  BY <1>1
<1> QED
  BY <1>4, <1>5 DEF IsPart

LEMMA PartCat ==
  ASSUME NEW n, NEW s, NEW b, NEW d, IsPart(s, n, b, d),
         NEW m, NEW t, IsPart(t, m, b, d + n)
  PROVE  IsPart(s \o t, n + m, b, d)
<1>1. PICK S : /\ n \in Nat /\ d \in Nat /\ Len(s) = n /\ s \in Seq(S)
               /\ \A i \in 1 .. n : s[i] = b[d + i]
  BY PartSeq
<1>2. PICK T : /\ m \in Nat /\ Len(t) = m /\ t \in Seq(T)
               /\ \A i \in 1 .. m : t[i] = b[(d + n) + i]
  BY PartSeq
<1>3. s \o t = [j \in 1 .. n + m |-> IF j <= n THEN s[j] ELSE t[j - n]]
  <2> DEFINE U == S \cup T
  <2>1. s \in Seq(U) /\ t \in Seq(U)
    BY <1>1, <1>2
  <2> HIDE DEF U
  <2>2. PICK c : c = s \o t
    OBVIOUS
  <2>3. c \in Seq(U) /\ Len(c) = n + m
    BY ONLY <1>1, <1>2, <2>1, <2>2, ConcatProperties
  <2>4. c = [j \in 1 .. n + m |-> c[j]]
    BY <2>3
  <2>5. \A j \in 1 .. n + m : c[j] = IF j <= n THEN s[j] ELSE t[j - n]
    <3>1. \A j \in 1 .. Len(s) + Len(t) :
            (s \o t)[j] = IF j <= Len(s) THEN s[j] ELSE t[j - Len(s)]
      BY ONLY <2>1, ConcatProperties
    <3>2. Len(s) = n /\ Len(t) = m
      BY <1>1, <1>2
    <3> QED
      BY <2>2, <3>1, <3>2, Zenon
  <2> QED
    BY <2>2, <2>4, <2>5
<1>4. \A j \in 1 .. n + m :
        /\ j <= n => j \in 1 .. n
        /\ ~(j <= n) => j - n \in 1 .. m /\ (d + n) + (j - n) = d + j
  BY <1>1, <1>2
<1>5. \A j \in 1 .. n + m : (IF j <= n THEN s[j] ELSE t[j - n]) = b[d + j]
  BY <1>1, <1>2, <1>4
<1>6. s \o t = [j \in 1 .. n + m |-> b[d + j]]
  BY <1>3, <1>5
<1>7. n + m \in Nat
  BY <1>1, <1>2
<1> QED
  BY <1>1, <1>6, <1>7 DEF IsPart

LEMMA WholePart ==
  ASSUME NEW b, IsSeq(b)
  PROVE  IsPart(b, Len(b), b, 0)
<1>1. Len(b) \in Nat /\ b = [i \in 1 .. Len(b) |-> b[i]]
  <2> DEFINE S == {b[i] : i \in DOMAIN b}
  <2>1. b \in Seq(S)
    BY DEF IsSeq
  <2> HIDE DEF S
  <2> QED
    BY <2>1
<1>2. \A i \in 1 .. Len(b) : b[0 + i] = b[i]
  BY <1>1
<1>3. b = [i \in 1 .. Len(b) |-> b[0 + i]]
  BY <1>1, <1>2
<1> QED
  BY <1>1, <1>3 DEF IsPart

LEMMA Remainder ==
  ASSUME NEW c \in Nat, NEW r \in Nat, r < ChonkSize
  PROVE  (c * ChonkSize + r) % ChonkSize = r
<1> DEFINE x == c * ChonkSize + r
           m == c * ChonkSize
           d == (x \div ChonkSize) * ChonkSize
<1>1. ChonkSize \in Nat /\ ChonkSize > 0 /\ x \in Nat /\ m \in Nat
  BY BoundsAssumption
<1>2. d \in ChonkOffsets /\ d <= x /\ x < d + ChonkSize /\ x = d + (x % ChonkSize)
  <2> HIDE DEF x
  <2>1. d \in ChonkOffsets /\ d <= x /\ x < d + ChonkSize
    BY <1>1, InChonk
  <2>2. x = d + (x % ChonkSize)
    BY <1>1
  <2> QED
    BY <2>1, <2>2
<1>3. m \in ChonkOffsets /\ d \in Nat
  BY <1>2, OffsetTypes DEF ChonkOffsets
<1>4. x = m + r /\ x % ChonkSize \in Nat
  BY <1>1
<1> HIDE DEF x, m, d
<1>5. (m < d => m + ChonkSize <= d) /\ (d < m => d + ChonkSize <= m)
  BY <1>2, <1>3, OffsetsApart
<1>6. m = d
  BY <1>1, <1>2, <1>3, <1>4, <1>5
<1>7. x % ChonkSize = r
  BY <1>1, <1>2, <1>3, <1>4, <1>6
<1> QED
  BY <1>7 DEF x

(* The chunk after one that is not the last has as many bytes of the file  *)
(* as are searched.                                                        *)
LEMMA NextTaken ==
  ASSUME Given, NEW f \in Fids, NEW e \in EviHashes(f), NEW at, InFile(f, at),
         LongEnough(f), ~LastChonk(f, at), Taken >= 0,
         Len(query) - 1 <= ChonkSize
  PROVE  at + ChonkSize + Taken <= End(f) /\ Taken <= ChonkSize
<1>1. /\ at \in Nat /\ ChonkSize \in Nat /\ ChonkSize > 0
      /\ Start(f) \in Nat /\ Size(f) \in Nat /\ End(f) \in Nat
      /\ Dbstart(f) = Start(f) /\ End(f) = Start(f) + Size(f)
      /\ at >= Start(f) /\ at + ChonkSize < End(f)
  BY ChonkNumbers, Aligned DEF InFile, LongEnough, LastChonk
<1>2. Len(query) \in Nat /\ Len(query) >= 2 /\ Taken = Len(query) - 2
  BY QueryLen DEF Taken
<1>3. PICK k \in Nat, l \in Nat : at = k * ChonkSize /\ Start(f) = l * ChonkSize
  BY Aligned DEF InFile, ChonkOffsets, LongEnough
<1>4. CASE End(f) - (at + ChonkSize) >= ChonkSize
  BY <1>1, <1>2, <1>4
<1>5. CASE End(f) - (at + ChonkSize) < ChonkSize
  <2> DEFINE r == End(f) - (at + ChonkSize)
             c == k - l + 1
  <2>1. r \in Nat /\ r > 0 /\ r < ChonkSize
    BY <1>1, <1>5
  <2>2. l <= k
    BY <1>1, <1>3
  <2>3. c \in Nat /\ Size(f) = c * ChonkSize + r
    BY <1>1, <1>3, <2>2
  <2> HIDE DEF r, c
  <2>4. Size(f) % ChonkSize = r
    BY <1>1, <2>1, <2>3, Remainder
  <2>5. r >= Taken
    BY <2>1, <2>4 DEF LongEnough
  <2> QED
    BY <1>1, <1>2, <2>1, <2>5 DEF r
<1> QED
  BY <1>1, <1>4, <1>5

LEMMA AroundIs ==
  ASSUME Given, NEW f \in Fids, image[f] \in EviHashes(f), NEW at,
         InFile(f, at), LongEnough(f), ~LastChonk(f, at),
         Len(State(f, image[f], at)) >= Len(query) - 1, Taken >= 0
  PROVE  /\ at \in Nat /\ Len(query) \in Nat /\ Len(query) >= 2
         /\ ChonkSize \in Nat /\ Len(query) - 1 <= ChonkSize
         /\ at + ChonkSize + (Len(query) - 2) <= End(f)
         /\ Start(f) \in Nat /\ End(f) \in Nat /\ at >= Start(f)
         /\ IsPart(Around(f, at), (Len(query) - 1) + (Len(query) - 2),
                   db.bytes[image[f]], at + ChonkSize - Len(query) + 1)
<1> DEFINE e == image[f]
           b == db.bytes[e]
           q == Len(query)
           C == ChonkSize
           first == State(f, e, at)
           to == at + C
           hi == IF to + C < Len(b) THEN to + C ELSE Len(b)
           second == Chonk(e, to)
<1>1. /\ at \in Nat /\ C \in Nat /\ C > 0 /\ Start(f) \in Nat /\ End(f) \in Nat
      /\ Len(b) \in Nat /\ End(f) <= Len(b) /\ at >= Start(f) /\ to < End(f)
  <2>1. /\ at \in Nat /\ C \in Nat /\ C > 0 /\ Start(f) \in Nat
        /\ End(f) \in Nat /\ Len(b) \in Nat /\ End(f) <= Len(b)
    BY ChonkNumbers
  <2>2. Dbstart(f) = Start(f)
    BY Aligned DEF LongEnough
  <2>3. at >= Start(f)
    BY <2>2 DEF InFile
  <2>4. to < End(f)
    BY <2>1 DEF LastChonk
  <2> QED
    BY ONLY <2>1, <2>3, <2>4
<1>2. q \in Nat /\ q >= 2 /\ Taken = q - 2
  BY QueryLen DEF Taken
<1>3. IsPart(first, C, b, at)
  <2>1. IsPart(first, PartEnd(f, at) - at, b, at)
    BY StateIs DEF LongEnough
  <2>2. PartEnd(f, at) - at = C
    BY <1>1 DEF PartEnd
  <2> HIDE DEF first, b
  <2> QED
    BY <2>1, <2>2
<1>4. Len(first) = C /\ q - 1 <= C
  <2>1. Len(first) = C
    BY <1>3, PartSeq
  <2> QED
    BY <2>1
<1>5. to + Taken <= End(f) /\ Taken <= C
  BY <1>4, NextTaken
<1>6. IsPart(b, Len(b), b, 0)
  BY Database, WholePart
<1>7. Taken <= hi - to /\ hi - to \in Nat /\ hi \in Nat /\ hi <= Len(b)
  <2> HIDE DEF b
  <2> QED
    BY <1>1, <1>2, <1>5
<1>8. IsPart(second, hi - to, b, to)
  <2>1. second = SubSeq(b, to + 1, hi)
    BY DEF Chonk
  <2> HIDE DEF b, hi, to, second
  <2>2. to \in Nat
    BY <1>1 DEF to
  <2>3. to + 1 \in Nat /\ 1 <= to + 1 /\ to + 1 <= hi + 1
    BY <1>7, <2>2
  <2>4. IsPart(SubSeq(b, to + 1, hi), hi - (to + 1) + 1, b, 0 + (to + 1) - 1)
    BY <1>6, <1>7, <2>3, PartSub
  <2>5. hi - (to + 1) + 1 = hi - to /\ 0 + (to + 1) - 1 = to
    BY <1>7, <2>2
  <2> QED
    BY <2>1, <2>4, <2>5
<1>9. Len(second) = hi - to
  <2> HIDE DEF second, hi, to, b
  <2> QED
    BY <1>8, PartSeq
<1>10. Around(f, at) = SubSeq(first, C - q + 2, C) \o SubSeq(second, 1, Taken)
  <2>1. Around(f, at) =
          SubSeq(first, Len(first) - q + 2, Len(first))
            \o SubSeq(second, 1, IF Taken < Len(second) THEN Taken
                                                       ELSE Len(second))
    BY DEF Around
  <2>2. (IF Taken < Len(second) THEN Taken ELSE Len(second)) = Taken
    <3> HIDE DEF second, hi, to, b
    <3> QED
      BY <1>2, <1>7, <1>9
  <2> QED
    BY <1>4, <2>1, <2>2, Zenon
<1>11. IsPart(SubSeq(first, C - q + 2, C), q - 1, b, to - q + 1)
  <2> HIDE DEF first, b
  <2>1. /\ C - q + 2 \in Nat /\ 1 <= C - q + 2 /\ C - q + 2 <= C + 1 /\ C <= C
        /\ C - (C - q + 2) + 1 = q - 1
        /\ at + (C - q + 2) - 1 = to - q + 1
    BY <1>1, <1>2, <1>4
  <2>2. IsPart(SubSeq(first, C - q + 2, C), C - (C - q + 2) + 1, b,
               at + (C - q + 2) - 1)
    BY <1>1, <1>3, <2>1, PartSub
  <2> QED
    BY <2>1, <2>2
<1>12. IsPart(SubSeq(second, 1, Taken), q - 2, b, (to - q + 1) + (q - 1))
  <2> HIDE DEF second, b, hi
  <2>1. /\ Taken \in Nat /\ 1 <= Taken + 1 /\ Taken - 1 + 1 = q - 2
        /\ to + 1 - 1 = (to - q + 1) + (q - 1)
    BY <1>1, <1>2
  <2>2. IsPart(SubSeq(second, 1, Taken), Taken - 1 + 1, b, to + 1 - 1)
    <3> HIDE DEF to
    <3> QED
      BY <1>7, <1>8, <2>1, PartSub
  <2> QED
    BY <2>1, <2>2
<1>13. IsPart(Around(f, at), (q - 1) + (q - 2), b, to - q + 1)
  <2> HIDE DEF first, second, b, to, q, C
  <2> QED
    BY <1>10, <1>11, <1>12, PartCat
<1> QED
  BY <1>1, <1>2, <1>4, <1>5, <1>13

LEMMA OuterCount ==
  ASSUME Given, NEW f \in Fids, image[f] \in EviHashes(f), NEW at,
         InFile(f, at), LongEnough(f), ~LastChonk(f, at),
         Len(State(f, image[f], at)) >= Len(query) - 1, Taken >= 0
  PROVE  Count(Around(f, at)) = Cardinality(Outer(f, at))
<1> DEFINE b == db.bytes[image[f]]
           q == Len(query)
           d == at + ChonkSize - q + 1
           n == (q - 1) + (q - 2)
<1>1. /\ at \in Nat /\ q \in Nat /\ q >= 2 /\ ChonkSize \in Nat
      /\ q - 1 <= ChonkSize /\ at + ChonkSize + (q - 2) <= End(f)
      /\ Start(f) \in Nat /\ End(f) \in Nat /\ at >= Start(f)
      /\ IsPart(Around(f, at), n, b, d)
  BY AroundIs
<1>2. Count(Around(f, at)) = Cardinality(Hits(b, d, d + n - q))
  <2> HIDE DEF b, n, d
  <2> QED
    BY <1>1, CountIs
<1>3. \A p \in Int :
        p \in d .. d + n - q
          <=> /\ p \in Start(f) .. End(f) - q
              /\ p \in at .. at + ChonkSize - 1 /\ p + q > at + ChonkSize
              /\ p + 1 # at + ChonkSize
  <2> HIDE DEF q, b
  <2>1. \A p \in Int : p \in d .. d + n - q <=>
          p + q >= at + ChonkSize + 1 /\ p + 2 <= at + ChonkSize
    BY <1>1
  <2>2. ASSUME NEW p \in Int, p + q >= at + ChonkSize + 1,
               p + 2 <= at + ChonkSize
        PROVE  /\ p \in Start(f) .. End(f) - q
               /\ p \in at .. at + ChonkSize - 1 /\ p + q > at + ChonkSize
               /\ p + 1 # at + ChonkSize
    BY <1>1, <2>2
  <2>3. ASSUME NEW p \in Int, p \in at .. at + ChonkSize - 1,
               p + q > at + ChonkSize, p + 1 # at + ChonkSize
        PROVE  p + q >= at + ChonkSize + 1 /\ p + 2 <= at + ChonkSize
    BY <1>1, <2>3
  <2> QED
    BY <2>1, <2>2, <2>3
<1>4. Hits(b, d, d + n - q) = Outer(f, at)
  <2> HIDE DEF b, n, q, d
  <2>1. /\ \A p \in d .. d + n - q : p \in Int
        /\ \A p \in Start(f) .. End(f) - q : p \in Int
    OBVIOUS
  <2>2. Occ(f) = Hits(b, Start(f), End(f) - q)
    BY DEF Occ, b, q
  <2>3. \A p : p \in Outer(f, at) <=> p \in Occ(f)
          /\ p \in at .. at + ChonkSize - 1 /\ p + q > at + ChonkSize
          /\ p + 1 # at + ChonkSize
    BY DEF Outer, q
  <2> QED
    BY <1>3, <2>1, <2>2, <2>3 DEF Hits
<1> QED
  BY <1>2, <1>4

(* What is counted of a chunk when its goroutine is so far, and of a file. *)
Counts(f, at, l) ==
  (IF l \in {"overlap", "ok", "gone"} THEN Inner(f, at) ELSE {})
    \cup (IF l \in {"ok", "gone"} THEN Outer(f, at) ELSE {})

CountedOf(f) ==
  UNION {Counts(f, at, cpc[f][at].at) : at \in DOMAIN cpc[f]}

(* A count in cmap is that of the chunk as some file cuts it, a count to   *)
(* be set that of the chunk as its file does.  While nothing has failed,   *)
(* idmap counts what is counted of the file.                               *)
Cached ==
  \A c \in DOMAIN cmap : \E g \in Fids : \E d \in EviHashes(g) : \E to :
    InFile(g, to) /\ c = Chonk(d, to) /\ cmap[c] = Count(State(g, d, to))

ToSet ==
  \A f \in Fids : \A at \in DOMAIN cpc[f] :
    cpc[f][at].at = "set" =>
      cpc[f][at].count = Count(State(f, image[f], at))

Adds ==
  faults = 0 =>
    \A f \in Fids :
      CutAlike(f) /\ LongEnough(f) =>
        idmap[f] = Cardinality(CountedOf(f))

CountInv == DOMAIN idmap = Fids /\ Cached /\ ToSet /\ Adds

LEMMA SameData ==
  ASSUME UNCHANGED input
  PROVE  /\ \A f, e, at : State(f, e, at)' = State(f, e, at)
         /\ \A e, at : Chonk(e, at)' = Chonk(e, at)
         /\ \A s : Count(s)' = Count(s)
         /\ \A f, at : InFile(f, at)' <=> InFile(f, at)
         /\ \A f : CutAlike(f)' <=> CutAlike(f)
         /\ \A f : LongEnough(f)' <=> LongEnough(f)
<1>1. /\ db' = db /\ query' = query /\ Fids' = Fids
      /\ \A f : /\ EviHashes(f)' = EviHashes(f) /\ Start(f)' = Start(f)
                /\ Size(f)' = Size(f) /\ End(f)' = End(f)
                /\ Dbstart(f)' = Dbstart(f)
  BY SameDb
<1>2. \A f, e, at : State(f, e, at)' = State(f, e, at)
  <2> SUFFICES ASSUME NEW f, NEW e, NEW at
               PROVE  State(f, e, at)' = State(f, e, at)
    OBVIOUS
  <2>1. Cut(f, e, at)!ChonkNode(at)' = Cut(f, e, at)!ChonkNode(at)
    BY <1>1 DEF Cut!ChonkNode, Cut!Bytes, Cut!ChonkEnd
  <2>2. Cut(f, e, at)!FromStart' = Cut(f, e, at)!FromStart
    BY <1>1, <2>1 DEF Cut!FromStart, Cut!dbstart, Cut!GetDBStartOffset
  <2>3. Cut(f, e, at)!Kept' = Cut(f, e, at)!Kept
    BY <1>1, <2>2 DEF Cut!Kept, Cut!end
  <2>4. Cut(f, e, at)!GetChonkData' = Cut(f, e, at)!GetChonkData
    BY <2>2, <2>3 DEF Cut!GetChonkData, Cut!WithinSlice
  <2> QED
    BY <1>1, <2>4 DEF State
<1>3. \A e, at : Chonk(e, at)' = Chonk(e, at)
  BY <1>1 DEF Chonk
<1>4. \A s : Count(s)' = Count(s)
  BY <1>1 DEF Count
<1>5. \A f, at : InFile(f, at)' <=> InFile(f, at)
  BY <1>1 DEF InFile
<1>6. \A f, e : Touches(f, e)' = Touches(f, e)
  BY <1>1 DEF Touches
<1>7. \A f : CutAlike(f)' <=> CutAlike(f)
  BY <1>1, <1>2, <1>3, <1>6 DEF CutAlike
<1>8. \A f : LongEnough(f)' <=> LongEnough(f)
  BY <1>1 DEF LongEnough, Taken
<1> QED
  BY <1>2, <1>3, <1>4, <1>5, <1>7, <1>8

LEMMA SameParts ==
  ASSUME UNCHANGED input, NEW f, image'[f] = image[f]
  PROVE  /\ Occ(f)' = Occ(f)
         /\ \A at : Inner(f, at)' = Inner(f, at) /\ Outer(f, at)' = Outer(f, at)
         /\ \A at, l : Counts(f, at, l)' = Counts(f, at, l)
<1>1. db' = db /\ query' = query /\ Start(f)' = Start(f) /\ End(f)' = End(f)
  BY SameDb
<1>2. Occ(f)' = Occ(f)
  BY <1>1 DEF Occ, Hits
<1>3. \A at : Inner(f, at)' = Inner(f, at) /\ Outer(f, at)' = Outer(f, at)
  BY <1>1, <1>2 DEF Inner, Outer
<1> QED
  BY <1>2, <1>3 DEF Counts

LEMMA SameCounted ==
  ASSUME UNCHANGED input, NEW f, image'[f] = image[f], cpc'[f] = cpc[f]
  PROVE  CountedOf(f)' = CountedOf(f)
BY SameParts DEF CountedOf

LEMMA CountedFinite ==
  ASSUME Given, NEW f \in Fids
  PROVE  /\ IsFiniteSet(CountedOf(f)) /\ Cardinality(CountedOf(f)) \in Nat
         /\ CountedOf(f) \subseteq Occ(f)
<1>1. IsFiniteSet(Occ(f))
  <2>1. Start(f) \in Int /\ End(f) - Len(query) \in Int
    BY Database, QueryLen
  <2> QED
    BY <2>1, HitsFinite DEF Occ
<1>2. CountedOf(f) \subseteq Occ(f)
  BY DEF CountedOf, Counts, Inner, Outer
<1> QED
  BY <1>1, <1>2, FS_Subset, FS_CardinalityType

LEMMA SameCached ==
  ASSUME Cached, UNCHANGED <<input, cmap>>
  PROVE  Cached'
<1>1. cmap' = cmap /\ Fids' = Fids /\ input' = input
  BY SameDb
<1> QED
  BY <1>1, SameData, SameDb DEF Cached

(* Steps that count nothing.                                               *)
LEMMA CountFrame ==
  ASSUME CountInv, UNCHANGED <<input, maps>>, ToSet',
         \A f \in Fids : CountedOf(f)' = CountedOf(f),
         faults' = 0 => faults = 0
  PROVE  CountInv'
<1>1. cmap' = cmap /\ idmap' = idmap /\ Fids' = Fids /\ input' = input
  BY SameDb DEF maps
<1>2. Cached'
  BY <1>1, SameCached DEF CountInv
<1>3. Adds'
  BY <1>1, SameData DEF CountInv, Adds
<1> QED
  BY <1>1, <1>2, <1>3 DEF CountInv

(* Every place is in one chunk.                                            *)
LEMMA InOneChonk ==
  ASSUME FlowInv, NEW f \in Fids, NEW at \in DOMAIN cpc[f],
         NEW to \in DOMAIN cpc[f], to # at, NEW l, NEW m
  PROVE  Counts(f, at, l) \cap Counts(f, to, m) = {}
<1>1. at \in ChonkOffsets /\ to \in ChonkOffsets
  BY ChonkOfFile DEF InFile
<1>2. at \in Nat /\ to \in Nat /\ ChonkSize \in Nat
  BY <1>1, OffsetTypes
<1>3. at + ChonkSize <= to \/ to + ChonkSize <= at
  BY <1>1, <1>2, OffsetsApart
<1>4. \A p : p \in at .. at + ChonkSize - 1 => p \notin to .. to + ChonkSize - 1
  BY <1>2, <1>3
<1>5. /\ \A p \in Counts(f, at, l) : p \in at .. at + ChonkSize - 1
      /\ \A p \in Counts(f, to, m) : p \in to .. to + ChonkSize - 1
  BY DEF Counts, Inner, Outer
<1> QED
  BY <1>4, <1>5

(* The goroutine of one chunk counts more of it.                           *)
LEMMA CountedGrows ==
  ASSUME FlowInv, NEW f \in Fids, NEW at \in DOMAIN cpc[f], NEW t \in Task,
         UNCHANGED <<input, image>>,
         cpc' = [cpc EXCEPT ![f] = [cpc[f] EXCEPT ![at] = t]],
         NEW N,
         Counts(f, at, t.at) = Counts(f, at, cpc[f][at].at) \cup N,
         Counts(f, at, cpc[f][at].at) \cap N = {}
  PROVE  /\ Cardinality(CountedOf(f)')
              = Cardinality(CountedOf(f)) + Cardinality(N)
         /\ N = {} => CountedOf(f)' = CountedOf(f)
<1>1. /\ DOMAIN cpc'[f] = DOMAIN cpc[f] /\ cpc'[f][at] = t
      /\ \A to \in DOMAIN cpc[f] : to # at => cpc'[f][to] = cpc[f][to]
      /\ Given
  BY SetTask DEF FlowInv, Types
<1>2. \A to, l : Counts(f, to, l)' = Counts(f, to, l)
  BY SameParts
<1>3. CountedOf(f)' =
        UNION {Counts(f, to, cpc'[f][to].at) : to \in DOMAIN cpc[f]}
  BY <1>1, <1>2 DEF CountedOf
<1>4. CountedOf(f)' = CountedOf(f) \cup N
  <2>1. ASSUME NEW p, p \in CountedOf(f)' PROVE p \in CountedOf(f) \cup N
    <3>1. PICK to \in DOMAIN cpc[f] : p \in Counts(f, to, cpc'[f][to].at)
      BY <1>3, <2>1
    <3> QED
      BY <1>1, <3>1 DEF CountedOf
  <2>2. ASSUME NEW p, p \in CountedOf(f) PROVE p \in CountedOf(f)'
    <3>1. PICK to \in DOMAIN cpc[f] : p \in Counts(f, to, cpc[f][to].at)
      BY <2>2 DEF CountedOf
    <3>2. p \in Counts(f, to, cpc'[f][to].at)
      BY <1>1, <3>1
    <3> QED
      BY <1>3, <3>2
  <2>3. ASSUME NEW p, p \in N PROVE p \in CountedOf(f)'
    <3>1. p \in Counts(f, at, cpc'[f][at].at)
      BY <1>1, <2>3
    <3> QED
      BY <1>3, <3>1
  <2> QED
    BY <2>1, <2>2, <2>3
<1>5. CountedOf(f) \cap N = {}
  <2> SUFFICES ASSUME NEW p, p \in CountedOf(f), p \in N PROVE FALSE
    OBVIOUS
  <2>1. PICK to \in DOMAIN cpc[f] : p \in Counts(f, to, cpc[f][to].at)
    BY DEF CountedOf
  <2>2. p \in Counts(f, at, t.at)
    OBVIOUS
  <2>3. to = at
    BY <2>1, <2>2, InOneChonk
  <2> QED
    BY <2>1, <2>3
<1>6. IsFiniteSet(CountedOf(f)) /\ Cardinality(CountedOf(f)) \in Nat
  BY <1>1, CountedFinite
<1>7. IsFiniteSet(N) /\ Cardinality(N) \in Nat
  <2>1. N \subseteq Occ(f)
    BY DEF Counts, Inner, Outer
  <2>2. IsFiniteSet(Occ(f))
    <3>1. Start(f) \in Int /\ End(f) - Len(query) \in Int
      BY <1>1, Database, QueryLen
    <3> QED
      BY <3>1, HitsFinite DEF Occ
  <2> QED
    BY <2>1, <2>2, FS_Subset, FS_CardinalityType
<1>8. Cardinality(CountedOf(f) \cup N) = Cardinality(CountedOf(f)) + Cardinality(N)
  <2>1. Cardinality(CountedOf(f) \cup N) = Cardinality(CountedOf(f))
          + Cardinality(N) - Cardinality(CountedOf(f) \cap N)
    BY <1>6, <1>7, FS_Union
  <2>2. Cardinality(CountedOf(f) \cap N) = 0
    BY <1>5, FS_EmptySet
  <2> QED
    BY <1>6, <1>7, <2>1, <2>2
<1> QED
  BY <1>4, <1>8

(* A step of the goroutine of a chunk, with what it adds to the count.     *)
LEMMA TaskCounts ==
  ASSUME FlowInv, CountInv, NEW f \in Fids, NEW at \in DOMAIN cpc[f],
         NEW t \in Task, UNCHANGED <<input, image>>,
         cpc' = [cpc EXCEPT ![f] = [cpc[f] EXCEPT ![at] = t]],
         t.at = "set" => t.count = Count(State(f, image[f], at)),
         DOMAIN idmap' = Fids, \A g \in Fids : g # f => idmap'[g] = idmap[g],
         Cached', faults' = 0 => faults = 0,
         faults' = 0 /\ CutAlike(f) /\ LongEnough(f) =>
           \E N : /\ Counts(f, at, t.at) = Counts(f, at, cpc[f][at].at) \cup N
                  /\ Counts(f, at, cpc[f][at].at) \cap N = {}
                  /\ idmap'[f] = idmap[f] + Cardinality(N)
  PROVE  CountInv'
<1>1. /\ DOMAIN cpc'[f] = DOMAIN cpc[f] /\ cpc'[f][at] = t
      /\ \A to \in DOMAIN cpc[f] : to # at => cpc'[f][to] = cpc[f][to]
      /\ \A g \in Fids : g # f => cpc'[g] = cpc[g]
  BY SetTask DEF FlowInv, Types
<1>2. ToSet'
  <2> SUFFICES ASSUME NEW g \in Fids, NEW to \in DOMAIN cpc'[g],
                      cpc'[g][to].at = "set"
               PROVE  cpc'[g][to].count = Count(State(g, image[g], to))
    BY SameDb, SameData DEF ToSet
  <2>1. CASE g = f /\ to = at
    BY <1>1, <2>1
  <2>2. CASE g # f \/ to # at
    <3>1. to \in DOMAIN cpc[g] /\ cpc'[g][to] = cpc[g][to]
      BY <1>1, <2>2
    <3> QED
      BY <3>1 DEF CountInv, ToSet
  <2> QED
    BY <2>1, <2>2
<1>3. Adds'
  <2> SUFFICES ASSUME faults' = 0, NEW g \in Fids, CutAlike(g), LongEnough(g)
               PROVE  idmap'[g] = Cardinality(CountedOf(g)')
    BY SameDb, SameData DEF Adds
  <2>1. idmap[g] = Cardinality(CountedOf(g))
    BY DEF CountInv, Adds
  <2>2. CASE g = f
    <3>1. PICK N :
            /\ Counts(f, at, t.at) = Counts(f, at, cpc[f][at].at) \cup N
            /\ Counts(f, at, cpc[f][at].at) \cap N = {}
            /\ idmap'[f] = idmap[f] + Cardinality(N)
      BY <2>2
    <3>2. Cardinality(CountedOf(f)')
            = Cardinality(CountedOf(f)) + Cardinality(N)
      BY ONLY <3>1, CountedGrows, FlowInv, f \in Fids, at \in DOMAIN cpc[f],
         t \in Task, UNCHANGED <<input, image>>,
         cpc' = [cpc EXCEPT ![f] = [cpc[f] EXCEPT ![at] = t]], Zenon
    <3>3. idmap[f] = Cardinality(CountedOf(f))
      BY ONLY <2>1, <2>2, Zenon
    <3>4. idmap'[f] = Cardinality(CountedOf(f)')
      BY ONLY <3>1, <3>2, <3>3
    <3> QED
      BY ONLY <2>2, <3>4
  <2>3. CASE g # f
    BY <1>1, <2>1, <2>3, SameCounted
  <2> QED
    BY <2>2, <2>3
<1>4. DOMAIN idmap' = Fids'
  BY SameDb
<1> QED
  BY <1>2, <1>3, <1>4 DEF CountInv

LEMMA InTouches ==
  ASSUME Given, NEW f \in Fids, NEW e, NEW at, InFile(f, at)
  PROVE  at \in Touches(f, e)
<1>1. at \in Nat /\ End(f) \in Nat /\ at < End(f) /\ at >= Dbstart(f)
        /\ at % ChonkSize = 0
  BY Database, OffsetTypes, Multiples DEF InFile
<1> QED
  BY <1>1 DEF Touches

LEMMA AlikeState ==
  ASSUME Given, NEW f \in Fids, NEW e \in EviHashes(f), NEW at, InFile(f, at),
         NEW g \in Fids, NEW d \in EviHashes(g), NEW to, InFile(g, to),
         CutAlike(f), Chonk(e, at) = Chonk(d, to)
  PROVE  State(f, e, at) = State(g, d, to)
BY InTouches DEF CutAlike

LEMMA CountCachedCounts ==
  ASSUME FlowInv, CountInv, NEW f \in Fids, NEW at \in DOMAIN cpc[f],
         CountCached(f, at)
  PROVE  CountInv'
<1> DEFINE t == [cpc[f][at] EXCEPT !.at = "overlap"]
           key == Key(f, at)
<1>1. /\ UNCHANGED flow /\ Searching /\ Goto(f, at, "overlap")
      /\ cpc[f][at].at = "read" /\ faults' = faults /\ cmap' = cmap
      /\ key \in DOMAIN cmap /\ idmap' = [idmap EXCEPT ![f] = @ + cmap[key]]
  BY DEF CountCached, ChonkAt, Found
<1>2. Becomes(f, at, t) /\ t.at = "overlap"
  BY <1>1, GotoBecomes
<1>3. /\ t \in Task /\ UNCHANGED <<input, image>>
      /\ cpc' = [cpc EXCEPT ![f] = [cpc[f] EXCEPT ![at] = t]]
  BY <1>2 DEF Becomes, flow, files
<1> HIDE DEF t, key
<1>4. /\ DOMAIN idmap' = Fids /\ idmap'[f] = idmap[f] + cmap[key]
      /\ \A g \in Fids : g # f => idmap'[g] = idmap[g]
  BY <1>1 DEF CountInv
<1>5. Cached'
  BY <1>1, <1>3, SameCached DEF CountInv
<1>6. /\ Given /\ image[f] \in EviHashes(f) /\ InFile(f, at)
  BY ChonkOfFile
<1>7. ASSUME CutAlike(f), LongEnough(f)
      PROVE  cmap[key] = Cardinality(Inner(f, at))
  <2>0. PICK g \in Fids : \E d \in EviHashes(g) : \E to :
          /\ InFile(g, to) /\ key = Chonk(d, to)
          /\ cmap[key] = Count(State(g, d, to))
    BY <1>1 DEF CountInv, Cached
  <2>a. PICK d \in EviHashes(g) : \E to :
          /\ InFile(g, to) /\ key = Chonk(d, to)
          /\ cmap[key] = Count(State(g, d, to))
    BY <2>0
  <2>1. PICK to :
          /\ InFile(g, to) /\ key = Chonk(d, to)
          /\ cmap[key] = Count(State(g, d, to))
    BY <2>a
  <2>2. key = Chonk(image[f], at)
    BY DEF key, Key
  <2>3. State(f, image[f], at) = State(g, d, to)
    <3>1. Chonk(image[f], at) = Chonk(d, to)
      BY <2>1, <2>2
    <3> QED
      BY <1>6, <1>7, <2>1, <3>1, AlikeState
  <2>4. Count(State(f, image[f], at)) = Cardinality(Inner(f, at))
    BY <1>6, <1>7, InnerCount DEF LongEnough
  <2> QED
    BY <2>1, <2>3, <2>4
<1>8. Counts(f, at, cpc[f][at].at) = {} /\ Counts(f, at, t.at) = Inner(f, at)
  BY <1>1, <1>2 DEF Counts
<1>9. CutAlike(f) /\ LongEnough(f) =>
        \E N : /\ Counts(f, at, t.at) = Counts(f, at, cpc[f][at].at) \cup N
               /\ Counts(f, at, cpc[f][at].at) \cap N = {}
               /\ idmap'[f] = idmap[f] + Cardinality(N)
  BY <1>4, <1>7, <1>8
<1>10. t.at # "set"
  BY <1>2
<1> QED
  BY <1>1, <1>3, <1>4, <1>5, <1>9, <1>10, TaskCounts

LEMMA SetCountCounts ==
  ASSUME FlowInv, CountInv, NEW f \in Fids, NEW at \in DOMAIN cpc[f],
         SetCount(f, at)
  PROVE  CountInv'
<1> DEFINE t == [cpc[f][at] EXCEPT !.at = "overlap"]
           key == Key(f, at)
           n == cpc[f][at].count
<1>1. /\ UNCHANGED flow /\ Searching /\ Goto(f, at, "overlap")
      /\ cpc[f][at].at = "set" /\ faults' = faults
      /\ cmap' = With(cmap, key, n) /\ idmap' = [idmap EXCEPT ![f] = @ + n]
  BY DEF SetCount, ChonkAt, Found
<1>2. Becomes(f, at, t) /\ t.at = "overlap"
  BY <1>1, GotoBecomes
<1>3. /\ t \in Task /\ UNCHANGED <<input, image>>
      /\ cpc' = [cpc EXCEPT ![f] = [cpc[f] EXCEPT ![at] = t]]
  BY <1>2 DEF Becomes, flow, files
<1>4. n = Count(State(f, image[f], at)) /\ key = Chonk(image[f], at)
  BY <1>1 DEF CountInv, ToSet, Key
<1> HIDE DEF t, key, n
<1>5. /\ DOMAIN idmap' = Fids /\ idmap'[f] = idmap[f] + n
      /\ \A g \in Fids : g # f => idmap'[g] = idmap[g]
  BY <1>1 DEF CountInv
<1>6. /\ Given /\ image[f] \in EviHashes(f) /\ InFile(f, at)
  BY ChonkOfFile
<1>7. Cached'
  <2> SUFFICES ASSUME NEW c \in DOMAIN cmap'
               PROVE  \E g \in Fids : \E d \in EviHashes(g) : \E to :
                        /\ InFile(g, to) /\ c = Chonk(d, to)
                        /\ cmap'[c] = Count(State(g, d, to))
    BY <1>3, SameData, SameDb DEF Cached
  <2>1. CASE c = key
    <3>1. cmap'[c] = n
      BY <1>1, <2>1 DEF With
    <3> QED
      BY <1>4, <1>6, <2>1, <3>1
  <2>2. CASE c # key
    <3>1. c \in DOMAIN cmap /\ cmap'[c] = cmap[c]
      BY <1>1, <2>2 DEF With
    <3> QED
      BY <3>1 DEF CountInv, Cached
  <2> QED
    BY <2>1, <2>2
<1>8. LongEnough(f) => n = Cardinality(Inner(f, at))
  BY <1>4, <1>6, InnerCount DEF LongEnough
<1>9. Counts(f, at, cpc[f][at].at) = {} /\ Counts(f, at, t.at) = Inner(f, at)
  BY <1>1, <1>2 DEF Counts
<1>10. LongEnough(f) =>
         \E N : /\ Counts(f, at, t.at) = Counts(f, at, cpc[f][at].at) \cup N
                /\ Counts(f, at, cpc[f][at].at) \cap N = {}
                /\ idmap'[f] = idmap[f] + Cardinality(N)
  BY <1>5, <1>8, <1>9
<1>11. t.at # "set"
  BY <1>2
<1> QED
  BY <1>1, <1>3, <1>5, <1>7, <1>10, <1>11, TaskCounts

(* From the overlap to the end of a chunk.                                 *)
LEMMA OverlapCounts ==
  ASSUME FlowInv, CountInv, NEW f \in Fids, NEW at \in DOMAIN cpc[f],
         NoOverlap(f, at) \/ SearchOverlap(f, at)
  PROVE  CountInv'
<1> DEFINE t == [cpc[f][at] EXCEPT !.at = "ok"]
<1>1. /\ UNCHANGED flow /\ Searching /\ Goto(f, at, "ok")
      /\ cpc[f][at].at = "overlap" /\ faults' = faults /\ cmap' = cmap
  BY DEF NoOverlap, SearchOverlap, ChonkAt, maps
<1>2. Becomes(f, at, t) /\ t.at = "ok"
  BY <1>1, GotoBecomes
<1>3. /\ t \in Task /\ UNCHANGED <<input, image>>
      /\ cpc' = [cpc EXCEPT ![f] = [cpc[f] EXCEPT ![at] = t]]
  BY <1>2 DEF Becomes, flow, files
<1> HIDE DEF t
<1>4. /\ DOMAIN idmap' = Fids /\ \A g \in Fids : g # f => idmap'[g] = idmap[g]
      /\ NoOverlap(f, at) => idmap'[f] = idmap[f]
      /\ SearchOverlap(f, at) => idmap'[f] = idmap[f] + Count(Around(f, at))
  BY DEF CountInv, NoOverlap, SearchOverlap, maps, Found
<1>5. Cached'
  BY <1>1, <1>3, SameCached DEF CountInv
<1>6. /\ Given /\ image[f] \in EviHashes(f) /\ InFile(f, at)
  BY ChonkOfFile
<1>7. ASSUME LongEnough(f), faults = 0, CutAlike(f)
      PROVE  idmap'[f] = idmap[f] + Cardinality(Outer(f, at))
  <2>1. CASE SearchOverlap(f, at)
    <3>1. Count(Around(f, at)) = Cardinality(Outer(f, at))
      BY <1>6, <1>7, <2>1, OuterCount DEF SearchOverlap
    <3> QED
      BY <1>4, <2>1, <3>1
  <2>2. CASE NoOverlap(f, at)
    <3>1. /\ at \in Nat /\ ChonkSize \in Nat /\ End(f) \in Nat
          /\ at + ChonkSize >= End(f) /\ Len(query) \in Nat
          /\ Start(f) \in Nat
      BY <1>6, <2>2, ChonkNumbers, QueryLen DEF NoOverlap, LastChonk
    <3>2. \A p \in Occ(f) : p \in Start(f) .. End(f) - Len(query)
      BY DEF Occ, Hits
    <3>3. \A p \in Start(f) .. End(f) - Len(query) :
            ~(p + Len(query) > at + ChonkSize)
      BY <3>1
    <3>4. Outer(f, at) = {}
      BY <3>2, <3>3 DEF Outer
    <3>5. idmap[f] = Cardinality(CountedOf(f))
      BY <1>7 DEF CountInv, Adds
    <3>6. idmap[f] \in Nat /\ Cardinality(Outer(f, at)) = 0
      BY <1>6, <3>4, <3>5, CountedFinite, FS_EmptySet
    <3> QED
      BY <1>4, <2>2, <3>6
  <2> QED
    BY <2>1, <2>2
<1>8. /\ Counts(f, at, cpc[f][at].at) = Inner(f, at)
      /\ Counts(f, at, t.at) = Inner(f, at) \cup Outer(f, at)
  BY <1>1, <1>2 DEF Counts
<1>9. Inner(f, at) \cap Outer(f, at) = {}
  <2>1. at \in Nat /\ ChonkSize \in Nat /\ Len(query) \in Nat
    BY <1>6, ChonkNumbers, QueryLen
  <2>2. \A p \in at .. at + ChonkSize - 1 :
          ~(p + Len(query) <= at + ChonkSize /\ p + Len(query) > at + ChonkSize)
    BY <2>1
  <2> QED
    BY <2>2 DEF Inner, Outer
<1>10. faults = 0 /\ LongEnough(f) /\ CutAlike(f) =>
         \E N : /\ Counts(f, at, t.at) = Counts(f, at, cpc[f][at].at) \cup N
                /\ Counts(f, at, cpc[f][at].at) \cap N = {}
                /\ idmap'[f] = idmap[f] + Cardinality(N)
  BY <1>7, <1>8, <1>9
<1>11. t.at # "set"
  BY <1>2
<1> QED
  BY <1>1, <1>3, <1>4, <1>5, <1>10, <1>11, TaskCounts

LEMMA CountChonkCounts ==
  ASSUME FlowInv, CountInv, NEW f \in Fids, NEW at \in DOMAIN cpc[f],
         CountChonk(f, at)
  PROVE  CountInv'
<1> DEFINE t == [at |-> "set", count |-> Count(State(f, image[f], at))]
<1>1. Becomes(f, at, t)
  BY CountChonkBecomes
<1>2. t.at = "set" /\ t.count = Count(State(f, image[f], at))
  OBVIOUS
<1>3. /\ cpc[f][at].at = "read" /\ faults' = faults
      /\ UNCHANGED <<cmap, idmap>>
  BY DEF CountChonk, ChonkAt, maps
<1> HIDE DEF t
<1>4. /\ t \in Task /\ UNCHANGED <<input, image>>
      /\ cpc' = [cpc EXCEPT ![f] = [cpc[f] EXCEPT ![at] = t]]
  BY <1>1 DEF Becomes, flow, files
<1>5. DOMAIN idmap' = Fids /\ Cached'
  BY <1>3, <1>4, SameCached DEF CountInv
<1>6. Counts(f, at, cpc[f][at].at) = {} /\ Counts(f, at, t.at) = {}
  BY <1>2, <1>3 DEF Counts
<1>7. faults = 0 /\ CutAlike(f) /\ LongEnough(f) =>
        idmap'[f] = idmap[f] + Cardinality({})
  <2>1. faults = 0 /\ CutAlike(f) /\ LongEnough(f) => idmap[f] \in Nat
    BY ChonkOfFile, CountedFinite DEF CountInv, Adds
  <2> QED
    BY <1>3, <2>1, FS_EmptySet
<1>8. faults = 0 /\ CutAlike(f) /\ LongEnough(f) =>
        \E N : /\ Counts(f, at, t.at) = Counts(f, at, cpc[f][at].at) \cup N
               /\ Counts(f, at, cpc[f][at].at) \cap N = {}
               /\ idmap'[f] = idmap[f] + Cardinality(N)
  <2>1. {} = {} \cup {} /\ {} \cap {} = {}
    OBVIOUS
  <2> QED
    BY <1>6, <1>7, <2>1, Zenon
<1> QED
  BY <1>2, <1>3, <1>4, <1>5, <1>8, TaskCounts

(* A chunk that is heard of has been counted, or has failed.               *)
LEMMA CollectChonkCounts ==
  ASSUME FlowInv, CountInv, NEW f \in Fids, NEW at \in DOMAIN cpc[f],
         CollectChonk(f, at)
  PROVE  CountInv'
<1>1. PICK t \in Task :
        t.at = "gone" /\ cpc' = [cpc EXCEPT ![f] = [cpc[f] EXCEPT ![at] = t]]
  BY CollectSets DEF FlowInv, Types
<1>2. /\ UNCHANGED <<input, image, cmap, idmap, faults>>
      /\ cpc[f][at].at \in {"ok", "error"}
  BY DEF CollectChonk, maps
<1>3. DOMAIN idmap' = Fids /\ Cached'
  BY <1>2, SameCached DEF CountInv
<1>4. faults = 0 => Counts(f, at, t.at) = Counts(f, at, cpc[f][at].at)
  <2>1. faults = 0 => cpc[f][at].at = "ok"
    BY <1>2 DEF FlowInv, Erring
  <2> QED
    BY <1>1, <2>1 DEF Counts
<1>5. faults = 0 /\ CutAlike(f) /\ LongEnough(f) =>
        idmap'[f] = idmap[f] + Cardinality({})
  <2>1. faults = 0 /\ CutAlike(f) /\ LongEnough(f) => idmap[f] \in Nat
    BY ChonkOfFile, CountedFinite DEF CountInv, Adds
  <2> QED
    BY <1>2, <2>1, FS_EmptySet
<1>6. faults = 0 /\ CutAlike(f) /\ LongEnough(f) =>
        \E N : /\ Counts(f, at, t.at) = Counts(f, at, cpc[f][at].at) \cup N
               /\ Counts(f, at, cpc[f][at].at) \cap N = {}
               /\ idmap'[f] = idmap[f] + Cardinality(N)
  <2>1. \A S : S = S \cup {} /\ S \cap {} = {}
    OBVIOUS
  <2> QED
    BY <1>4, <1>5, <2>1, Zenon
<1>7. t.at # "set"
  BY <1>1
<1> QED
  BY <1>1, <1>2, <1>3, <1>6, <1>7, TaskCounts

LEMMA ChonkFailsCounts ==
  ASSUME FlowInv, CountInv, NEW f \in Fids, NEW at \in DOMAIN cpc[f],
         ChonkFails(f, at)
  PROVE  CountInv'
<1> DEFINE t == [cpc[f][at] EXCEPT !.at = "error"]
<1>1. /\ UNCHANGED flow /\ Searching /\ Goto(f, at, "error")
      /\ faults' = faults + 1 /\ UNCHANGED <<cmap, idmap>>
  BY DEF ChonkFails, ChonkAt, Fault, maps
<1>2. Becomes(f, at, t) /\ t.at = "error"
  BY <1>1, GotoBecomes
<1>3. /\ t \in Task /\ UNCHANGED <<input, image>>
      /\ cpc' = [cpc EXCEPT ![f] = [cpc[f] EXCEPT ![at] = t]]
  BY <1>2 DEF Becomes, flow, files
<1> HIDE DEF t
<1>4. faults' # 0
  BY <1>1 DEF FlowInv, Types
<1>5. DOMAIN idmap' = Fids /\ Cached'
  BY <1>1, <1>3, SameCached DEF CountInv
<1>6. t.at # "set"
  BY <1>2
<1> QED
  BY <1>1, <1>3, <1>4, <1>5, <1>6, TaskCounts

LEMMA SpawnChonkCounts ==
  ASSUME FlowInv, CountInv, NEW f \in Fids, SpawnChonk(f)
  PROVE  CountInv'
<1> DEFINE s == sindex[f]
           new == [at |-> "read", count |-> 0]
<1>1. /\ cpc' = [cpc EXCEPT ![f] = With(cpc[f], s, new)]
      /\ UNCHANGED <<input, image, maps, faults>> /\ fpc[f] = "chonks"
  BY DEF SpawnChonk
<1>2. InImage(f) /\ cpc \in [Fids -> Tasks]
  BY <1>1 DEF FlowInv, Types, Cutting, NoImage
<1>3. s \notin DOMAIN cpc[f]
  <2>1. s \in Nat
    BY <1>2, OffsetTypes DEF InImage
  <2> QED
    BY <1>2, <2>1 DEF InImage
<1>4. new.at = "read"
  OBVIOUS
<1> HIDE DEF new
<1>5. /\ DOMAIN cpc'[f] = DOMAIN cpc[f] \cup {s} /\ cpc'[f][s].at = "read"
      /\ \A at \in DOMAIN cpc[f] : cpc'[f][at] = cpc[f][at]
      /\ \A g \in Fids : g # f => cpc'[g] = cpc[g]
  BY <1>1, <1>2, <1>3, <1>4 DEF With
<1>6. ToSet'
  BY <1>1, <1>5, SameDb, SameData DEF CountInv, ToSet
<1>7. ASSUME NEW g \in Fids PROVE CountedOf(g)' = CountedOf(g)
  <2>1. CASE g = f
    <3>1. \A at, l : Counts(f, at, l)' = Counts(f, at, l)
      BY <1>1, SameParts
    <3>2. CountedOf(f)' = UNION {Counts(f, at, cpc'[f][at].at) :
                                   at \in DOMAIN cpc[f] \cup {s}}
      BY <1>5, <3>1 DEF CountedOf
    <3>3. Counts(f, s, cpc'[f][s].at) = {}
      BY <1>5 DEF Counts
    <3> QED
      BY <1>5, <2>1, <3>2, <3>3 DEF CountedOf
  <2>2. CASE g # f
    BY <1>1, <1>5, <2>2, SameCounted
  <2> QED
    BY <2>1, <2>2
<1> QED
  BY <1>1, <1>6, <1>7, CountFrame

LEMMA GetFileMetaCounts ==
  ASSUME FlowInv, CountInv, NEW f \in Fids, GetFileMeta(f)
  PROVE  CountInv'
<1>1. /\ UNCHANGED <<input, cpc, maps, faults>> /\ fpc[f] = "meta"
      /\ \A g \in Fids : g # f => image'[g] = image[g]
  BY DEF GetFileMeta, FlowInv, Types
<1>2. DOMAIN cpc[f] = {}
  BY <1>1 DEF FlowInv, Cutting, NoImage, InImage
<1>3. ToSet'
  BY <1>1, <1>2, SameDb, SameData DEF CountInv, ToSet
<1>4. ASSUME NEW g \in Fids PROVE CountedOf(g)' = CountedOf(g)
  <2>1. CASE g = f
    BY <1>1, <1>2, <2>1 DEF CountedOf
  <2>2. CASE g # f
    BY <1>1, <2>2, SameCounted
  <2> QED
    BY <2>1, <2>2
<1> QED
  BY <1>1, <1>3, <1>4, CountFrame

(* Steps that have nothing to do with chunks.                              *)
LEMMA QuietCounts ==
  ASSUME FlowInv, CountInv, UNCHANGED <<input, image, cpc, maps>>,
         faults' = faults \/ faults' = faults + 1
  PROVE  CountInv'
<1>1. faults' = 0 => faults = 0
  BY DEF FlowInv, Types
<1>2. ToSet'
  BY SameDb, SameData DEF CountInv, ToSet
<1>3. \A f \in Fids : CountedOf(f)' = CountedOf(f)
  BY SameCounted
<1> QED
  BY <1>1, <1>2, <1>3, CountFrame

LEMMA CountInit == Init => CountInv
<1> SUFFICES ASSUME Init PROVE CountInv
  OBVIOUS
<1>1. /\ cmap = <<>> /\ idmap = [f \in Fids |-> 0]
      /\ \A f \in Fids : DOMAIN cpc[f] = {}
  BY DEF Init
<1>2. DOMAIN cmap = {} /\ DOMAIN idmap = Fids
  BY <1>1
<1>3. \A f \in Fids : CountedOf(f) = {}
  BY <1>1 DEF CountedOf
<1>4. Adds
  BY <1>1, <1>3, FS_EmptySet DEF Adds
<1> QED
  BY <1>1, <1>2, <1>4 DEF CountInv, Cached, ToSet

LEMMA CountStep == FlowInv /\ CountInv /\ [Next]_vars => CountInv'
<1> SUFFICES ASSUME FlowInv, CountInv, [Next]_vars PROVE CountInv'
  OBVIOUS
<1>1. CASE UNCHANGED vars
  BY <1>1, QuietCounts DEF vars, files
<1>2. CASE NextNamespace
  BY <1>2, QuietCounts DEF NextNamespace, files
<1>3. ASSUME NEW f \in Fids,
             \/ SpawnFile(f) \/ CollectFile(f) \/ FileMetaFails(f)
             \/ FileSearched(f)
      PROVE  CountInv'
  BY <1>3, QuietCounts DEF SpawnFile, CollectFile, FileMetaFails, FileSearched,
     Fault
<1>4. ASSUME NEW f \in Fids, NEW at \in DOMAIN cpc[f],
             \/ CollectChonk(f, at)
             \/ CountCached(f, at) \/ CountChonk(f, at) \/ SetCount(f, at)
             \/ NoOverlap(f, at) \/ SearchOverlap(f, at) \/ ChonkFails(f, at)
      PROVE  CountInv'
  BY <1>4, CollectChonkCounts, CountCachedCounts, CountChonkCounts,
     SetCountCounts, OverlapCounts, ChonkFailsCounts
<1>5. ASSUME NEW f, NEW at, ChonkPanics(f, at)
      PROVE  CountInv'
  BY <1>5, QuietCounts DEF ChonkPanics, files
<1>6. CASE ReportStep
  <2>1. CASE ReportFails
    BY <2>1, QuietCounts DEF ReportFails, Fault, files
  <2>2. CASE WriteReport
    BY <2>2, QuietCounts DEF WriteReport, reading, files
  <2>3. CASE EndArtefact
    BY <2>3, QuietCounts DEF EndArtefact, reading, files
  <2>4. ASSUME NEW f, ReportArtefact(f) \/ ReportName(f) PROVE CountInv'
    BY <2>4, QuietCounts DEF ReportArtefact, ReportName, reading, files
  <2> QED
    BY <1>6, <2>1, <2>2, <2>3, <2>4 DEF ReportStep
<1> QED
  BY <1>1, <1>2, <1>3, <1>4, <1>5, <1>6, SpawnChonkCounts, GetFileMetaCounts
     DEF Next, SearchStep

(* What the overlap misses.                                                *)
Missed(f) ==
  {p \in Occ(f) : Len(query) > 1 /\ (p + 1) % ChonkSize = 0}

LEMMA BytesIs ==
  ASSUME Given, NEW f \in Fids, NEW e \in EviHashes(f)
  PROVE  IsPart(Bytes(f, e), Size(f), db.bytes[e], Start(f))
<1> DEFINE b == db.bytes[e]
<1>1. /\ Start(f) \in Nat /\ Size(f) \in Nat /\ End(f) = Start(f) + Size(f)
      /\ IsSeq(b) /\ End(f) <= Len(b)
  BY Database DEF End
<1> HIDE DEF b
<1>2. IsPart(b, Len(b), b, 0)
  BY <1>1, WholePart
<1>3. /\ Start(f) + 1 \in Nat /\ End(f) \in Nat /\ 1 <= Start(f) + 1
      /\ Start(f) + 1 <= End(f) + 1
      /\ End(f) - (Start(f) + 1) + 1 = Size(f)
      /\ 0 + (Start(f) + 1) - 1 = Start(f)
  BY <1>1
<1>4. IsPart(SubSeq(b, Start(f) + 1, End(f)), End(f) - (Start(f) + 1) + 1, b,
             0 + (Start(f) + 1) - 1)
  BY <1>1, <1>2, <1>3, PartSub
<1> QED
  BY <1>3, <1>4 DEF Bytes, b

LEMMA BytesCount ==
  ASSUME Given, NEW f \in Fids, image[f] \in EviHashes(f)
  PROVE  Count(Bytes(f, image[f])) = Cardinality(Occ(f))
<1>1. End(f) = Start(f) + Size(f)
  BY DEF End
<1>2. IsPart(Bytes(f, image[f]), Size(f), db.bytes[image[f]], Start(f))
  BY BytesIs
<1>3. Count(Bytes(f, image[f])) =
        Cardinality(Hits(db.bytes[image[f]], Start(f),
                         Start(f) + Size(f) - Len(query)))
  BY <1>2, CountIs
<1>4. Start(f) + Size(f) - Len(query) = End(f) - Len(query)
  <2>1. Start(f) \in Nat /\ Size(f) \in Nat /\ Len(query) \in Nat
    BY Database, QueryLen
  <2> QED
    BY ONLY <1>1, <2>1
<1>5. Occ(f) = Hits(db.bytes[image[f]], Start(f), End(f) - Len(query))
  BY DEF Occ
<1> QED
  BY <1>3, <1>4, <1>5

LEMMA MissedCount ==
  ASSUME Given, NEW f \in Fids, image[f] \in EviHashes(f)
  PROVE  Cardinality(AcrossAfterOne(f, image[f])) = Cardinality(Missed(f))
<1> DEFINE b == db.bytes[image[f]]
           q == Len(query)
           s == Start(f)
           n == Size(f)
           K == AcrossAfterOne(f, image[f])
           M == Missed(f)
           g == [k \in K |-> s + k - 1]
<1>1. /\ q \in Nat /\ q > 0 /\ s \in Nat /\ n \in Nat /\ End(f) = s + n
  BY Database, QueryLen DEF End
<1>2. IsPart(Bytes(f, image[f]), n, b, s)
  BY BytesIs
<1>3. \A k \in 1 .. n - q + 1 :
        SubSeq(Bytes(f, image[f]), k, k + q - 1) = query
          <=> \A j \in 1 .. q : b[(s + k - 1) + j] = query[j]
  <2> HIDE DEF n, s, b
  <2> QED
    BY <1>2, PartIs
<1>4. \A k : k \in K <=>
        /\ k \in 1 .. n - q + 1 /\ q > 1 /\ (s + k) % ChonkSize = 0
        /\ \A j \in 1 .. q : b[(s + k - 1) + j] = query[j]
  <2>1. \A k : k \in K <=>
          /\ k \in 1 .. n - q + 1 /\ q > 1 /\ (s + k) % ChonkSize = 0
          /\ SubSeq(Bytes(f, image[f]), k, k + q - 1) = query
    BY Zenon DEF AcrossAfterOne
  <2> HIDE DEF K, b, q, s, n
  <2> QED
    BY <1>3, <2>1
<1>5. \A p : p \in M <=>
        /\ p \in s .. s + n - q /\ q > 1 /\ (p + 1) % ChonkSize = 0
        /\ \A j \in 1 .. q : b[p + j] = query[j]
  BY <1>1 DEF Missed, Occ, Hits
<1> HIDE DEF K, M, b, q, s, n
<1>6. \A k \in K : k \in Int /\ s + k - 1 \in M
  <2> SUFFICES ASSUME NEW k \in K PROVE k \in Int /\ s + k - 1 \in M
    OBVIOUS
  <2>1. /\ k \in 1 .. n - q + 1 /\ q > 1 /\ (s + k) % ChonkSize = 0
        /\ \A j \in 1 .. q : b[(s + k - 1) + j] = query[j]
    BY <1>4
  <2>2. /\ k \in Int /\ s + k - 1 \in s .. s + n - q
        /\ (s + k - 1) + 1 = s + k
    BY <1>1, <2>1
  <2> QED
    BY <1>5, <2>1, <2>2
<1>7. \A p \in M : p - s + 1 \in K /\ s + (p - s + 1) - 1 = p
  <2> SUFFICES ASSUME NEW p \in M
               PROVE  p - s + 1 \in K /\ s + (p - s + 1) - 1 = p
    OBVIOUS
  <2>1. /\ p \in s .. s + n - q /\ q > 1 /\ (p + 1) % ChonkSize = 0
        /\ \A j \in 1 .. q : b[p + j] = query[j]
    BY <1>5
  <2>2. /\ p - s + 1 \in 1 .. n - q + 1 /\ s + (p - s + 1) - 1 = p
        /\ s + (p - s + 1) = p + 1
    BY <1>1, <2>1
  <2> QED
    BY <1>4, <2>1, <2>2
<1>8. g \in Bijection(K, M)
  <2>1. g \in [K -> M]
    BY <1>6
  <2>2. \A k, l \in K : g[k] = g[l] => k = l
    BY <1>1, <1>6
  <2>3. \A p \in M : \E k \in K : g[k] = p
    BY <1>7
  <2> QED
    BY <2>1, <2>2, <2>3 DEF Bijection, Injection, Surjection, IsInjective
<1>9. IsFiniteSet(K)
  <2>1. K \subseteq 1 .. n - q + 1 /\ 1 \in Int /\ n - q + 1 \in Int
    BY <1>1, <1>4
  <2> QED
    BY <2>1, FS_Interval, FS_Subset
<1>10. Cardinality(M) = Cardinality(K)
  BY <1>8, <1>9, FS_Bijection DEF ExistsBijection
<1> QED
  BY <1>10 DEF K, M

(* When all chunks are heard of, everything else is counted.               *)
LEMMA AllCounted ==
  ASSUME FlowInv, NEW f \in Fids, image[f] \in EviHashes(f), InImage(f),
         Start(f) % ChonkSize = 0, sindex[f] >= End(f),
         \A at \in DOMAIN cpc[f] : cpc[f][at].at = "gone"
  PROVE  CountedOf(f) = Occ(f) \ Missed(f)
<1> DEFINE q == Len(query)
           C == ChonkSize
<1>1. /\ Given /\ q \in Nat /\ q > 0 /\ C \in Nat /\ C > 0
      /\ Start(f) \in Nat /\ End(f) \in Nat /\ sindex[f] \in Nat
      /\ Dbstart(f) = Start(f) /\ Start(f) \in ChonkOffsets
  BY Database, QueryLen, OffsetTypes, Aligned DEF FlowInv, Types
<1>2. \A p : p \in CountedOf(f) <=>
        \E at \in DOMAIN cpc[f] : p \in Inner(f, at) \/ p \in Outer(f, at)
  BY DEF CountedOf, Counts
<1>3. ASSUME NEW p \in CountedOf(f) PROVE p \in Occ(f) \ Missed(f)
  <2>1. PICK at \in DOMAIN cpc[f] : p \in Inner(f, at) \/ p \in Outer(f, at)
    BY <1>2, <1>3
  <2>2. /\ p \in Occ(f) /\ p \in at .. at + C - 1
        /\ \/ p + q <= at + C
           \/ p + q > at + C /\ p + 1 # at + C
    BY <2>1 DEF Inner, Outer
  <2>3. at \in ChonkOffsets /\ at \in Nat
    BY OffsetTypes DEF InImage
  <2>4. p \in Nat /\ at <= p /\ p < at + C
    BY <1>1, <2>2, <2>3
  <2>5. q > 1 => p + 1 < at + C
    BY <1>1, <2>2, <2>3, <2>4
  <2>6. ASSUME q > 1 PROVE (p + 1) % C # 0
    <3>1. (p + 1) % C = 0 => p + 1 \in ChonkOffsets
      BY <2>4, Multiples
    <3>2. p + 1 \in ChonkOffsets => at + C <= p + 1
      BY <2>3, <2>4, OffsetsApart
    <3> QED
      BY <1>1, <2>3, <2>4, <2>5, <2>6, <3>1, <3>2
  <2> QED
    BY <2>2, <2>6 DEF Missed
<1>4. ASSUME NEW p \in Occ(f), p \notin Missed(f) PROVE p \in CountedOf(f)
  <2> DEFINE at == (p \div C) * C
  <2>1. p \in Start(f) .. End(f) - q
    BY DEF Occ, Hits
  <2>2. p \in Nat /\ p >= Start(f) /\ p + q <= End(f)
    BY <1>1, <2>1
  <2>3. at \in ChonkOffsets /\ at <= p /\ p < at + C
    BY <2>2, InChonk
  <2> HIDE DEF at
  <2>4. at \in Nat
    BY <2>3, OffsetTypes
  <2>5. at >= Start(f)
    <3>1. at < Start(f) => at + C <= Start(f)
      BY <1>1, <2>3, OffsetsApart
    <3> QED
      BY <1>1, <2>2, <2>3, <2>4, <3>1
  <2>6. at < sindex[f]
    BY <1>1, <2>2, <2>3, <2>4
  <2>7. at \in DOMAIN cpc[f]
    BY <1>1, <2>3, <2>5, <2>6 DEF InImage
  <2>8. p \in at .. at + C - 1
    BY <1>1, <2>2, <2>3, <2>4
  <2>9. CASE p + q <= at + C
    BY <1>2, <2>7, <2>8, <2>9 DEF Inner
  <2>10. CASE p + q > at + C
    <3>1. p + 1 # at + C
      <4> SUFFICES ASSUME p + 1 = at + C PROVE FALSE
        OBVIOUS
      <4>1. q > 1
        BY <1>1, <2>2, <2>4, <2>10
      <4>2. at + C \in ChonkOffsets /\ p + 1 \in Nat
        BY <2>2, <2>3, OffsetTypes
      <4>3. (p + 1) % C = 0
        BY <4>2, Multiples
      <4> QED
        BY <1>4, <4>1, <4>3 DEF Missed
    <3> QED
      BY <1>2, <2>7, <2>8, <2>10, <3>1 DEF Outer
  <2> QED
    BY <1>1, <2>2, <2>4, <2>9, <2>10
<1> QED
  BY <1>3, <1>4

(* Whichever goroutine fills the cache first, and whoever replaces it.     *)
THEOREM CountsAreRight == Spec => []CountsRight
<1>1. FlowInv /\ CountInv => CountsRight
  <2> SUFFICES ASSUME FlowInv, CountInv, main = "report", NEW f \in Fids,
                      CutAlike(f), LongEnough(f)
               PROVE  idmap[f] = Count(Bytes(f, image[f]))
                                   - Cardinality(AcrossAfterOne(f, image[f]))
    BY DEF CountsRight
  <2>1. Calm /\ Given
    BY DEF Calm, FlowInv
  <2>2. ReportOfEverything
    BY SearchedAll
  <2>3. /\ faults = 0 /\ fpc[f] = "gone" /\ sindex[f] >= End(f)
        /\ \A at \in DOMAIN cpc[f] : cpc[f][at].at = "gone"
    BY <2>2 DEF ReportOfEverything
  <2>4. InImage(f) /\ image[f] \in EviHashes(f)
    BY <2>1, <2>3 DEF FlowInv, Cutting, NoImage, InImage
  <2>5. idmap[f] = Cardinality(CountedOf(f))
    BY <2>3 DEF CountInv, Adds
  <2>6. CountedOf(f) = Occ(f) \ Missed(f)
    BY <2>3, <2>4, AllCounted DEF LongEnough
  <2>7. IsFiniteSet(Occ(f))
    <3>1. Start(f) \in Int /\ End(f) - Len(query) \in Int
      BY <2>1, Database, QueryLen
    <3> QED
      BY <3>1, HitsFinite DEF Occ
  <2>8. Occ(f) \cap Missed(f) = Missed(f)
    BY DEF Missed
  <2>9. Cardinality(CountedOf(f)) = Cardinality(Occ(f)) - Cardinality(Missed(f))
    BY <2>6, <2>7, <2>8, FS_Difference
  <2> QED
    BY <2>1, <2>4, <2>5, <2>9, BytesCount, MissedCount
<1>2. Init => FlowInv /\ CountInv
  BY FlowInit, CountInit
<1>3. FlowInv /\ CountInv /\ [Next]_vars => (FlowInv /\ CountInv)'
  BY FlowStep, CountStep
<1> QED
  BY <1>1, <1>2, <1>3, PTL DEF Spec

-----------------------------------------------------------------------------
(* Types and bounds of the counters.                                       *)

Bounded ==
  /\ active \in 0 .. MaxThreads + 1
  /\ factive \in [Fids -> 0 .. MaxThreads + 1]
  /\ (\A c \in DOMAIN cmap : cmap[c] \in Nat) /\ idmap \in [Fids -> Nat]
  /\ artefact \in Fids \cup {None} /\ idx \in Nat /\ faults \in 0 .. MaxFaults

LEMMA Slice ==
  ASSUME NEW s, NEW m \in Int, NEW n \in Int
  PROVE  /\ SubSeq(s, m, n) \in Seq({s[k] : k \in m .. n})
         /\ Len(SubSeq(s, m, n)) \in Nat
<1> DEFINE S == {s[k] : k \in m .. n}
<1>1. \A k \in m .. n : s[k] \in S
  OBVIOUS
<1> HIDE DEF S
<1>2. SubSeq(s, m, n) \in Seq(S)
  BY <1>1, SubSeqProperties
<1> QED
  BY <1>2, LenProperties DEF S

LEMMA AroundNat ==
  ASSUME FlowInv, NEW f \in Fids, NEW at \in DOMAIN cpc[f]
  PROVE  Count(Around(f, at)) \in Nat
<1> DEFINE first == State(f, image[f], at)
           b == db.bytes[image[f]]
           to == at + ChonkSize
           second == Chonk(image[f], to)
           n == IF Taken < Len(second) THEN Taken ELSE Len(second)
<1>1. /\ Given /\ image[f] \in EviHashes(f) /\ InFile(f, at)
      /\ at \in Nat /\ ChonkSize \in Nat
  BY ChonkOfFile, OffsetTypes DEF InFile
<1>2. Len(query) \in Nat /\ Len(first) \in Nat /\ Len(b) \in Nat
  <2>1. \E T : b \in Seq(T)
    BY <1>1, Database DEF IsSeq
  <2> QED
    BY <1>1, <2>1, QueryLen, StateSeq, LenProperties
<1>3. Len(second) \in Nat
  <2>1. \A hi \in Int : Len(SubSeq(b, to + 1, hi)) \in Nat
    BY <1>1, Slice
  <2> QED
    BY <1>1, <1>2, <2>1 DEF Chonk
<1>4. n \in Int
  BY <1>2, <1>3 DEF Taken
<1>5. Around(f, at) =
        SubSeq(first, Len(first) - Len(query) + 2, Len(first)) \o SubSeq(second, 1, n)
  BY DEF Around
<1> HIDE DEF first, second, n
<1>6. PICK S : SubSeq(first, Len(first) - Len(query) + 2, Len(first)) \in Seq(S)
  <2>1. Len(first) - Len(query) + 2 \in Int /\ Len(first) \in Int
    BY <1>2
  <2> QED
    BY <2>1, Slice, Zenon
<1>7. PICK T : SubSeq(second, 1, n) \in Seq(T)
  <2>1. 1 \in Int
    OBVIOUS
  <2> QED
    BY <1>4, <2>1, Slice, Zenon
<1>8. Around(f, at) \in Seq(S \cup T)
  <2>1. /\ SubSeq(first, Len(first) - Len(query) + 2, Len(first)) \in Seq(S \cup T)
        /\ SubSeq(second, 1, n) \in Seq(S \cup T)
    BY <1>6, <1>7
  <2> QED
    BY <1>5, <2>1, ConcatProperties
<1> QED
  BY <1>1, <1>8, LenProperties, CountNat

(* A count is set that was made of the chunk, or taken over.               *)
LEMMA ChonkBounded ==
  ASSUME FlowInv, Bounded, NEW f \in Fids, NEW at \in DOMAIN cpc[f],
         \/ CountCached(f, at) \/ CountChonk(f, at) \/ SetCount(f, at)
         \/ NoOverlap(f, at) \/ SearchOverlap(f, at) \/ ChonkFails(f, at)
  PROVE  Bounded'
<1>1. UNCHANGED <<active, factive, artefact, idx>> /\ Fids' = Fids
  BY DEF CountCached, CountChonk, SetCount, NoOverlap, SearchOverlap, ChonkFails,
         flow, input, files, writing, Fids
<1>2. cpc[f][at].count \in Nat
  BY TaskMaps DEF FlowInv, Types, Task
<1>3. ASSUME NEW n \in Nat, Found(f, n) PROVE idmap' \in [Fids -> Nat]
  BY <1>3 DEF Found, Bounded
<1>4. idmap' \in [Fids -> Nat]
  <2>1. CASE CountCached(f, at)
    BY <1>3, <2>1 DEF CountCached, Bounded
  <2>2. CASE SetCount(f, at)
    BY <1>2, <1>3, <2>2 DEF SetCount
  <2>3. CASE SearchOverlap(f, at)
    BY <1>3, <2>3, AroundNat DEF SearchOverlap
  <2>4. CASE UNCHANGED idmap
    BY <2>4 DEF Bounded
  <2> QED
    BY <2>1, <2>2, <2>3, <2>4 DEF CountChonk, NoOverlap, ChonkFails, maps
<1>5. \A c \in DOMAIN cmap' : cmap'[c] \in Nat
  <2>1. CASE SetCount(f, at)
    BY <1>2, <2>1 DEF SetCount, With, Bounded
  <2>2. CASE UNCHANGED cmap
    BY <2>2 DEF Bounded
  <2> QED
    BY <2>1, <2>2 DEF CountCached, CountChonk, NoOverlap, SearchOverlap, ChonkFails,
                      maps
<1>6. faults' \in 0 .. MaxFaults
  BY BoundsAssumption DEF CountCached, CountChonk, SetCount, NoOverlap,
     SearchOverlap, ChonkFails, Fault, Bounded
<1> QED
  BY <1>1, <1>4, <1>5, <1>6 DEF Bounded

LEMMA BoundedStep == FlowInv /\ Bounded /\ [Next]_vars => Bounded'
<1> SUFFICES ASSUME FlowInv, Bounded, [Next]_vars PROVE Bounded'
  OBVIOUS
<1>1. MaxThreads \in Nat /\ MaxFaults \in Nat
  BY BoundsAssumption
<1>2. Fids' = Fids
  <2>1. CASE SearchStep
    BY <2>1 DEF SearchStep, NextNamespace, SpawnFile, CollectFile,
       GetFileMeta, FileMetaFails, SpawnChonk, FileSearched, CollectChonk,
       CountCached, CountChonk, SetCount, NoOverlap, SearchOverlap, ChonkPanics,
       ChonkFails, flow, input, Fids
  <2>2. CASE ReportStep
    BY <2>2 DEF ReportStep, ReportArtefact, ReportName, ReportFails, EndArtefact,
       WriteReport, reading, input, Fids
  <2> QED
    BY <2>1, <2>2 DEF Next, vars, input, Fids
<1>3. CASE UNCHANGED vars
  BY <1>2, <1>3 DEF vars, files, maps, writing, Bounded
<1>4. CASE NextNamespace
  BY <1>2, <1>4 DEF NextNamespace, files, maps, writing, Bounded
<1>5. ASSUME NEW f \in Fids,
             \/ SpawnFile(f) \/ CollectFile(f)
             \/ GetFileMeta(f) \/ FileMetaFails(f)
             \/ SpawnChonk(f) \/ FileSearched(f)
             \/ \E at : CollectChonk(f, at)
      PROVE  Bounded'
  <2>1. UNCHANGED <<cmap, idmap, artefact, idx>>
    BY <1>5 DEF SpawnFile, CollectFile, GetFileMeta, FileMetaFails, SpawnChonk,
                FileSearched, CollectChonk, maps, writing
  <2>2. active' \in 0 .. MaxThreads + 1
    BY <1>1, <1>5 DEF SpawnFile, CollectFile, GetFileMeta, FileMetaFails,
       SpawnChonk, FileSearched, CollectChonk, Receiving, Bounded
  <2>3. factive' \in [Fids -> 0 .. MaxThreads + 1]
    BY <1>1, <1>5 DEF SpawnFile, CollectFile, GetFileMeta, FileMetaFails,
       SpawnChonk, FileSearched, CollectChonk, Bounded
  <2>4. faults' \in 0 .. MaxFaults
    BY <1>1, <1>5 DEF SpawnFile, CollectFile, GetFileMeta, FileMetaFails,
       SpawnChonk, FileSearched, CollectChonk, Fault, Bounded
  <2> QED
    BY <1>2, <2>1, <2>2, <2>3, <2>4 DEF Bounded
<1>6. ASSUME NEW f \in Fids, NEW at \in DOMAIN cpc[f],
             \/ CountCached(f, at) \/ CountChonk(f, at) \/ SetCount(f, at)
             \/ NoOverlap(f, at) \/ SearchOverlap(f, at) \/ ChonkFails(f, at)
      PROVE  Bounded'
  BY <1>6, ChonkBounded
<1>7. ASSUME NEW f, NEW at, ChonkPanics(f, at)
      PROVE  Bounded'
  BY <1>2, <1>7 DEF ChonkPanics, files, maps, writing, Bounded
<1>8. CASE ReportStep
  <2>1. UNCHANGED <<active, factive, cmap, idmap>>
    BY <1>8 DEF ReportStep, ReportArtefact, ReportName, ReportFails, EndArtefact,
       WriteReport, reading, files, maps
  <2>2. artefact' \in Fids \cup {None} /\ idx' \in Nat
    <3>1. ASSUME NEW n, ReportName(n) PROVE artefact' = artefact /\ idx' \in Nat
      BY <3>1 DEF ReportName, Bounded
    <3>2. ASSUME NEW f \in Fids, ReportArtefact(f) PROVE artefact' = f /\ idx' = 0
      BY <3>2 DEF ReportArtefact
    <3>3. CASE ReportFails \/ EndArtefact \/ WriteReport
      BY <3>3 DEF ReportFails, EndArtefact, WriteReport, writing, Bounded
    <3> QED
      BY <1>8, <3>1, <3>2, <3>3 DEF ReportStep, Bounded
  <2>3. faults' \in 0 .. MaxFaults
    <3>1. CASE ReportFails
      BY <1>1, <3>1 DEF ReportFails, Fault, Bounded
    <3>2. CASE ~ReportFails
      BY <1>8, <3>2 DEF ReportStep, ReportArtefact, ReportName, EndArtefact,
         WriteReport, reading, Bounded
    <3> QED
      BY <3>1, <3>2
  <2> QED
    BY <1>2, <2>1, <2>2, <2>3 DEF Bounded
<1> QED
  BY <1>3, <1>4, <1>5, <1>6, <1>7, <1>8 DEF Next, SearchStep

(* No count of goroutines leaves its bounds, none is ever negative, and    *)
(* the maps hold counts.                                                   *)
THEOREM TypeCorrect == Spec => []TypeOK
<1>1. Init => Bounded
  BY BoundsAssumption DEF Init, Bounded
<1>2. FlowInv /\ Bounded => TypeOK
  <2> SUFFICES ASSUME FlowInv, Bounded PROVE TypeOK
    OBVIOUS
  <2>1. \A f \in Fids : \A at \in DOMAIN cpc[f] : cpc[f][at] \in Task
    BY TaskMaps DEF FlowInv, Types
  <2> QED
    BY <2>1 DEF FlowInv, Given, Types, Mains, Task, Bounded, TypeOK, Over
<1> QED
  BY <1>1, <1>2, FlowInit, FlowStep, BoundedStep, PTL DEF Spec
=============================================================================
