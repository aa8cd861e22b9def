------------------------ MODULE EvidenceStoreProofs ------------------------
(***************************************************************************)
(* Proofs about storing evidence files, for any number of operations,      *)
(* files, chunks and threads, one after the other or together, with any    *)
(* number of failures and crashes.                                         *)
(***************************************************************************)
EXTENDS EvidenceStore, TLAPS, FiniteSetTheorems, SequenceTheorems

-----------------------------------------------------------------------------
(* Goroutines: how many of them there are, and how many reports.           *)

Live(o) == {i \in Positions : work[o][i] \notin {"none", "exited"}}

BeforeStore == {"idle", "precheck", "addName", "preflight", "create",
                "addNameInPreflight"}

Spawned(o) ==
  /\ \A i \in Positions : work[o][i] # "none" => i < next[o]
  /\ opc[o] = "store" => \A i \in Positions : i < next[o] => work[o][i] # "none"
  /\ \A i \in Positions : work[o][i] # "none" =>
       /\ opc[o] # "idle"
       /\ file[o] \in Files /\ i \in DOMAIN Content[file[o]]

(* While an operation collects, a worker that is active is at work or has  *)
(* its report in the channel.                                              *)
Counted(o) ==
  /\ next[o] >= 1
  /\ opc[o] \in BeforeStore => next[o] = 1 /\ active[o] = 0
  /\ opc[o] \notin {"store", "abandon", "failed"} => Live(o) = {}
  /\ opc[o] \notin {"store", "abandon", "failed", "dead"} => errs[o] = <<>>
  /\ opc[o] = "store" => /\ active[o] = Cardinality(Live(o)) + Len(errs[o])
                         /\ active[o] <= MaxThreads + 1
  /\ opc[o] \in {"abandon", "failed"} =>
       Cardinality(Live(o)) + Len(errs[o]) <= MaxThreads

-----------------------------------------------------------------------------
(* Nodes.                                                                  *)

(* Every node that a restore of the file reads is committed.               *)
There(f) ==
  \A i \in DOMAIN Content[f] : <<f, i>> \in rel /\ Content[f][i] \in chonk

OpGood(o) ==
  /\ opc[o] # "idle" => file[o] \in Files /\ name[o] \in Names
  /\ opc[o] \in {"store", "close", "finish", "finishWrite"} =>
       evi[file[o]] # None
  /\ opc[o] \in {"addName", "addNameInPreflight", "finishWrite"} =>
       seen[o] \in EviNode
  /\ opc[o] \in {"addName", "addNameInPreflight", "close", "finish",
                  "finishWrite"} => There(file[o])
  /\ opc[o] \in {"close", "abandon"} => appending

ChunkSet(o, i) == Chunk(o, i) \in chonk \cup batch[o].chonk
RelSet(o, i) == <<file[o], i>> \in rel \cup batch[o].rel

(* A worker has set its nodes, unless its report says it has failed.       *)
WorkerGood(o, i) ==
  /\ work[o][i] \in {"rel", "revGet", "revSet", "reportOk"} => ChunkSet(o, i)
  /\ work[o][i] \in {"revGet", "revSet", "reportOk"} => RelSet(o, i)
  /\ opc[o] = "store" /\ work[o][i] = "exited" =>
       \/ \E k \in DOMAIN errs[o] : errs[o][k] = "err"
       \/ ChunkSet(o, i) /\ RelSet(o, i)
  /\ work[o][i] = "truncate" => ~appending

NodesGood ==
  /\ \A o \in Ops : OpGood(o) /\ Spawned(o)
  /\ \A o \in Ops, i \in Positions : WorkerGood(o, i)
  /\ \A f \in Files : Completed(f) => There(f)

IInv == TypeOK /\ NodesGood /\ \A o \in Ops : Counted(o)

LEMMA PlaceTypes ==
  /\ Positions \subseteq Nat \ {0}
  /\ \A f \in Files : /\ Content[f] \in Seq(Chunks)
                      /\ DOMAIN Content[f] = 1 .. Len(Content[f])
                      /\ DOMAIN Content[f] \subseteq Positions
                      /\ \A i \in DOMAIN Content[f] :
                           /\ <<f, i>> \in Places /\ Content[f][i] \in Chunks
                           /\ <<Content[f][i], i>> \in RevKeys
<1>1. \A f \in Files : Content[f] \in Seq(Chunks) /\ DOMAIN Content[f] = 1 .. Len(Content[f])
  BY ContentAssumption
<1>2. \A f \in Files : DOMAIN Content[f] \subseteq Positions
  BY DEF Positions
<1>3. Positions \subseteq Nat \ {0}
  BY <1>1 DEF Positions
<1>4. ASSUME NEW f \in Files, NEW i \in DOMAIN Content[f]
      PROVE  /\ <<f, i>> \in Places /\ Content[f][i] \in Chunks
             /\ <<Content[f][i], i>> \in RevKeys
  <2>1. <<f, i>> \in {f} \X DOMAIN Content[f]
    OBVIOUS
  <2>2. <<f, i>> \in Places
    BY <2>1 DEF Places
  <2>3. Content[f][i] \in Chunks
    BY <1>1
  <2> QED
    BY <1>2, <2>2, <2>3 DEF RevKeys
<1> QED
  BY <1>1, <1>2, <1>3, <1>4

LEMMA EmptyType ==
  EmptyBatch \in [chonk : SUBSET Chunks, rel : SUBSET Places,
                  rev : [RevKeys -> SUBSET Files],
                  address : [Chunks -> Address \cup {None}]]
BY DEF EmptyBatch

(* A worker at work has a chunk of its operation's file.                   *)
LEMMA WorkerType ==
  ASSUME TypeOK, NodesGood, NEW o \in Ops, NEW i \in Positions, work[o][i] # "none"
  PROVE  /\ opc[o] # "idle" /\ file[o] \in Files /\ i \in DOMAIN Content[file[o]]
         /\ Chunk(o, i) \in Chunks /\ <<file[o], i>> \in Places
         /\ <<Chunk(o, i), i>> \in RevKeys
BY PlaceTypes DEF NodesGood, Spawned, Chunk

-----------------------------------------------------------------------------
(* Types.                                                                  *)

LEMMA InitTypes == Init => TypeOK
<1> SUFFICES ASSUME Init PROVE TypeOK
  OBVIOUS
<1>1. setting.faults \in Nat /\ setting.crashes \in Nat
  BY SettingsAssumption DEF Init, Setting
<1>2. batch \in [Ops -> [chonk : SUBSET Chunks, rel : SUBSET Places,
                        rev : [RevKeys -> SUBSET Files],
                        address : [Chunks -> Address \cup {None}]]]
  BY EmptyType DEF Init
<1>3. work \in [Ops -> [Positions -> {"none"}]] /\ got \in [Ops -> [Positions -> SUBSET Files]]
  BY DEF Init
<1>4. /\ address \in [Chunks -> Address \cup {None}] /\ resumed \in [Ops -> BOOLEAN]
      /\ rev \in [RevKeys -> SUBSET Files]
  BY DEF Init
<1> QED
  BY <1>1, <1>2, <1>3, <1>4 DEF Init, TypeOK, Over

LEMMA CommitType ==
  ASSUME TypeOK, NEW o \in Ops, Commit(o)
  PROVE  /\ chonk' \subseteq Chunks /\ rel' \subseteq Places
         /\ rev' \in [RevKeys -> SUBSET Files]
         /\ address' \in [Chunks -> Address \cup {None}]
         /\ batch' \in [Ops -> [chonk : SUBSET Chunks, rel : SUBSET Places,
                               rev : [RevKeys -> SUBSET Files],
                               address : [Chunks -> Address \cup {None}]]]
<1> USE DEF TypeOK, Commit
<1>1. chonk' \subseteq Chunks /\ rel' \subseteq Places
  OBVIOUS
<1>2. rev' \in [RevKeys -> SUBSET Files]
  OBVIOUS
<1>3. batch' = [batch EXCEPT ![o] = EmptyBatch]
  OBVIOUS
<1>4. address' \in [Chunks -> Address \cup {None}]
  OBVIOUS
<1> QED
  BY <1>1, <1>2, <1>3, <1>4, EmptyType

WorkStates == {"none", "ping", "truncate", "write", "rel", "revGet", "revSet",
               "reportOk", "reportErr", "exited"}

LEMMA AdvanceType ==
  ASSUME TypeOK, NEW o \in Ops, NEW i \in Positions, NEW l \in WorkStates,
         work' = [work EXCEPT ![o][i] = l]
  PROVE  work' \in [Ops -> [Positions -> WorkStates]]
<1>1. work \in [Ops -> [Positions -> WorkStates]]
  BY DEF TypeOK, WorkStates
<1> QED
  BY <1>1

BatchOf == [chonk : SUBSET Chunks, rel : SUBSET Places,
            rev : [RevKeys -> SUBSET Files],
            address : [Chunks -> Address \cup {None}]]

LEMMA BatchTypes ==
  ASSUME TypeOK
  PROVE  batch \in [Ops -> BatchOf] /\ \A o \in Ops : batch[o] \in BatchOf
<1>1. batch \in [Ops -> BatchOf]
  BY DEF TypeOK, BatchOf
<1> QED
  BY <1>1

(* A record of a batch with one field changed, over any sets of fields.     *)
LEMMA ChangedField ==
  ASSUME NEW A, NEW B, NEW C, NEW D,
         NEW b \in [chonk : A, rel : B, rev : C, address : D]
  PROVE  /\ b.chonk \in A /\ b.rel \in B /\ b.rev \in C /\ b.address \in D
         /\ \A x \in A : [b EXCEPT !.chonk = x]
                           \in [chonk : A, rel : B, rev : C, address : D]
         /\ \A x \in B : [b EXCEPT !.rel = x]
                           \in [chonk : A, rel : B, rev : C, address : D]
         /\ \A x \in C : [b EXCEPT !.rev = x]
                           \in [chonk : A, rel : B, rev : C, address : D]
         /\ \A x \in A, y \in D : [b EXCEPT !.chonk = x, !.address = y]
                           \in [chonk : A, rel : B, rev : C, address : D]
OBVIOUS

(* The same for the batches of the operations.                             *)
LEMMA BatchFields ==
  ASSUME NEW b \in BatchOf
  PROVE  /\ b.chonk \in SUBSET Chunks /\ b.rel \in SUBSET Places
         /\ b.rev \in [RevKeys -> SUBSET Files]
         /\ b.address \in [Chunks -> Address \cup {None}]
         /\ \A x \in SUBSET Chunks : [b EXCEPT !.chonk = x] \in BatchOf
         /\ \A x \in SUBSET Places : [b EXCEPT !.rel = x] \in BatchOf
         /\ \A x \in [RevKeys -> SUBSET Files] : [b EXCEPT !.rev = x] \in BatchOf
         /\ \A x \in SUBSET Chunks, y \in [Chunks -> Address \cup {None}] :
              [b EXCEPT !.chonk = x, !.address = y] \in BatchOf
BY ChangedField, Zenon DEF BatchOf

LEMMA SetBatch ==
  ASSUME TypeOK, NEW o \in Ops, NEW b \in BatchOf, batch' = [batch EXCEPT ![o] = b]
  PROVE  batch' \in [Ops -> BatchOf]
BY BatchTypes

ManagerOf == [file : {"none", "open", "lost", "closed"}, offset : Nat]

ContainerOf == [blob : BOOLEAN, data : Seq(Chunks \cup {None}),
                owner : Ops \cup {None}]

(* What writing to the container makes of it and of the manager.           *)
LEMMA ContainerTypes ==
  ASSUME TypeOK, NEW o \in Ops
  PROVE  /\ container \in ContainerOf /\ Opened(o) \in ContainerOf
         /\ \A x \in Chunks \cup {None} : Written(o, x) \in ContainerOf
         /\ [Written(o, None) EXCEPT !.owner = None] \in ContainerOf
<1>1. container \in ContainerOf
  BY DEF TypeOK, ContainerOf
<1>2. Opened(o) \in ContainerOf
  BY <1>1 DEF Opened, ContainerOf
<1>3. ASSUME NEW x \in Chunks \cup {None} PROVE Written(o, x) \in ContainerOf
  <2>1. Append(Opened(o).data, x) \in Seq(Chunks \cup {None})
    BY <1>2 DEF ContainerOf
  <2> QED
    BY <1>1, <1>2, <2>1 DEF Written, ContainerOf
<1>4. [Written(o, None) EXCEPT !.owner = None] \in ContainerOf
  BY <1>3 DEF ContainerOf
<1> QED
  BY <1>1, <1>2, <1>3, <1>4

LEMMA ManagerTypes ==
  ASSUME TypeOK
  PROVE  /\ manager \in [Ops -> ManagerOf]
         /\ \A o \in Ops : /\ manager[o] \in ManagerOf
                           /\ FileOf(o) \in {"none", "open", "lost", "closed"}
                           /\ NextOffset(o) \in Nat
                           /\ \A l \in {"none", "open", "lost", "closed"} :
                                [manager[o] EXCEPT !.file = l] \in ManagerOf
<1>1. manager \in [Ops -> ManagerOf]
  BY DEF TypeOK, ManagerOf
<1>2. ASSUME NEW o \in Ops
      PROVE  /\ manager[o] \in ManagerOf
             /\ FileOf(o) \in {"none", "open", "lost", "closed"}
             /\ NextOffset(o) \in Nat
  BY <1>1 DEF FileOf, NextOffset, ManagerOf
<1>3. ASSUME NEW o \in Ops, NEW l \in {"none", "open", "lost", "closed"}
      PROVE  [manager[o] EXCEPT !.file = l] \in ManagerOf
  BY <1>2 DEF ManagerOf
<1> QED
  BY <1>1, <1>2, <1>3

LEMMA TypeStep == TypeOK /\ NodesGood /\ [Next]_vars => TypeOK'
<1> SUFFICES ASSUME TypeOK, NodesGood, [Next]_vars PROVE TypeOK'
  OBVIOUS
<1>a. \A o \in Ops : /\ Opened(o) \in ContainerOf
                    /\ [Written(o, None) EXCEPT !.owner = None] \in ContainerOf
  BY ContainerTypes
<1> USE DEF TypeOK, nodes, blobs, loop, workers, Goto, Leave, LeaveFailed, Over
<1>0. setting.faults \in Nat /\ setting.crashes \in Nat
  BY SettingsAssumption DEF Setting
<1>1. ASSUME NEW o \in Ops, NEW f \in Files, NEW n \in Names, StoreFile(o, f, n)
      PROVE  TypeOK'
  BY <1>1 DEF StoreFile
<1>2. CASE Crash
  <2>1. opc' \in [Ops -> Over] /\ work' \in [Ops -> [Positions -> {"none"}]]
    BY <1>2 DEF Crash
  <2>2. crashes' \in 0 .. setting.crashes
    BY <1>0, <1>2 DEF Crash
  <2>3. manager' \in [Ops -> ManagerOf]
    BY <1>2, ManagerTypes DEF Crash
  <2>4. UNCHANGED <<nodes, whole, container, setting, file, name, seen, resumed,
                    loop, batch, got, faults>>
    BY <1>2 DEF Crash
  <2>5. /\ opc' \in [Ops -> Over] /\ crashes' \in 0 .. setting'.crashes
        /\ work' \in [Ops -> [Positions -> WorkStates]]
    BY <2>1, <2>2, <2>4 DEF WorkStates
  <2> QED
    BY <2>3, <2>4, <2>5 DEF ManagerOf, WorkStates
<1>3. ASSUME NEW o \in Ops, OpStep(o) PROVE TypeOK'
  <2>1. CASE PreStoreCheck(o) \/ Preflight(o)
    <3>1. file[o] \in Files
      BY <2>1 DEF PreStoreCheck, Preflight, NodesGood, OpGood
    <3>2. evi[file[o]] \in EviNode \cup {None}
      BY <3>1
    <3>3. seen' \in [Ops -> EviNode \cup {None}]
      BY <2>1, <3>2 DEF PreStoreCheck, Preflight
    <3>4. resumed' \in [Ops -> BOOLEAN]
      BY <2>1 DEF PreStoreCheck, Preflight
    <3>5. \E l \in {"ok", "addName", "preflight", "create", "store", "finish",
                   "addNameInPreflight"} : opc' = [opc EXCEPT ![o] = l]
      BY <2>1 DEF PreStoreCheck, Preflight
    <3>6. UNCHANGED <<nodes, blobs, file, name, loop, batch, workers, faults, crashes>>
      BY <2>1 DEF PreStoreCheck, Preflight
    <3> QED
      BY <3>3, <3>4, <3>5, <3>6
  <2>2. CASE AddName(o)
    <3>1. file[o] \in Files /\ name[o] \in Names /\ seen[o] \in EviNode
      BY <2>2 DEF AddName, NodesGood, OpGood
    <3>2. Added(seen[o], name[o]) \in EviNode
      BY <3>1 DEF EviNode, Added
    <3> QED
      BY <2>2, <3>1, <3>2 DEF AddName
  <2>3. CASE CreateNode(o)
    <3>1. file[o] \in Files /\ name[o] \in Names
      BY <2>3 DEF CreateNode, NodesGood, OpGood
    <3>2. [names |-> {name[o]}, completed |-> FALSE] \in EviNode
      BY <3>1 DEF EviNode
    <3> QED
      BY <2>3, <3>1, <3>2 DEF CreateNode
  <2>4. CASE FinishRead(o)
    BY <2>4 DEF FinishRead, NodesGood, OpGood
  <2>5. CASE FinishWrite(o)
    <3>1. file[o] \in Files /\ seen[o] \in EviNode
      BY <2>5 DEF FinishWrite, NodesGood, OpGood
    <3>2. [seen[o] EXCEPT !.completed = TRUE] \in EviNode
      BY <3>1 DEF EviNode
    <3> QED
      BY <2>5, <3>1, <3>2 DEF FinishWrite
  <2>6. CASE SpawnWorker(o)
    <3>1. next[o] \in Positions
      BY <2>6, PlaceTypes DEF SpawnWorker, AllSpawned, NodesGood, OpGood
    <3>2. work' = [work EXCEPT ![o] = [work[o] EXCEPT ![next[o]] = "ping"]]
      BY <2>6 DEF SpawnWorker
    <3>3. next' \in [Ops -> Nat] /\ active' \in [Ops -> Nat]
      BY <2>6 DEF SpawnWorker
    <3>4. UNCHANGED <<nodes, blobs, opc, file, name, seen, resumed, errs, batch, got,
                      faults, crashes>>
      BY <2>6 DEF SpawnWorker
    <3> QED
      BY <3>1, <3>2, <3>3, <3>4
  <2>7. CASE Collect(o)
    <3>1. active[o] > 0
      BY <2>7, SettingsAssumption DEF Collect, MayStart
    <3>2. active' \in [Ops -> Nat]
      <4>1. active[o] - 1 \in Nat
        BY <3>1
      <4>2. active' = active \/ active' = [active EXCEPT ![o] = active[o] - 1]
        BY <2>7 DEF Collect
      <4> QED
        BY <4>1, <4>2
    <3>3. Tail(errs[o]) \in Seq({"ok", "err"})
      BY <2>7, HeadTailProperties DEF Collect
    <3>4. errs' \in [Ops -> Seq({"ok", "err"})]
      BY <2>7, <3>3 DEF Collect
    <3>5. /\ \/ opc' = opc
             \/ \E l \in {"abandon", "failed"} : opc' = [opc EXCEPT ![o] = l]
          /\ UNCHANGED <<nodes, blobs, file, name, seen, resumed, next, batch, workers,
                         faults, crashes>>
      BY <2>7 DEF Collect
    <3> QED
      BY <3>2, <3>4, <3>5
  <2>8. CASE Flush(o)
    <3>1. UNCHANGED <<evi, blobs, file, name, seen, resumed, loop, workers, faults, crashes>>
          /\ \E l \in {"close", "finish"} : opc' = [opc EXCEPT ![o] = l]
      BY <2>8 DEF Flush
    <3>2. Commit(o)
      BY <2>8 DEF Flush
    <3> QED
      BY <3>1, <3>2, CommitType
  <2>9. CASE FlushFails(o) \/ OpFails(o)
    <3>1. faults' \in 0 .. setting.faults
      BY <1>0, <2>9 DEF FlushFails, OpFails, Fault
    <3>2. /\ \E l \in {"abandon", "failed"} : opc' = [opc EXCEPT ![o] = l]
          /\ UNCHANGED <<nodes, blobs, file, name, seen, resumed, loop, batch, workers,
                         crashes>>
      BY <2>9 DEF FlushFails, OpFails
    <3> QED
      BY <3>1, <3>2
  <2>10. CASE CloseManager(o)
    <3>1. \E l \in {"finish", "failed"} : opc' = [opc EXCEPT ![o] = l]
      BY <2>10 DEF CloseManager
    <3>2. manager' \in [Ops -> ManagerOf]
      <4>1. manager' = [p \in Ops |->
               [manager[p] EXCEPT !.file =
                  IF p = o THEN "closed"
                  ELSE IF manager[o].file # "none" /\ @ = "open" THEN "lost" ELSE @]]
        BY <2>10 DEF CloseManager
      <4>2. ASSUME NEW p \in Ops PROVE manager[p].file \in {"none", "open", "lost", "closed"}
        BY ManagerTypes DEF ManagerOf
      <4> QED
        BY <4>1, <4>2, ManagerTypes
    <3>3. container' \in ContainerOf
      BY <2>10, ContainerTypes DEF CloseManager, ContainerOf
    <3>4. UNCHANGED <<nodes, whole, setting, file, name, seen, resumed, loop, batch,
                      workers, faults, crashes>>
      BY <2>10 DEF CloseManager
    <3> QED
      BY <3>1, <3>2, <3>3, <3>4 DEF ManagerOf, ContainerOf
  <2>11. CASE CloseFails(o)
    <3>1. faults' \in 0 .. setting.faults
      BY <1>0, <2>11 DEF CloseFails, Fault
    <3>2. manager' \in [Ops -> ManagerOf]
      BY <2>11, ManagerTypes DEF CloseFails
    <3>3. /\ opc' = [opc EXCEPT ![o] = "failed"]
          /\ UNCHANGED <<nodes, whole, container, setting, file, name, seen, resumed,
                         loop, batch, workers, crashes>>
      BY <2>11 DEF CloseFails
    <3> QED
      BY <3>1, <3>2, <3>3 DEF ManagerOf
  <2> QED
    BY <1>3, <2>1, <2>2, <2>3, <2>4, <2>5, <2>6, <2>7, <2>8, <2>9, <2>10, <2>11
    DEF OpStep
<1>4. ASSUME NEW o \in Ops, AutoCommit(o) PROVE TypeOK'
  <2>1. /\ Commit(o)
        /\ UNCHANGED <<evi, blobs, opc, file, name, seen, resumed, loop, workers,
                       faults, crashes>>
    BY <1>4 DEF AutoCommit
  <2> QED
    BY <2>1, CommitType
<1>5. ASSUME NEW o \in Ops, NEW i \in Positions, WorkerStep(o, i) PROVE TypeOK'
  <2> USE DEF At, Advance
  <2>1. work[o][i] # "none"
    BY <1>5 DEF WorkerStep, PingChonk, TruncateBlob, WriteChonk,
       WriteToContainer, ContainerWriteFails, ProcessRel, RevRelGet, RevRelSet,
       WorkerFails, Report
  <2>2. /\ Chunk(o, i) \in Chunks /\ <<file[o], i>> \in Places
        /\ <<Chunk(o, i), i>> \in RevKeys /\ file[o] \in Files
    BY <2>1, WorkerType
  <2>a. work' \in [Ops -> [Positions -> WorkStates]]
    <3>1. \E l \in WorkStates : work' = [work EXCEPT ![o][i] = l]
      BY <1>5 DEF WorkerStep, PingChonk, TruncateBlob, WriteChonk,
         WriteToContainer, ContainerWriteFails, ProcessRel, RevRelGet, RevRelSet,
         WorkerFails, Report, WorkStates
    <3> QED
      BY <3>1, AdvanceType
  <2> USE DEF WorkStates
  <2>3. CASE PingChonk(o, i)
    <3>1. UNCHANGED <<nodes, blobs, opc, file, name, seen, resumed, loop, batch, got,
                      faults, crashes>>
      BY <2>3 DEF PingChonk
    <3> QED
      BY <2>a, <3>1
  <2>4. CASE TruncateBlob(o, i)
    <3>1. /\ whole' = whole \ {Chunk(o, i)}
          /\ UNCHANGED <<nodes, container, manager, setting, opc, file, name, seen,
                         resumed, loop, batch, got, faults, crashes>>
      BY <2>4 DEF TruncateBlob
    <3> QED
      BY <2>2, <2>a, <3>1
  <2>5. CASE WriteChonk(o, i)
    <3>1. [batch[o] EXCEPT !.chonk = @ \cup {Chunk(o, i)}] \in BatchOf
      <4>1. batch[o] \in BatchOf
        BY BatchTypes
      <4>2. batch[o].chonk \cup {Chunk(o, i)} \in SUBSET Chunks
        BY <2>2, <4>1, BatchFields
      <4> QED
        BY <4>1, <4>2, BatchFields
    <3>2. batch' = [batch EXCEPT ![o] = [batch[o] EXCEPT !.chonk = @ \cup {Chunk(o, i)}]]
      BY <2>5 DEF WriteChonk
    <3>3. batch' \in [Ops -> BatchOf]
      BY <3>1, <3>2, SetBatch
    <3>4. whole' \subseteq Chunks
      BY <2>2, <2>5 DEF WriteChonk
    <3>5. UNCHANGED <<nodes, container, manager, setting, opc, file, name, seen,
                      resumed, loop, got, faults, crashes>>
      BY <2>5 DEF WriteChonk
    <3> QED
      BY <2>a, <3>3, <3>4, <3>5 DEF BatchOf
  <2>6. CASE ProcessRel(o, i)
    <3>1. [batch[o] EXCEPT !.rel = @ \cup {<<file[o], i>>}] \in BatchOf
      <4>1. batch[o] \in BatchOf
        BY BatchTypes
      <4>2. batch[o].rel \cup {<<file[o], i>>} \in SUBSET Places
        BY <2>2, <4>1, BatchFields DEF Places
      <4> QED
        BY <4>1, <4>2, BatchFields
    <3>2. \/ batch' = batch
          \/ batch' = [batch EXCEPT ![o] =
                         [batch[o] EXCEPT !.rel = @ \cup {<<file[o], i>>}]]
      BY <2>6 DEF ProcessRel
    <3>3. batch' \in [Ops -> BatchOf]
      BY <3>1, <3>2, SetBatch, BatchTypes
    <3>4. UNCHANGED <<nodes, blobs, opc, file, name, seen, resumed, loop, got, faults,
                      crashes>>
      BY <2>6 DEF ProcessRel
    <3> QED
      BY <2>a, <3>3, <3>4 DEF BatchOf
  <2>7. CASE RevRelGet(o, i)
    <3>1. got' = [got EXCEPT ![o][i] = rev[<<Chunk(o, i), i>>]]
      BY <2>7 DEF RevRelGet
    <3>2. got' \in [Ops -> [Positions -> SUBSET Files]]
      BY <2>2, <3>1
    <3>3. UNCHANGED <<nodes, blobs, opc, file, name, seen, resumed, loop, batch, faults,
                      crashes>>
      BY <2>7 DEF RevRelGet
    <3> QED
      BY <2>a, <3>2, <3>3
  <2>8. CASE RevRelSet(o, i)
    <3> DEFINE k == <<Chunk(o, i), i>>
               r == [batch[o].rev EXCEPT ![k] = RevRel(got[o][i], file[o])]
    <3>1. r \in [RevKeys -> SUBSET Files]
      BY <2>2, BatchTypes DEF RevRel, BatchOf
    <3>2. batch' = [batch EXCEPT ![o] = [batch[o] EXCEPT !.rev = r]]
      BY <2>8 DEF RevRelSet
    <3>3. UNCHANGED <<nodes, blobs, opc, file, name, seen, resumed, loop, got, faults,
                      crashes>>
      BY <2>8 DEF RevRelSet
    <3> HIDE DEF r
    <3>4. [batch[o] EXCEPT !.rev = r] \in BatchOf
      BY <3>1, BatchTypes, BatchFields
    <3>5. batch' \in [Ops -> BatchOf]
      BY <3>2, <3>4, SetBatch
    <3> QED
      BY <2>a, <3>3, <3>5 DEF BatchOf
  <2>9. CASE WorkerFails(o, i)
    <3>1. faults' \in 0 .. setting.faults
      BY <1>0, <2>9 DEF WorkerFails, Fault
    <3>2. UNCHANGED <<nodes, blobs, opc, file, name, seen, resumed, loop, batch, got,
                      crashes>>
      BY <2>9 DEF WorkerFails
    <3> QED
      BY <2>a, <3>1, <3>2
  <2>10. CASE Report(o, i)
    <3>1. errs' \in [Ops -> Seq({"ok", "err"})]
      BY <2>10 DEF Report
    <3>2. UNCHANGED <<nodes, blobs, opc, file, name, seen, resumed, next, active, batch,
                      got, faults, crashes>>
      BY <2>10 DEF Report
    <3> QED
      BY <2>a, <3>1, <3>2
  <2>11. CASE WriteToContainer(o, i)
    <3>1. [op |-> o, offset |-> manager[o].offset + 1] \in Address
      BY DEF Address
    <3> DEFINE at == [op |-> o, offset |-> manager[o].offset + 1]
               b == [batch[o] EXCEPT !.chonk = @ \cup {Chunk(o, i)},
                                     !.address = [@ EXCEPT ![Chunk(o, i)] = at]]
    <3>2. b \in BatchOf
      <4>1. batch[o] \in BatchOf
        BY BatchTypes
      <4>2. batch[o].chonk \cup {Chunk(o, i)} \in SUBSET Chunks
        BY <2>2, <4>1, BatchFields
      <4>3. [batch[o].address EXCEPT ![Chunk(o, i)] = at]
            \in [Chunks -> Address \cup {None}]
        <5>1. batch[o].address \in [Chunks -> Address \cup {None}]
          BY <4>1, BatchFields
        <5> HIDE DEF at
        <5> QED
          BY <3>1, <5>1 DEF at
      <4> HIDE DEF at
      <4> QED
        BY <4>1, <4>2, <4>3, BatchFields
    <3>3. batch' = [batch EXCEPT ![o] = b]
      <4>1. batch' = [batch EXCEPT ![o].chonk = @ \cup {Chunk(o, i)},
                                   ![o].address[Chunk(o, i)] = at]
        BY <2>11, Zenon DEF WriteToContainer
      <4> HIDE DEF at
      <4>2. batch[o] \in BatchOf /\ DOMAIN batch = Ops
        BY BatchTypes
      <4> QED
        BY <4>1, <4>2 DEF BatchOf
    <3> HIDE DEF b
    <3>4. batch' \in [Ops -> BatchOf]
      BY <3>2, <3>3, SetBatch
    <3>5. /\ container' = Written(o, Chunk(o, i))
          /\ manager' = [manager EXCEPT ![o] =
                           [file |-> FileOf(o), offset |-> NextOffset(o)]]
          /\ UNCHANGED <<nodes, whole, setting, opc, file, name, seen, resumed, loop,
                         got, faults, crashes>>
      BY <2>11 DEF WriteToContainer
    <3>6. manager' \in [Ops -> ManagerOf]
      BY <3>5, ManagerTypes DEF ManagerOf
    <3>7. container' \in ContainerOf
      BY <2>2, <3>5, ContainerTypes, Zenon
    <3> QED
      BY <2>a, <3>4, <3>5, <3>6, <3>7 DEF BatchOf, ManagerOf,
         ContainerOf
  <2>12. CASE ContainerWriteFails(o, i)
    <3>1. faults' \in 0 .. setting.faults
      BY <1>0, <2>12 DEF ContainerWriteFails, Fault
    <3>2. container' \in ContainerOf
      <4>1. \/ container' = Opened(o)
            \/ container' = [Written(o, None) EXCEPT !.owner = None]
        BY <2>12, Zenon DEF ContainerWriteFails
      <4> QED
        BY <1>a, <4>1, Zenon
    <3>3. manager' \in [Ops -> ManagerOf]
      <4>1. manager' = [manager EXCEPT ![o].file = FileOf(o)]
        BY <2>12 DEF ContainerWriteFails
      <4> QED
        BY <4>1, ManagerTypes
    <3>4. UNCHANGED <<nodes, whole, setting, opc, file, name, seen, resumed, loop,
                      batch, got, crashes>>
      BY <2>12 DEF ContainerWriteFails
    <3> QED
      BY <2>a, <3>1, <3>2, <3>3, <3>4 DEF ManagerOf, ContainerOf
  <2> QED
    BY <1>5, <2>3, <2>4, <2>5, <2>6, <2>7, <2>8, <2>9, <2>10, <2>11, <2>12
    DEF WorkerStep
<1>6. CASE AllOver \/ UNCHANGED vars
  BY <1>6 DEF AllOver, vars
<1> QED
  BY <1>1, <1>2, <1>3, <1>4, <1>5, <1>6 DEF Next

-----------------------------------------------------------------------------
(* What has been set stays set, committed or in the batch.                 *)
Grow ==
  /\ setting' = setting
  /\ chonk \subseteq chonk' /\ rel \subseteq rel'
  /\ \A p \in Ops : /\ batch[p].chonk \subseteq chonk' \cup batch'[p].chonk
                    /\ batch[p].rel \subseteq rel' \cup batch'[p].rel
  /\ \A f \in Files : evi[f] # None => evi'[f] # None
  /\ \A p \in Ops : opc[p] # "idle" => file'[p] = file[p] /\ name'[p] = name[p]

Same(p) ==
  /\ opc'[p] = opc[p] /\ seen'[p] = seen[p]
  /\ next'[p] = next[p] /\ active'[p] = active[p] /\ errs'[p] = errs[p]
  /\ work'[p] = work[p] /\ resumed'[p] = resumed[p]

LEMMA SetEvi ==
  ASSUME TypeOK, NEW o \in Ops, NEW f \in Files, NEW n \in EviNode,
         evi' = [evi EXCEPT ![f] = n],
         UNCHANGED <<setting, chonk, rel, file, name, batch>>
  PROVE  Grow
BY NoneAssumption DEF TypeOK, Grow

LEMMA CommitGrows ==
  ASSUME TypeOK, NEW o \in Ops, Commit(o), UNCHANGED <<setting, evi, file, name>>
  PROVE  Grow
BY EmptyType DEF TypeOK, Commit, Grow

LEMMA GrowStep == TypeOK /\ NodesGood /\ [Next]_vars => Grow
<1> SUFFICES ASSUME TypeOK, NodesGood, [Next]_vars PROVE Grow
  OBVIOUS
<1> USE DEF nodes, blobs, loop, workers
<1>1. ASSUME NEW o \in Ops, NEW f \in Files, NEW n \in Names, StoreFile(o, f, n)
      PROVE  Grow
  BY <1>1 DEF StoreFile, Grow, TypeOK
<1>2. CASE Crash
  BY <1>2 DEF Crash, Grow
<1>3. ASSUME NEW o \in Ops, OpStep(o) PROVE Grow
  <2>1. CASE AddName(o)
    <3>1. file[o] \in Files /\ name[o] \in Names /\ seen[o] \in EviNode
      BY <2>1 DEF AddName, NodesGood, OpGood
    <3>2. Added(seen[o], name[o]) \in EviNode
      BY <3>1 DEF EviNode, Added
    <3> QED
      BY <2>1, <3>1, <3>2, SetEvi DEF AddName
  <2>2. CASE CreateNode(o)
    <3>1. file[o] \in Files /\ name[o] \in Names
      BY <2>2 DEF CreateNode, NodesGood, OpGood
    <3>2. [names |-> {name[o]}, completed |-> FALSE] \in EviNode
      BY <3>1 DEF EviNode
    <3> QED
      BY <2>2, <3>1, <3>2, SetEvi DEF CreateNode
  <2>3. CASE FinishWrite(o)
    <3>1. file[o] \in Files /\ seen[o] \in EviNode
      BY <2>3 DEF FinishWrite, NodesGood, OpGood
    <3>2. [seen[o] EXCEPT !.completed = TRUE] \in EviNode
      BY <3>1 DEF EviNode
    <3> QED
      BY <2>3, <3>1, <3>2, SetEvi DEF FinishWrite
  <2>4. CASE Flush(o)
    BY <2>4, CommitGrows DEF Flush
  <2>5. CASE PreStoreCheck(o) \/ Preflight(o) \/ SpawnWorker(o) \/ Collect(o)
    BY <2>5 DEF PreStoreCheck, Preflight, SpawnWorker, Collect, Grow
  <2>6. CASE \/ FlushFails(o) \/ CloseManager(o) \/ CloseFails(o)
             \/ FinishRead(o) \/ OpFails(o)
    BY <2>6 DEF FlushFails, CloseManager, CloseFails, FinishRead, OpFails,
       Grow
  <2> QED
    BY <1>3, <2>1, <2>2, <2>3, <2>4, <2>5, <2>6 DEF OpStep
<1>4. ASSUME NEW o \in Ops, AutoCommit(o) PROVE Grow
  BY <1>4, CommitGrows DEF AutoCommit
<1>5. ASSUME NEW o \in Ops, NEW i \in Positions, WorkerStep(o, i) PROVE Grow
  <2>1. UNCHANGED <<setting, evi, chonk, rel, file, name>>
    BY <1>5 DEF WorkerStep, PingChonk, TruncateBlob, WriteChonk,
       WriteToContainer, ContainerWriteFails, ProcessRel, RevRelGet, RevRelSet,
       WorkerFails, Report
  <2>2. \A p \in Ops : /\ batch[p].chonk \subseteq batch'[p].chonk
                      /\ batch[p].rel \subseteq batch'[p].rel
    <3> USE DEF TypeOK
    <3>1. CASE WriteChonk(o, i)
      BY <3>1 DEF WriteChonk
    <3>2. CASE ProcessRel(o, i)
      BY <3>2 DEF ProcessRel
    <3>3. CASE RevRelSet(o, i)
      BY <3>3 DEF RevRelSet
    <3>4. CASE UNCHANGED batch
      BY <3>4
    <3>5. CASE WriteToContainer(o, i)
      BY <3>5 DEF WriteToContainer
    <3> QED
      BY <1>5, <3>1, <3>2, <3>3, <3>4, <3>5 DEF WorkerStep, PingChonk, TruncateBlob,
         ContainerWriteFails, RevRelGet, WorkerFails, Report
  <2> QED
    BY <2>1, <2>2 DEF Grow
<1>6. CASE AllOver \/ UNCHANGED vars
  BY <1>6 DEF AllOver, vars, Grow
<1> QED
  BY <1>1, <1>2, <1>3, <1>4, <1>5, <1>6 DEF Next

LEMMA OthersSame ==
  ASSUME TypeOK, NEW o \in Ops,
         \/ \E f \in Files, n \in Names : StoreFile(o, f, n)
         \/ OpStep(o) \/ (\E i \in Positions : WorkerStep(o, i)) \/ AutoCommit(o),
         NEW p \in Ops, p # o
  PROVE  Same(p)
<1> USE DEF TypeOK, Same, nodes, blobs, loop, workers, Goto, Leave, LeaveFailed, Advance
<1>1. CASE \E f \in Files, n \in Names : StoreFile(o, f, n)
  BY <1>1 DEF StoreFile
<1>2. CASE OpStep(o)
  <2>1. CASE PreStoreCheck(o) \/ Preflight(o) \/ AddName(o) \/ CreateNode(o)
    BY <2>1 DEF PreStoreCheck, Preflight, AddName, CreateNode
  <2>2. CASE FinishRead(o) \/ FinishWrite(o) \/ OpFails(o) \/ Flush(o) \/ FlushFails(o)
    BY <2>2 DEF FinishRead, FinishWrite, OpFails, Flush, FlushFails
  <2>3. CASE SpawnWorker(o) \/ Collect(o) \/ CloseManager(o) \/ CloseFails(o)
    BY <2>3 DEF SpawnWorker, Collect, CloseManager, CloseFails
  <2> QED
    BY <1>2, <2>1, <2>2, <2>3 DEF OpStep
<1>3. ASSUME NEW i \in Positions, WorkerStep(o, i) PROVE Same(p)
  BY <1>3 DEF WorkerStep, PingChonk, TruncateBlob, WriteChonk,
     WriteToContainer, ContainerWriteFails, ProcessRel, RevRelGet, RevRelSet,
     WorkerFails, Report
<1>4. CASE AutoCommit(o)
  BY <1>4 DEF AutoCommit
<1> QED
  BY <1>1, <1>2, <1>3, <1>4

Good(p) ==
  /\ OpGood(p) /\ Spawned(p) /\ Counted(p)
  /\ \A i \in Positions : WorkerGood(p, i)

LEMMA ThereStays ==
  ASSUME Grow, NEW f \in Files, There(f)
  PROVE  There(f)'
BY DEF Grow, There

(* What a worker has set stays set.                                        *)
LEMMA SetStays ==
  ASSUME TypeOK, NodesGood, Grow, NEW p \in Ops, NEW i \in Positions, work[p][i] # "none"
  PROVE  /\ Chunk(p, i)' = Chunk(p, i) /\ file'[p] = file[p]
         /\ ChunkSet(p, i) => ChunkSet(p, i)'
         /\ RelSet(p, i) => RelSet(p, i)'
<1>1. file'[p] = file[p]
  BY WorkerType DEF Grow
<1> QED
  BY <1>1 DEF Grow, Chunk, ChunkSet, RelSet

LEMMA LiveFinite ==
  ASSUME TypeOK, NEW o \in Ops, Spawned(o)
  PROVE  /\ Live(o) \subseteq 1 .. next[o] - 1
         /\ IsFiniteSet(Live(o)) /\ Cardinality(Live(o)) \in Nat
<1>1. Live(o) \subseteq 1 .. next[o] - 1
  <2>1. next[o] \in Nat
    BY DEF TypeOK
  <2>2. \A i \in Live(o) : i \in Nat \ {0} /\ i < next[o]
    BY PlaceTypes DEF Spawned, Live
  <2> QED
    BY <2>1, <2>2
<1>2. IsFiniteSet(1 .. next[o] - 1)
  BY FS_Interval DEF TypeOK
<1>3. IsFiniteSet(Live(o))
  BY <1>1, <1>2, FS_Subset
<1> QED
  BY <1>1, <1>3, FS_CardinalityType

(* An operation that a step does not touch.                                *)
LEMMA SameGood ==
  ASSUME TypeOK, NodesGood, Grow, NEW p \in Ops, Counted(p), Same(p)
  PROVE  Good(p)'
<1> USE DEF Same
<1>1. OpGood(p) /\ Spawned(p) /\ \A i \in Positions : WorkerGood(p, i)
  BY DEF NodesGood
<1>2. OpGood(p)'
  BY <1>1, ThereStays DEF OpGood, Grow, appending
<1>3. Spawned(p)'
  BY <1>1 DEF Spawned, Grow
<1>4. Counted(p)'
  <2>1. Live(p)' = Live(p)
    BY DEF Live
  <2> QED
    BY <2>1 DEF Counted
<1>5. ASSUME NEW i \in Positions PROVE WorkerGood(p, i)'
  <2>1. CASE work[p][i] = "none"
    BY <2>1 DEF WorkerGood
  <2>2. CASE work[p][i] # "none"
    BY <1>1, <2>2, SetStays DEF WorkerGood, Grow, appending
  <2> QED
    BY <2>1, <2>2
<1> QED
  BY <1>2, <1>3, <1>4, <1>5 DEF Good

(* An operation without workers at work takes a step.                      *)
LEMMA QuietGood ==
  ASSUME TypeOK, NodesGood, Grow, NEW o \in Ops, Counted(o),
         opc[o] \notin {"idle", "store", "abandon", "failed", "dead"},
         opc'[o] \notin {"idle", "dead"},
         opc'[o] \in BeforeStore \cup {"store"} => opc[o] \in BeforeStore,
         work'[o] = work[o], next'[o] = next[o], active'[o] = active[o],
         errs'[o] = errs[o]
  PROVE  /\ Spawned(o)' /\ Counted(o)'
         /\ \A i \in Positions : WorkerGood(o, i)'
<1>1. Spawned(o) /\ \A i \in Positions : WorkerGood(o, i)
  BY DEF NodesGood
<1>2. Live(o) = {} /\ errs[o] = <<>> /\ Live(o)' = Live(o)
  BY DEF Counted, Live
<1>3. opc[o] \in BeforeStore => /\ next[o] = 1 /\ active[o] = 0
                                 /\ \A i \in Positions : work[o][i] = "none"
  BY <1>1, PlaceTypes DEF Counted, Spawned
<1>4. Spawned(o)'
  BY <1>1, <1>3, PlaceTypes DEF Spawned, Grow
<1>5. Counted(o)'
  <2>1. Cardinality(Live(o)) = 0 /\ Len(errs[o]) = 0
    BY <1>2, FS_EmptySet
  <2> QED
    BY <1>2, <1>3, <2>1, SettingsAssumption DEF Counted
<1>6. ASSUME NEW i \in Positions PROVE WorkerGood(o, i)'
  <2>1. CASE work[o][i] = "none"
    BY <2>1 DEF WorkerGood
  <2>2. CASE work[o][i] # "none"
    BY <1>1, <1>3, <2>2, SetStays DEF WorkerGood, Grow, appending
  <2> QED
    BY <2>1, <2>2
<1> QED
  BY <1>4, <1>5, <1>6

LEMMA StoreFileGood ==
  ASSUME TypeOK, NodesGood, Grow, NEW o \in Ops, Counted(o),
         NEW f \in Files, NEW n \in Names, StoreFile(o, f, n)
  PROVE  Good(o)'
<1> USE DEF loop, workers
<1>1. Spawned(o)
  BY DEF NodesGood
<1>2. opc[o] = "idle" /\ next[o] = 1 /\ \A i \in Positions : work[o][i] = "none"
  BY <1>1, PlaceTypes DEF StoreFile, Counted, BeforeStore, Spawned
<1>3. /\ opc'[o] = "precheck" /\ file'[o] = f /\ name'[o] = n
      /\ UNCHANGED <<next, active, errs, work>>
  BY DEF StoreFile, TypeOK
<1>4. Live(o)' = Live(o)
  BY <1>3 DEF Live
<1> QED
  BY <1>2, <1>3, <1>4 DEF Good, OpGood, Spawned, Counted, WorkerGood,
     BeforeStore

LEMMA OpStepGood ==
  ASSUME TypeOK, NodesGood, Grow, NEW o \in Ops, Counted(o), OpStep(o)
  PROVE  Good(o)'
<1> USE DEF loop, workers, nodes, Goto, Leave, LeaveFailed
<1>1. /\ OpGood(o) /\ Spawned(o) /\ \A i \in Positions : WorkerGood(o, i)
      /\ opc[o] \notin {"idle", "failed", "dead"} /\ file[o] \in Files
      /\ file'[o] = file[o] /\ name'[o] = name[o] /\ name[o] \in Names
  BY DEF NodesGood, OpGood, Grow, OpStep, PreStoreCheck, AddName, Preflight,
     CreateNode, SpawnWorker, Collect, Flush, FlushFails, CloseManager,
     CloseFails, FinishRead, FinishWrite, OpFails, Running, Over
<1>2. There(file[o]) => There(file[o])'
  BY <1>1, ThereStays
<1>3. CASE SpawnWorker(o)
  <2>1. next[o] \in DOMAIN Content[file[o]] /\ next[o] \in Positions
    BY <1>1, <1>3, PlaceTypes DEF SpawnWorker, AllSpawned
  <2>2. /\ opc' = opc /\ opc[o] = "store" /\ errs' = errs /\ seen' = seen
        /\ next'[o] = next[o] + 1 /\ active'[o] = active[o] + 1
        /\ active[o] <= MaxThreads /\ next[o] \in Nat /\ active[o] \in Nat
    BY <1>3 DEF SpawnWorker, MayStart, TypeOK
  <2>3. /\ work'[o][next[o]] = "ping"
        /\ \A i \in Positions \ {next[o]} : work'[o][i] = work[o][i]
    BY <1>3, <2>1 DEF SpawnWorker, TypeOK
  <2>4. Spawned(o)'
    <3>1. ASSUME NEW i \in Positions, work'[o][i] # "none"
          PROVE  i < next'[o] /\ i \in DOMAIN Content[file[o]]
      BY <1>1, <2>1, <2>2, <2>3, <3>1, PlaceTypes DEF Spawned
    <3>2. ASSUME NEW i \in Positions, i < next'[o] PROVE work'[o][i] # "none"
      <4>1. i < next[o] \/ i = next[o]
        BY <2>2, <3>2, PlaceTypes
      <4> QED
        BY <1>1, <2>2, <2>3, <4>1 DEF Spawned
    <3> QED
      BY <1>1, <2>2, <3>1, <3>2 DEF Spawned
  <2>5. Counted(o)'
    <3>1. next[o] \notin Live(o) /\ Live(o)' = Live(o) \cup {next[o]}
      BY <1>1, <2>1, <2>2, <2>3 DEF Live, Spawned
    <3>2. Cardinality(Live(o)') = Cardinality(Live(o)) + 1
      <4>1. IsFiniteSet(Live(o))
        BY <1>1, LiveFinite
      <4>2. Cardinality(Live(o) \cup {next[o]}) = Cardinality(Live(o)) + 1
        BY <3>1, <4>1, FS_AddElement
      <4> QED
        BY <3>1, <4>2
    <3>3. Cardinality(Live(o)) \in Nat /\ Len(errs[o]) \in Nat
      BY <1>1, LiveFinite DEF TypeOK
    <3>4. opc'[o] = "store" /\ errs'[o] = errs[o] /\ next'[o] >= 1
      BY <2>2 DEF Counted
    <3>5. active[o] = Cardinality(Live(o)) + Len(errs[o])
      BY <2>2 DEF Counted, BeforeStore
    <3>6. /\ active'[o] = Cardinality(Live(o)') + Len(errs'[o])
          /\ active'[o] <= MaxThreads + 1
      BY <2>2, <3>2, <3>3, <3>5, SettingsAssumption
    <3> QED
      BY <3>4, <3>6 DEF Counted, BeforeStore
  <2>6. ASSUME NEW i \in Positions PROVE WorkerGood(o, i)'
    <3>1. CASE i = next[o]
      BY <2>3, <3>1 DEF WorkerGood
    <3>2. CASE work[o][i] = "none" /\ i # next[o]
      BY <2>3, <3>2 DEF WorkerGood
    <3>3. CASE work[o][i] # "none" /\ i # next[o]
      BY <1>1, <2>2, <2>3, <3>3, SetStays DEF WorkerGood, Grow, appending
    <3> QED
      BY <3>1, <3>2, <3>3
  <2>7. OpGood(o)'
    BY <1>1, <2>2 DEF OpGood, Grow
  <2> QED
    BY <2>4, <2>5, <2>6, <2>7 DEF Good
<1>4. CASE Collect(o)
  <2>1. /\ opc[o] = "store" /\ errs[o] # <<>> /\ errs[o] \in Seq({"ok", "err"})
        /\ errs'[o] = Tail(errs[o]) /\ UNCHANGED <<seen, next, work>>
        /\ active[o] \in Nat
        /\ IF errs[o][1] = "ok" THEN active'[o] = active[o] - 1 /\ opc'[o] = "store"
                                 ELSE opc'[o] \in {"abandon", "failed"}
        /\ opc'[o] = "abandon" => appending
    BY <1>4 DEF Collect, TypeOK
  <2>2. /\ Len(errs'[o]) = Len(errs[o]) - 1 /\ Len(errs[o]) \in Nat
        /\ \A k \in DOMAIN errs[o] : k # 1 =>
             k - 1 \in DOMAIN errs'[o] /\ errs'[o][k - 1] = errs[o][k]
    BY <2>1, HeadTailProperties, ElementOfSeq
  <2>3. Spawned(o)'
    BY <1>1, <2>1 DEF Spawned
  <2>4. Counted(o)'
    <3>1. Live(o)' = Live(o)
      BY <2>1 DEF Live
    <3>2. Cardinality(Live(o)) \in Nat
      BY <1>1, LiveFinite
    <3> QED
      BY <2>1, <2>2, <3>1, <3>2, SettingsAssumption DEF Counted, BeforeStore
  <2>5. ASSUME NEW i \in Positions PROVE WorkerGood(o, i)'
    <3>1. CASE work[o][i] = "none"
      BY <2>1, <3>1 DEF WorkerGood
    <3>2. CASE work[o][i] # "none"
      <4>1. appending' = appending
        BY DEF appending, Grow
      <4>2. ASSUME opc'[o] = "store", NEW k \in DOMAIN errs[o], errs[o][k] = "err"
            PROVE  \E j \in DOMAIN errs'[o] : errs'[o][j] = "err"
        BY <2>1, <2>2, <4>2
      <4>3. opc'[o] = "store" /\ work[o][i] = "exited" =>
              \/ \E j \in DOMAIN errs'[o] : errs'[o][j] = "err"
              \/ ChunkSet(o, i) /\ RelSet(o, i)
        BY <1>1, <2>1, <4>2 DEF WorkerGood
      <4> QED
        BY <1>1, <2>1, <3>2, <4>1, <4>3, SetStays DEF WorkerGood
    <3> QED
      BY <3>1, <3>2
  <2>6. OpGood(o)'
    BY <1>1, <2>1 DEF OpGood, Grow, appending
  <2> QED
    BY <2>3, <2>4, <2>5, <2>6 DEF Good
<1>5. CASE Flush(o) \/ FlushFails(o)
  <2>1. /\ opc[o] = "store" /\ next[o] \notin DOMAIN Content[file[o]] /\ active[o] = 0
        /\ opc'[o] \in IF Flush(o) THEN {"close", "finish"} ELSE {"abandon", "failed"}
        /\ opc'[o] \in {"close", "abandon"} => appending
        /\ UNCHANGED <<seen, next, active, errs, work>>
    BY <1>5 DEF Flush, FlushFails, AllSpawned, TypeOK
  <2>2. Live(o) = {} /\ errs[o] = <<>>
    <3>1. Cardinality(Live(o)) \in Nat /\ Len(errs[o]) \in Nat
      BY <1>1, LiveFinite DEF TypeOK
    <3>2. Cardinality(Live(o)) = 0 /\ Len(errs[o]) = 0
      BY <2>1, <3>1 DEF Counted
    <3> QED
      BY <1>1, <3>2, LiveFinite, FS_EmptySet, EmptySeq DEF TypeOK
  <2>3. Spawned(o)'
    BY <1>1, <2>1 DEF Spawned
  <2>4. Counted(o)'
    <3>1. Live(o)' = {}
      BY <2>1, <2>2 DEF Live
    <3>2. Cardinality(Live(o)') = 0 /\ Len(errs'[o]) = 0
      BY <2>1, <2>2, <3>1, FS_EmptySet
    <3> QED
      BY <2>1, <2>2, <3>1, <3>2, SettingsAssumption DEF Counted, BeforeStore
  <2>5. ASSUME NEW i \in Positions PROVE WorkerGood(o, i)'
    <3>1. CASE work[o][i] = "none"
      BY <2>1, <3>1 DEF WorkerGood
    <3>2. CASE work[o][i] # "none"
      BY <1>1, <2>1, <3>2, SetStays DEF WorkerGood, Grow, appending
    <3> QED
      BY <3>1, <3>2
  <2>6. ASSUME Flush(o) PROVE There(file[o])'
    <3>1. ASSUME NEW i \in DOMAIN Content[file[o]]
          PROVE  <<file[o], i>> \in rel' /\ Content[file[o]][i] \in chonk'
      <4>1. i \in Positions /\ i < next[o]
        <5>1. /\ DOMAIN Content[file[o]] = 1 .. Len(Content[file[o]])
              /\ Len(Content[file[o]]) \in Nat /\ i \in Positions
          BY <1>1, PlaceTypes
        <5>2. next[o] \in Nat /\ next[o] >= 1
          BY DEF TypeOK, Counted
        <5> QED
          BY <2>1, <5>1, <5>2
      <4>2. work[o][i] = "exited"
        BY <1>1, <2>1, <2>2, <4>1 DEF Spawned, Live
      <4>3. ChunkSet(o, i) /\ RelSet(o, i)
        BY <1>1, <2>1, <2>2, <4>1, <4>2 DEF WorkerGood
      <4> QED
        BY <2>6, <4>3 DEF Flush, Commit, ChunkSet, RelSet, Chunk
    <3> QED
      BY <1>1, <3>1 DEF There
  <2>7. OpGood(o)'
    BY <1>1, <2>1, <2>6 DEF OpGood, Grow, appending
  <2> QED
    BY <2>3, <2>4, <2>5, <2>7 DEF Good
<1>6. CASE \/ PreStoreCheck(o) \/ Preflight(o) \/ AddName(o) \/ CreateNode(o)
           \/ FinishRead(o) \/ FinishWrite(o) \/ OpFails(o)
  <2>1. UNCHANGED <<next, active, errs, work>> /\ opc[o] \notin {"store", "abandon"}
    BY <1>6 DEF PreStoreCheck, Preflight, AddName, CreateNode, FinishRead,
       FinishWrite,
               OpFails
  <2>2. /\ opc'[o] \notin {"idle", "dead"}
        /\ opc'[o] \in BeforeStore \cup {"store"} => opc[o] \in BeforeStore
        /\ OpGood(o)'
    <3> USE DEF TypeOK, BeforeStore
    <3>1. CASE PreStoreCheck(o) \/ Preflight(o)
      <4> DEFINE node == evi[file[o]]
      <4>1. node \in EviNode \cup {None} /\ (node # None /\ node.completed => There(file[o]))
        BY <1>1 DEF NodesGood, Completed
      <4>2. /\ opc[o] \in BeforeStore /\ seen'[o] = node /\ evi' = evi
            /\ \/ opc'[o] \in {"preflight", "create", "ok"}
               \/ opc'[o] = "store" /\ node # None
               \/ /\ opc'[o] \in {"addName", "addNameInPreflight", "finish"}
                  /\ node # None /\ node.completed
        BY <3>1 DEF PreStoreCheck, Preflight
      <4> QED
        BY <1>1, <1>2, <4>1, <4>2 DEF OpGood
    <3>2. CASE AddName(o)
      <4>1. /\ opc'[o] = IF opc[o] = "addName" THEN "ok" ELSE "finish"
            /\ evi'[file[o]] = Added(seen[o], name[o]) /\ seen[o] \in EviNode
            /\ opc[o] \in {"addName", "addNameInPreflight"}
        BY <1>1, <3>2 DEF AddName, OpGood
      <4>2. Added(seen[o], name[o]) \in EviNode
        BY <1>1, <4>1 DEF EviNode, Added
      <4> QED
        BY <1>1, <1>2, <4>1, <4>2, NoneAssumption DEF OpGood
    <3>3. CASE CreateNode(o)
      <4>1. [names |-> {name[o]}, completed |-> FALSE] \in EviNode
        BY <1>1 DEF EviNode
      <4>2. /\ opc'[o] = "store" /\ opc[o] = "create"
            /\ evi'[file[o]] = [names |-> {name[o]}, completed |-> FALSE]
        BY <1>1, <3>3 DEF CreateNode
      <4> QED
        BY <1>1, <4>1, <4>2, NoneAssumption DEF OpGood
    <3>4. CASE FinishRead(o)
      BY <1>1, <1>2, <3>4 DEF FinishRead, OpGood
    <3>5. CASE FinishWrite(o) \/ OpFails(o)
      <4>1. opc'[o] \in {"ok", "failed"}
        BY <3>5 DEF FinishWrite, OpFails
      <4> QED
        BY <1>1, <4>1 DEF OpGood
    <3> QED
      BY <1>6, <3>1, <3>2, <3>3, <3>4, <3>5
  <2> QED
    BY <1>1, <2>1, <2>2, QuietGood DEF Good
<1>7. CASE CloseManager(o) \/ CloseFails(o)
  <2>1. /\ opc[o] \in {"close", "abandon"} /\ UNCHANGED <<evi, next, active, errs, work>>
        /\ opc'[o] \in {"finish", "failed"}
        /\ opc'[o] = "finish" => opc[o] = "close"
    BY <1>7 DEF CloseManager, CloseFails, TypeOK
  <2>2. OpGood(o)'
    BY <1>1, <1>2, <2>1 DEF OpGood
  <2>3. CASE opc[o] = "close"
    BY <1>1, <2>1, <2>2, <2>3, QuietGood DEF Good, BeforeStore
  <2>4. CASE opc[o] = "abandon"
    <3>1. Live(o)' = Live(o)
      BY <2>1 DEF Live
    <3>2. Spawned(o)' /\ Counted(o)'
      BY <1>1, <2>1, <2>4, <3>1 DEF Spawned, Counted, BeforeStore
    <3>3. ASSUME NEW i \in Positions PROVE WorkerGood(o, i)'
      <4>1. CASE work[o][i] = "none"
        BY <2>1, <4>1 DEF WorkerGood
      <4>2. CASE work[o][i] # "none"
        BY <1>1, <2>1, <4>2, SetStays DEF WorkerGood, Grow, appending
      <4> QED
        BY <4>1, <4>2
    <3> QED
      BY <2>2, <3>2, <3>3 DEF Good
  <2> QED
    BY <2>1, <2>3, <2>4
<1> QED
  BY <1>3, <1>4, <1>5, <1>6, <1>7 DEF OpStep

LEMMA WorkerStepGood ==
  ASSUME TypeOK, NodesGood, Grow, NEW o \in Ops, Counted(o),
         NEW i \in Positions, WorkerStep(o, i)
  PROVE  Good(o)'
<1> USE DEF loop, workers, nodes, At, Advance
<1>1. /\ OpGood(o) /\ Spawned(o) /\ \A j \in Positions : WorkerGood(o, j)
      /\ appending' = appending
  BY DEF NodesGood, Grow, appending
<1>2. /\ UNCHANGED <<opc, seen, next, active>>
      /\ work[o][i] \notin {"none", "exited"}
      /\ \A j \in Positions \ {i} : work'[o][j] = work[o][j]
      /\ IF Report(o, i) THEN work'[o][i] = "exited"
         ELSE work'[o][i] \notin {"none", "exited"} /\ errs'[o] = errs[o]
  <2>1. work \in [Ops -> [Positions -> WorkStates]] /\ DOMAIN errs = Ops
    BY DEF TypeOK, WorkStates
  <2>2. ASSUME NEW l, work' = [work EXCEPT ![o][i] = l]
        PROVE  work'[o][i] = l /\ \A j \in Positions \ {i} : work'[o][j] = work[o][j]
    BY <2>1, <2>2
  <2>3. CASE Report(o, i)
    BY <2>2, <2>3 DEF Report
  <2>4. CASE ~Report(o, i)
    <3>1. /\ work[o][i] \notin {"none", "exited"}
          /\ \E l : l \notin {"none", "exited"} /\ work' = [work EXCEPT ![o][i] = l]
          /\ UNCHANGED <<opc, seen, next, active, errs>>
      BY <2>4 DEF WorkerStep, PingChonk, TruncateBlob, WriteChonk,
         WriteToContainer, ContainerWriteFails, ProcessRel, RevRelGet,
         RevRelSet, WorkerFails
    <3> QED
      BY <2>2, <2>4, <3>1
  <2> QED
    BY <2>3, <2>4
<1>3. ASSUME Report(o, i)
      PROVE  \E r \in {"ok", "err"} :
               /\ errs'[o] = Append(errs[o], r)
               /\ work[o][i] = IF r = "ok" THEN "reportOk" ELSE "reportErr"
  BY <1>3 DEF Report, TypeOK
<1>4. opc[o] # "idle" /\ file'[o] = file[o] /\ name'[o] = name[o]
  BY <1>2, WorkerType DEF Grow
<1>5. OpGood(o)'
  BY <1>1, <1>2, <1>4, ThereStays DEF OpGood, Grow
<1>6. Spawned(o)'
  BY <1>1, <1>2, <1>4 DEF Spawned
<1>7. Counted(o)'
  <2>1. /\ Cardinality(Live(o)) \in Nat /\ Len(errs[o]) \in Nat
        /\ IsFiniteSet(Live(o)) /\ i \in Live(o)
    <3>1. errs[o] \in Seq({"ok", "err"})
      BY DEF TypeOK
    <3>2. Cardinality(Live(o)) \in Nat /\ IsFiniteSet(Live(o))
      BY <1>1, LiveFinite
    <3> QED
      BY <1>2, <3>1, <3>2 DEF Live
  <2>2. opc[o] \in {"store", "abandon", "failed"}
    BY <2>1 DEF Counted
  <2>3. Cardinality(Live(o)') + Len(errs'[o]) = Cardinality(Live(o)) + Len(errs[o])
    <3>1. CASE Report(o, i)
      <4>1. Live(o)' = Live(o) \ {i}
        BY <1>2, <3>1 DEF Live
      <4>2. Cardinality(Live(o)') = Cardinality(Live(o)) - 1
        BY <2>1, <4>1, FS_RemoveElement
      <4>3. Len(errs'[o]) = Len(errs[o]) + 1
        BY <1>3, <3>1 DEF TypeOK
      <4> QED
        BY <2>1, <4>2, <4>3
    <3>2. CASE ~Report(o, i)
      <4>1. Live(o)' = Live(o)
        BY <1>2, <3>2 DEF Live
      <4> QED
        BY <1>2, <3>2, <4>1
    <3> QED
      BY <3>1, <3>2
  <2> QED
    BY <1>2, <2>1, <2>2, <2>3 DEF Counted, BeforeStore
<1>8. ASSUME NEW j \in Positions PROVE WorkerGood(o, j)'
  <2>1. ASSUME \E k \in DOMAIN errs[o] : errs[o][k] = "err"
        PROVE  \E k \in DOMAIN errs'[o] : errs'[o][k] = "err"
    <3>1. PICK k \in DOMAIN errs[o] : errs[o][k] = "err"
      BY <2>1
    <3>2. CASE Report(o, i)
      <4>1. PICK r : errs'[o] = Append(errs[o], r)
        BY <1>3, <3>2
      <4>2. errs[o] \in Seq({"ok", "err"})
        BY DEF TypeOK
      <4>3. k \in DOMAIN errs'[o] /\ errs'[o][k] = errs[o][k]
        BY <3>1, <4>1, <4>2
      <4> QED
        BY <3>1, <4>3
    <3> QED
      BY <1>2, <3>1, <3>2
  <2>2. CASE j # i
    <3>1. CASE work[o][j] = "none"
      BY <1>2, <2>2, <3>1 DEF WorkerGood
    <3>2. CASE work[o][j] # "none"
      BY <1>1, <1>2, <2>1, <2>2, <3>2, SetStays DEF WorkerGood
    <3> QED
      BY <3>1, <3>2
  <2>3. CASE j = i
    <3>1. /\ file[o] \in Files /\ Chunk(o, i)' = Chunk(o, i) /\ Chunk(o, i) \in Chunks
          /\ ChunkSet(o, i) => ChunkSet(o, i)'
          /\ RelSet(o, i) => RelSet(o, i)'
      BY <1>2, SetStays, WorkerType
    <3>2. CASE PingChonk(o, i)
      BY <1>1, <2>3, <3>1, <3>2 DEF PingChonk, WorkerGood, ChunkSet, Known,
         TypeOK
    <3>3. CASE TruncateBlob(o, i) \/ ContainerWriteFails(o, i) \/ WorkerFails(o, i)
      <4>1. work'[o][i] \in {"write", "reportErr"}
        BY <3>3 DEF TruncateBlob, ContainerWriteFails, WorkerFails, TypeOK
      <4> QED
        BY <2>3, <4>1 DEF WorkerGood
    <3>4. CASE WriteChonk(o, i) \/ WriteToContainer(o, i)
      <4>1. Chunk(o, i) \in batch'[o].chonk /\ work'[o][i] = "rel"
        BY <3>4 DEF WriteChonk, WriteToContainer, TypeOK
      <4> QED
        BY <2>3, <3>1, <4>1 DEF WorkerGood, ChunkSet
    <3>5. CASE ProcessRel(o, i)
      <4>1. work[o][i] = "rel" /\ work'[o][i] = "revGet" /\ rel' = rel
        BY <3>5 DEF ProcessRel, TypeOK
      <4>2. <<file[o], i>> \in rel \/ <<file[o], i>> \in batch'[o].rel
        BY <3>5 DEF ProcessRel, TypeOK
      <4> QED
        BY <1>1, <1>4, <2>3, <3>1, <4>1, <4>2 DEF WorkerGood, RelSet
    <3>6. CASE RevRelGet(o, i) \/ RevRelSet(o, i)
      <4>1. work[o][i] \in {"revGet", "revSet"} /\ work'[o][i] \in {"revSet", "reportOk"}
        BY <3>6 DEF RevRelGet, RevRelSet, TypeOK
      <4> QED
        BY <1>1, <2>3, <3>1, <4>1 DEF WorkerGood
    <3>7. CASE Report(o, i)
      <4>1. PICK r \in {"ok", "err"} :
              /\ errs'[o] = Append(errs[o], r)
              /\ work[o][i] = IF r = "ok" THEN "reportOk" ELSE "reportErr"
        BY <1>3, <3>7
      <4>2. errs[o] \in Seq({"ok", "err"})
        BY DEF TypeOK
      <4>3. r = "err" => \E k \in DOMAIN errs'[o] : errs'[o][k] = "err"
        <5>1. Len(errs[o]) + 1 \in DOMAIN errs'[o] /\ errs'[o][Len(errs[o]) + 1] = r
          BY <4>1, <4>2
        <5> QED
          BY <5>1
      <4> QED
        BY <1>1, <1>2, <2>3, <3>1, <3>7, <4>1, <4>3 DEF WorkerGood
    <3> QED
      BY <3>2, <3>3, <3>4, <3>5, <3>6, <3>7 DEF WorkerStep
  <2> QED
    BY <2>2, <2>3
<1> QED
  BY <1>5, <1>6, <1>7, <1>8 DEF Good

LEMMA CrashGood ==
  ASSUME TypeOK, NodesGood, Grow, NEW o \in Ops, Counted(o), Crash
  PROVE  Good(o)'
<1> USE DEF loop, workers, nodes
<1>1. OpGood(o) /\ Counted(o)
  BY DEF NodesGood
<1>2. /\ UNCHANGED <<evi, chonk, rel, file, name, seen, next, active, errs>>
      /\ \A i \in Positions : work'[o][i] = "none"
      /\ opc'[o] = IF opc[o] \in {"idle", "ok"} THEN opc[o] ELSE "dead"
  BY DEF Crash
<1>3. Live(o)' = {}
  BY <1>2 DEF Live
<1> QED
  BY <1>1, <1>2, <1>3 DEF Good, OpGood, Spawned, Counted, WorkerGood,
     BeforeStore

(* Who writes an evidence file node.                                       *)
LEMMA EviWritten ==
  ASSUME [Next]_vars, evi' # evi
  PROVE  \E o \in Ops : AddName(o) \/ CreateNode(o) \/ FinishWrite(o)
<1> USE DEF nodes
<1>1. ASSUME NEW o \in Ops, OpStep(o)
      PROVE  UNCHANGED evi \/ AddName(o) \/ CreateNode(o) \/ FinishWrite(o)
  BY <1>1 DEF OpStep, PreStoreCheck, Preflight, SpawnWorker, Collect, Flush,
     FlushFails, CloseManager, CloseFails, FinishRead, OpFails
<1>2. ASSUME NEW o \in Ops, NEW i \in Positions, WorkerStep(o, i) PROVE UNCHANGED evi
  BY <1>2 DEF WorkerStep, PingChonk, TruncateBlob, WriteChonk,
     WriteToContainer, ContainerWriteFails, ProcessRel, RevRelGet, RevRelSet,
     WorkerFails, Report
<1>3. ASSUME NEW o \in Ops, NEW n \in Names, NEW g \in Files, StoreFile(o, g, n)
      PROVE  UNCHANGED evi
  BY <1>3 DEF StoreFile
<1>4. ASSUME NEW o \in Ops, AutoCommit(o) PROVE UNCHANGED evi
  BY <1>4 DEF AutoCommit
<1>5. CASE Crash \/ AllOver \/ UNCHANGED vars
  BY <1>5 DEF Crash, AllOver, vars
<1> QED
  BY <1>1, <1>2, <1>3, <1>4, <1>5, Zenon DEF Next

LEMMA CompletedStep ==
  ASSUME TypeOK, NodesGood, Grow, [Next]_vars, NEW f \in Files, Completed(f)'
  PROVE  There(f)'
<1>1. CASE Completed(f)
  BY <1>1, ThereStays DEF NodesGood
<1>2. CASE ~Completed(f)
  <2>1. PICK o \in Ops : AddName(o) \/ CreateNode(o) \/ FinishWrite(o)
    BY <1>2, EviWritten DEF Completed
  <2>2. CASE f = file[o]
    <3>1. ~CreateNode(o)
      BY <2>2 DEF CreateNode, Completed, TypeOK
    <3>2. There(f)
      BY <2>1, <2>2, <3>1 DEF NodesGood, OpGood, AddName, FinishWrite
    <3> QED
      BY <3>2, ThereStays
  <2>3. CASE f # file[o]
    <3>1. evi'[f] = evi[f]
      BY <2>1, <2>3 DEF AddName, CreateNode, FinishWrite, TypeOK
    <3> QED
      BY <1>2, <3>1 DEF Completed
  <2> QED
    BY <2>2, <2>3
<1> QED
  BY <1>1, <1>2

LEMMA NodesStep ==
  TypeOK /\ NodesGood /\ (\A o \in Ops : Counted(o)) /\ [Next]_vars
    => NodesGood' /\ \A o \in Ops : Counted(o)'
<1> SUFFICES ASSUME TypeOK, NodesGood, \A o \in Ops : Counted(o), [Next]_vars
             PROVE  NodesGood' /\ \A o \in Ops : Counted(o)'
  OBVIOUS
<1>1. Grow
  BY GrowStep
<1>2. ASSUME NEW p \in Ops PROVE Good(p)'
  <2>1. ASSUME NEW o \in Ops, NEW f \in Files, NEW n \in Names, StoreFile(o, f, n)
        PROVE  Good(p)'
    BY <1>1, <2>1, StoreFileGood, OthersSame, SameGood, Zenon
  <2>2. ASSUME NEW o \in Ops, OpStep(o) PROVE Good(p)'
    BY <1>1, <2>2, OpStepGood, OthersSame, SameGood, Zenon
  <2>3. ASSUME NEW o \in Ops, NEW i \in Positions, WorkerStep(o, i) PROVE Good(p)'
    BY <1>1, <2>3, WorkerStepGood, OthersSame, SameGood, Zenon
  <2>4. ASSUME NEW o \in Ops, AutoCommit(o) PROVE Good(p)'
    <3>1. Same(p)
      BY <2>4 DEF AutoCommit, Same, loop, workers
    <3> QED
      BY <1>1, <3>1, SameGood
  <2>5. CASE Crash
    BY <1>1, <2>5, CrashGood
  <2>6. CASE AllOver \/ UNCHANGED vars
    <3>1. Same(p)
      BY <2>6 DEF AllOver, vars, Same, loop, workers
    <3> QED
      BY <1>1, <3>1, SameGood
  <2> QED
    BY <2>1, <2>2, <2>3, <2>4, <2>5, <2>6, Zenon DEF Next
<1>3. \A f \in Files : Completed(f)' => There(f)'
  BY <1>1, CompletedStep
<1> QED
  BY <1>2, <1>3 DEF Good, NodesGood

-----------------------------------------------------------------------------
LEMMA InitInvariant == Init => IInv
<1> SUFFICES ASSUME Init PROVE IInv
  OBVIOUS
<1>1. TypeOK
  BY InitTypes
<1>2. \A o \in Ops : /\ Live(o) = {} /\ errs[o] = <<>> /\ opc[o] = "idle"
                     /\ next[o] = 1 /\ active[o] = 0
  BY DEF Init, Live
<1>3. \A o \in Ops : Counted(o)
  BY <1>2 DEF Counted, BeforeStore
<1>4. NodesGood
  <2>1. \A o \in Ops, i \in Positions : work[o][i] = "none"
    BY DEF Init
  <2>2. \A o \in Ops : OpGood(o) /\ Spawned(o)
    BY <1>2, <2>1 DEF OpGood, Spawned
  <2>3. \A o \in Ops, i \in Positions : WorkerGood(o, i)
    BY <2>1 DEF WorkerGood
  <2>4. \A f \in Files : ~Completed(f)
    BY DEF Init, Completed
  <2> QED
    BY <2>2, <2>3, <2>4 DEF NodesGood
<1> QED
  BY <1>1, <1>3, <1>4 DEF IInv

LEMMA StepInvariant == IInv /\ [Next]_vars => IInv'
BY TypeStep, NodesStep, Zenon DEF IInv

(* The inductive invariant of storing: what operations and workers have    *)
(* set, and how many are at work.                                          *)
THEOREM Invariance == Spec => []IInv
BY InitInvariant, StepInvariant, PTL DEF Spec

(* Every variable keeps its type.                                          *)
THEOREM TypeCorrect == Spec => []TypeOK
<1>1. IInv => TypeOK
  BY DEF IInv
<1> QED
  BY <1>1, Invariance, PTL

(* An operation that has ended leaves no worker that could block on        *)
(* tio.Err for ever: the channel has room for every report still to come,  *)
(* though one more worker than it holds may have been active.              *)
THEOREM ReportsFit == Spec => []RoomForReports
<1>1. IInv => RoomForReports
  <2> SUFFICES ASSUME IInv, NEW o \in Ops, opc[o] \in {"ok", "failed"}
               PROVE  Cardinality(Live(o)) + Len(errs[o]) <= MaxThreads
    BY DEF RoomForReports, Live, ErrCap
  <2>1. Counted(o)
    BY DEF IInv
  <2>2. CASE opc[o] = "ok"
    <3>1. Cardinality(Live(o)) = 0 /\ Len(errs[o]) = 0
      BY <2>1, <2>2, FS_EmptySet DEF Counted
    <3> QED
      BY <3>1, SettingsAssumption
  <2>3. CASE opc[o] = "failed"
    BY <2>1, <2>3 DEF Counted
  <2> QED
    BY <2>2, <2>3
<1> QED
  BY <1>1, Invariance, PTL

(* What a restore reads of the database.                                   *)
NodesRestorable ==
  \A f \in Files : Completed(f) =>
    \A i \in DOMAIN Content[f] : <<f, i>> \in rel /\ Content[f][i] \in chonk

(* In every mode, and with any number of operations together, a completed  *)
(* file has all its relation nodes and chunk nodes.                        *)
THEOREM CompletedNodes == Spec => []NodesRestorable
<1>1. IInv => NodesRestorable
  BY DEF IInv, NodesGood, NodesRestorable, There
<1> QED
  BY <1>1, Invariance, PTL

-----------------------------------------------------------------------------
(* Operations that come one after the other.                               *)

Alone == \A o, p \in Ops : Running(o) /\ Running(p) => o = p

(* What an operation is about to overwrite is what it has read, and its    *)
(* name is recorded as soon as there is a node that it did not take over.  *)
NameGood(o) ==
  /\ opc[o] \in {"addName", "addNameInPreflight", "finishWrite"} =>
       seen[o] = evi[file[o]]
  /\ opc[o] = "create" => evi[file[o]] = None
  /\ opc[o] \in {"store", "close", "finish", "finishWrite", "ok"} /\ ~resumed[o] =>
       evi[file[o]] # None /\ name[o] \in evi[file[o]].names

NamesGood == OneAtATime => Alone /\ \A o \in Ops : NameGood(o)

Kept(f) ==
  evi[f] # None =>
    /\ evi'[f] # None
    /\ evi[f].names \subseteq evi'[f].names
    /\ evi[f].completed => evi'[f].completed

LEMMA NodeKept ==
  ASSUME TypeOK, NodesGood, NamesGood, OneAtATime, [Next]_vars, NEW f \in Files
  PROVE  Kept(f)
<1> SUFFICES ASSUME evi[f] # None, evi' # evi PROVE Kept(f)
  BY DEF Kept
<1>1. PICK o \in Ops : AddName(o) \/ CreateNode(o) \/ FinishWrite(o)
  BY EviWritten
<1>2. NameGood(o) /\ OpGood(o) /\ evi[f] \in EviNode
  BY DEF NamesGood, NodesGood, TypeOK
<1>3. file[o] \in Files /\ name[o] \in Names
  BY <1>1, <1>2 DEF AddName, CreateNode, FinishWrite, OpGood
<1>4. CASE f # file[o]
  BY <1>1, <1>4 DEF AddName, CreateNode, FinishWrite, TypeOK, Kept
<1>5. CASE f = file[o]
  <2>1. CASE AddName(o)
    <3>1. seen[o] = evi[f] /\ evi'[f] = Added(evi[f], name[o])
      BY <1>2, <1>5, <2>1 DEF AddName, NameGood, TypeOK
    <3>2. /\ Added(evi[f], name[o]) \in EviNode
          /\ Added(evi[f], name[o]).names = evi[f].names \cup {name[o]}
          /\ Added(evi[f], name[o]).completed = evi[f].completed
      BY <1>2, <1>3 DEF EviNode, Added
    <3> QED
      BY <3>1, <3>2, NoneAssumption DEF Kept
  <2>2. CASE CreateNode(o)
    BY <1>2, <1>5, <2>2 DEF CreateNode, NameGood
  <2>3. CASE FinishWrite(o)
    <3>1. seen[o] = evi[f] /\ evi'[f] = [evi[f] EXCEPT !.completed = TRUE]
      BY <1>2, <1>5, <2>3 DEF FinishWrite, NameGood, TypeOK
    <3>2. /\ [evi[f] EXCEPT !.completed = TRUE] \in EviNode
          /\ [evi[f] EXCEPT !.completed = TRUE].names = evi[f].names
          /\ [evi[f] EXCEPT !.completed = TRUE].completed
      BY <1>2 DEF EviNode
    <3> QED
      BY <3>1, <3>2, NoneAssumption DEF Kept
  <2> QED
    BY <1>1, <2>1, <2>2, <2>3
<1> QED
  BY <1>4, <1>5

(* Who is in progress: a step starts an operation when there is none, or   *)
(* is one of an operation that is in progress, or starts nothing.          *)
LEMMA AloneStep ==
  ASSUME TypeOK, NodesGood, NamesGood, OneAtATime, [Next]_vars
  PROVE  Alone'
<1> USE DEF Running, Over
<1>0. Alone
  BY DEF NamesGood
<1>1. ASSUME NEW o \in Ops, NEW f \in Files, NEW n \in Names, StoreFile(o, f, n)
      PROVE  Alone'
  <2>1. \A p \in Ops : ~Running(p)
    <3> DEFINE R == {p \in Ops : Running(p)}
    <3>1. SUFFICES ASSUME NEW p \in Ops, Running(p) PROVE FALSE
      OBVIOUS
    <3>2. R = {p}
      BY <1>0, <3>1 DEF Alone
    <3>3. Cardinality(R) = 1
      BY <3>2, FS_Singleton
    <3>4. Cardinality(R) < setting.concurrent
      BY <1>1 DEF StoreFile
    <3> HIDE DEF R
    <3> QED
      BY <3>3, <3>4 DEF OneAtATime
  <2>2. \A p \in Ops : p # o => opc'[p] = opc[p]
    BY <1>1 DEF StoreFile, TypeOK
  <2> QED
    BY <2>1, <2>2 DEF Alone
<1>2. ASSUME NEW o \in Ops, OpStep(o) PROVE Alone'
  <2>1. Running(o)
    BY <1>2 DEF OpStep, PreStoreCheck, AddName, Preflight, CreateNode,
       SpawnWorker, Collect, Flush, FlushFails, CloseManager, CloseFails,
       FinishRead, FinishWrite, OpFails
  <2>2. \A p \in Ops : p # o => opc'[p] = opc[p]
    BY <1>2, OthersSame DEF Same
  <2> QED
    BY <1>0, <2>1, <2>2 DEF Alone
<1>3. CASE Crash
  BY <1>3 DEF Crash, Alone
<1>4. CASE opc' = opc
  BY <1>0, <1>4 DEF Alone
<1>5. ASSUME NEW o \in Ops, NEW i \in Positions, WorkerStep(o, i) PROVE opc' = opc
  BY <1>5 DEF WorkerStep, PingChonk, TruncateBlob, WriteChonk,
     WriteToContainer, ContainerWriteFails, ProcessRel, RevRelGet, RevRelSet,
     WorkerFails, Report
<1>6. ASSUME NEW o \in Ops, AutoCommit(o) PROVE opc' = opc
  BY <1>6 DEF AutoCommit
<1>7. CASE AllOver \/ UNCHANGED vars
  BY <1>4, <1>7 DEF AllOver, vars
<1> HIDE DEF Running, Over
<1> QED
  BY <1>1, <1>2, <1>3, <1>4, <1>5, <1>6, <1>7, Zenon DEF Next

(* An operation that is not in progress keeps its record.                  *)
LEMMA OverNameGood ==
  ASSUME TypeOK, NodesGood, NEW p \in Ops, NameGood(p), ~Running(p),
         \A f \in Files : Kept(f),
         opc'[p] = opc[p] \/ opc'[p] = "dead",
         opc[p] # "idle" => file'[p] = file[p] /\ name'[p] = name[p],
         resumed'[p] = resumed[p]
  PROVE  NameGood(p)'
<1>1. OpGood(p)
  BY DEF NodesGood
<1>2. CASE opc'[p] = "ok"
  <2>1. file[p] \in Files /\ Kept(file[p])
    BY <1>1, <1>2 DEF OpGood
  <2> QED
    BY <1>2, <2>1 DEF NameGood, Kept
<1> QED
  BY <1>2 DEF NameGood, Running, Over

LEMMA OpNameGood ==
  ASSUME TypeOK, NodesGood, NEW o \in Ops, NameGood(o), OpStep(o),
         \A f \in Files : Kept(f), Grow
  PROVE  NameGood(o)'
<1> USE DEF nodes, blobs, loop, workers, Goto, Leave, LeaveFailed
<1>1. /\ OpGood(o) /\ opc[o] # "idle" /\ file[o] \in Files /\ name[o] \in Names
      /\ file'[o] = file[o] /\ name'[o] = name[o] /\ evi[file[o]] \in EviNode \cup {None}
  BY DEF NodesGood, OpGood, Grow, OpStep, PreStoreCheck, AddName, Preflight,
     CreateNode, SpawnWorker, Collect, Flush, FlushFails, CloseManager,
     CloseFails, FinishRead, FinishWrite, OpFails, Running, Over, TypeOK
<1>2. CASE PreStoreCheck(o)
  BY <1>1, <1>2 DEF PreStoreCheck, NameGood, TypeOK
<1>3. CASE Preflight(o)
  BY <1>1, <1>3 DEF Preflight, NameGood, TypeOK
<1>4. CASE AddName(o)
  <2>1. seen[o] \in EviNode /\ Added(seen[o], name[o]) \in EviNode
    BY <1>1, <1>4 DEF AddName, OpGood, EviNode, Added
  <2>2. name[o] \in Added(seen[o], name[o]).names
    BY <2>1 DEF EviNode, Added
  <2>3. /\ evi'[file[o]] = Added(seen[o], name[o])
        /\ opc'[o] \in {"ok", "finish"}
    BY <1>1, <1>4 DEF AddName, TypeOK
  <2> QED
    BY <1>1, <2>1, <2>2, <2>3, NoneAssumption DEF NameGood
<1>5. CASE CreateNode(o)
  <2> DEFINE n == [names |-> {name[o]}, completed |-> FALSE]
  <2>1. n \in EviNode /\ name[o] \in n.names
    BY <1>1 DEF EviNode
  <2>2. evi'[file[o]] = n /\ opc'[o] = "store"
    BY <1>1, <1>5 DEF CreateNode, TypeOK
  <2> HIDE DEF n
  <2>3. evi'[file'[o]] # None /\ name'[o] \in evi'[file'[o]].names
    BY <1>1, <2>1, <2>2, NoneAssumption
  <2> QED
    BY <2>2, <2>3 DEF NameGood
<1>6. CASE \/ SpawnWorker(o) \/ Collect(o) \/ Flush(o) \/ FlushFails(o)
           \/ CloseManager(o) \/ CloseFails(o) \/ OpFails(o)
  <2>1. /\ opc[o] \in {"store", "close"} \/ opc'[o] \in {"abandon", "failed"}
        /\ opc'[o] \in {"store", "close", "abandon", "failed", "finish"}
        /\ evi' = evi /\ resumed' = resumed
    BY <1>6 DEF SpawnWorker, Collect, Flush, FlushFails, CloseManager,
       CloseFails, OpFails, TypeOK
  <2> QED
    BY <1>1, <2>1 DEF NameGood
<1>7. CASE FinishRead(o)
  BY <1>1, <1>7 DEF FinishRead, NameGood, TypeOK
<1>8. CASE FinishWrite(o)
  <2>1. /\ opc[o] = "finishWrite" /\ opc'[o] = "ok" /\ resumed' = resumed
        /\ Kept(file[o])
    BY <1>1, <1>8 DEF FinishWrite, TypeOK
  <2> QED
    BY <1>1, <2>1 DEF NameGood, Kept
<1> QED
  BY <1>2, <1>3, <1>4, <1>5, <1>6, <1>7, <1>8 DEF OpStep

LEMMA NamesStep == TypeOK /\ NodesGood /\ NamesGood /\ [Next]_vars => NamesGood'
<1> SUFFICES ASSUME TypeOK, NodesGood, NamesGood, [Next]_vars, OneAtATime'
             PROVE  Alone' /\ \A o \in Ops : NameGood(o)'
  BY DEF NamesGood
<1>1. Grow
  BY GrowStep
<1>2. OneAtATime
  BY <1>1 DEF Grow, OneAtATime
<1>3. Alone' /\ Alone
  BY <1>2, AloneStep DEF NamesGood
<1>4. \A f \in Files : Kept(f)
  BY <1>2, NodeKept
<1>5. ASSUME NEW p \in Ops PROVE NameGood(p)'
  <2>0. NameGood(p)
    BY <1>2 DEF NamesGood
  <2>1. ASSUME NEW o \in Ops, NEW f \in Files, NEW n \in Names, StoreFile(o, f, n)
        PROVE  NameGood(p)'
    <3>1. CASE p = o
      BY <2>1, <3>1 DEF StoreFile, TypeOK, NameGood
    <3>2. CASE p # o
      <4>1. Same(p)
        BY <2>1, <3>2, OthersSame
      <4>2. evi' = evi
        BY <2>1 DEF StoreFile, nodes
      <4> QED
        BY <1>1, <2>0, <2>1, <3>2, <4>1, <4>2 DEF NameGood, Same, Grow
    <3> QED
      BY <3>1, <3>2
  <2>2. ASSUME NEW o \in Ops, OpStep(o) PROVE NameGood(p)'
    <3>1. CASE p = o
      BY <1>1, <1>4, <2>0, <2>2, <3>1, OpNameGood
    <3>2. CASE p # o
      <4>1. Same(p)
        BY <2>2, <3>2, OthersSame
      <4>2. Running(o)
        BY <2>2 DEF OpStep, PreStoreCheck, AddName, Preflight, CreateNode,
           SpawnWorker, Collect, Flush, FlushFails, CloseManager, CloseFails,
           FinishRead, FinishWrite, OpFails, Running, Over
      <4>3. ~Running(p)
        BY <1>3, <3>2, <4>2 DEF Alone
      <4> QED
        BY <1>1, <1>4, <2>0, <4>1, <4>3, OverNameGood DEF Same, Grow
    <3> QED
      BY <3>1, <3>2
  <2>3. ASSUME UNCHANGED <<evi, opc, seen, resumed>> PROVE NameGood(p)'
    BY <1>1, <2>0, <2>3 DEF NameGood, Grow
  <2>4. ASSUME NEW o \in Ops, NEW i \in Positions, WorkerStep(o, i)
        PROVE  UNCHANGED <<evi, opc, seen, resumed>>
    BY <2>4 DEF WorkerStep, PingChonk, TruncateBlob, WriteChonk,
       WriteToContainer, ContainerWriteFails, ProcessRel, RevRelGet, RevRelSet,
       WorkerFails, Report, nodes
  <2>5. ASSUME NEW o \in Ops, AutoCommit(o)
        PROVE  UNCHANGED <<evi, opc, seen, resumed>>
    BY <2>5 DEF AutoCommit
  <2>6. CASE Crash
    <3>1. /\ opc'[p] = IF opc[p] \in {"idle", "ok"} THEN opc[p] ELSE "dead"
          /\ UNCHANGED <<evi, seen, resumed, file, name>>
      BY <2>6 DEF Crash, nodes
    <3> QED
      BY <2>0, <3>1 DEF NameGood
  <2>7. CASE AllOver \/ UNCHANGED vars
    BY <2>3, <2>7 DEF AllOver, vars, nodes
  <2> QED
    BY <2>1, <2>2, <2>3, <2>4, <2>5, <2>6, <2>7, Zenon DEF Next
<1> QED
  BY <1>3, <1>5
-----------------------------------------------------------------------------
(* Containers.                                                             *)

InStore == {"store", "close", "abandon"}

(* The manager of an operation is open only while the operation stores,    *)
(* and cannot be opened again: not even by a worker left behind.  Until it *)
(* is open the operation has no address; if the container is its own, its  *)
(* next offset is where the container ends.                                *)
ManagerGood(o) ==
  /\ manager[o].file # "lost"
  /\ manager[o].file = "open" =>
       /\ opc[o] \in InStore /\ container.blob
       /\ container.owner = o => manager[o].offset = Len(container.data)
  /\ manager[o].file = "closed" => opc[o] \notin BeforeStore \cup InStore
  /\ manager[o].file = "none" =>
       /\ manager[o].offset = 0 /\ container.owner # o
       /\ batch[o].chonk = {} /\ \A c \in chonk : address[c].op # o
       /\ opc[o] = "failed" => Live(o) = {}

(* An address in a container says where the chunk is.                      *)
PointsIn(k, a, c) ==
  /\ a \in Address
  /\ a.op = k.owner => a.offset \in DOMAIN k.data /\ k.data[a.offset] = c

BatchPoints(o) ==
  \A c \in batch[o].chonk :
    batch[o].address[c].op = o /\ PointsIn(container, batch[o].address[c], c)

ContainersGood ==
  appending /\ OneAtATime =>
    /\ \A o \in Ops : ManagerGood(o) /\ BatchPoints(o)
    /\ \A c \in chonk : PointsIn(container, address[c], c)

(* A step that leaves the container and the manager of an operation alone. *)
LEMMA QuietManager ==
  ASSUME NEW p \in Ops, ManagerGood(p), manager'[p] = manager[p],
         container' = container, batch'[p].chonk = batch[p].chonk,
         UNCHANGED <<chonk, address>>,
         opc[p] \in InStore => opc'[p] \in InStore \/ manager[p].file # "open",
         opc'[p] \in BeforeStore \cup InStore => opc[p] \in BeforeStore \cup InStore,
         opc'[p] = "failed" /\ manager[p].file = "none" => Live(p)' = {}
  PROVE  ManagerGood(p)'
BY DEF ManagerGood

LEMMA QuietPoints ==
  ASSUME NEW p \in Ops, BatchPoints(p), batch'[p].chonk = batch[p].chonk,
         batch'[p].address = batch[p].address,
         container'.owner = container.owner, container'.data = container.data
  PROVE  BatchPoints(p)'
BY DEF BatchPoints, PointsIn

(* The container a write finds open: what pointed into it still does.      *)
LEMMA OpenedGood ==
  ASSUME TypeOK, NEW o \in Ops, ManagerGood(o), manager[o].file \in {"none", "open"}
  PROVE  /\ Opened(o).blob
         /\ Opened(o).owner = o => manager[o].offset = Len(Opened(o).data)
         /\ Opened(o).owner \in {container.owner, o}
         /\ \A a, c : PointsIn(container, a, c) /\ (manager[o].file = "none" => a.op # o) =>
              (a.op = Opened(o).owner => /\ a.offset \in DOMAIN Opened(o).data
                                         /\ Opened(o).data[a.offset] = c)
<1>1. container \in ContainerOf /\ Opened(o) \in ContainerOf
  BY ContainerTypes
<1>2. CASE manager[o].file = "open" \/ container.blob
  <2>1. Opened(o) = container
    BY <1>2 DEF Opened
  <2>2. container.blob
    BY <1>2 DEF ManagerGood
  <2> QED
    BY <2>1, <2>2 DEF ManagerGood, PointsIn
<1>3. CASE manager[o].file = "none" /\ ~container.blob
  <2>1. Opened(o) = [blob |-> TRUE, data |-> <<>>, owner |-> o]
    BY <1>3 DEF Opened
  <2>2. Opened(o).blob /\ Opened(o).data = <<>> /\ Opened(o).owner = o
    BY <2>1
  <2>3. manager[o].offset = 0 /\ Len(Opened(o).data) = 0
    BY <1>3, <2>2 DEF ManagerGood
  <2> QED
    BY <1>3, <2>2, <2>3
<1> QED
  BY <1>2, <1>3

(* A write to the container, of a chunk or of a part of one.               *)
LEMMA WriteEffect ==
  ASSUME TypeOK, NEW o \in Ops, NEW i \in Positions, NodesGood, ManagerGood(o),
         WriteToContainer(o, i) \/ ContainerWriteFails(o, i)
  PROVE  /\ manager[o].file \in {"none", "open"}
         /\ manager'[o].file = "open"
         /\ container'.blob
         /\ container'.owner = o => manager'[o].offset = Len(container'.data)
         /\ container'.owner \in {container.owner, o, None}
         /\ \A a, c : PointsIn(container, a, c) /\ (manager[o].file = "none" => a.op # o) =>
              PointsIn(container', a, c)
         /\ WriteToContainer(o, i) =>
              \A a : a = [op |-> o, offset |-> manager[o].offset + 1] =>
                PointsIn(container', a, Chunk(o, i))
<1> DEFINE C == Opened(o)
<1>1. /\ manager[o].file \in {"none", "open"} /\ FileOf(o) = "open"
      /\ work[o][i] # "none"
  <2>1. manager[o].file \in {"none", "open", "lost", "closed"}
    BY ManagerTypes DEF ManagerOf
  <2> QED
    BY <2>1 DEF ManagerGood, WriteToContainer, ContainerWriteFails, FileOf, At
<1>2. C \in ContainerOf /\ C.data \in Seq(Chunks \cup {None})
  BY ContainerTypes DEF ContainerOf
<1>3. manager[o].offset \in Nat /\ Chunk(o, i) \in Chunks
  BY <1>1, ManagerTypes, WorkerType DEF ManagerOf
<1>4. /\ C.blob
      /\ C.owner = o => manager[o].offset = Len(C.data)
      /\ C.owner \in {container.owner, o}
      /\ \A a, c : PointsIn(container, a, c) /\ (manager[o].file = "none" => a.op # o) =>
           (a.op = C.owner => a.offset \in DOMAIN C.data /\ C.data[a.offset] = c)
  BY <1>1, OpenedGood
<1>5. ASSUME NEW x \in Chunks \cup {None}
      PROVE  /\ Written(o, x).blob = C.blob /\ Written(o, x).owner = C.owner
             /\ Written(o, x).data = Append(C.data, x)
  <2>1. Written(o, x) = [C EXCEPT !.data = Append(C.data, x)]
    BY <1>1 DEF Written
  <2> QED
    BY <1>2, <2>1 DEF ContainerOf
<1> HIDE DEF C
<1>6. \A x : /\ Len(Append(C.data, x)) = Len(C.data) + 1
             /\ Append(C.data, x)[Len(C.data) + 1] = x
             /\ Len(C.data) + 1 \in DOMAIN Append(C.data, x)
             /\ \A k \in DOMAIN C.data :
                  k \in DOMAIN Append(C.data, x) /\ Append(C.data, x)[k] = C.data[k]
  BY <1>2
<1>7. CASE WriteToContainer(o, i)
  <2>1. /\ container' = Written(o, Chunk(o, i))
        /\ manager'[o] = [file |-> "open", offset |-> manager[o].offset + 1]
    BY <1>1, <1>7, ManagerTypes DEF WriteToContainer, NextOffset
  <2>2. /\ container'.blob /\ container'.owner = C.owner
        /\ container'.data = Append(C.data, Chunk(o, i))
    BY <1>3, <1>4, <1>5, <2>1
  <2>3. ASSUME NEW a, a = [op |-> o, offset |-> manager[o].offset + 1]
        PROVE  PointsIn(container', a, Chunk(o, i))
    <3>1. a \in Address /\ a.op = o /\ a.offset = manager[o].offset + 1
      BY <1>3, <2>3 DEF Address
    <3>2. Chunk(o, i)' = Chunk(o, i)
      BY <1>7 DEF WriteToContainer, Chunk
    <3> QED
      BY <1>4, <1>6, <2>2, <3>1, <3>2 DEF PointsIn
  <2>4. ASSUME NEW a, NEW c, PointsIn(container, a, c),
               manager[o].file = "none" => a.op # o
        PROVE  PointsIn(container', a, c)
    <3>1. a \in Address
      BY <2>4 DEF PointsIn
    <3>2. a.op = C.owner => a.offset \in DOMAIN C.data /\ C.data[a.offset] = c
      BY <1>4, <2>4
    <3> DEFINE D == Append(C.data, Chunk(o, i))
    <3>3. a.op = container'.owner => a.offset \in DOMAIN D /\ D[a.offset] = c
      BY <1>6, <2>2, <3>2
    <3> QED
      BY <2>2, <3>1, <3>3 DEF PointsIn
  <2>5. container'.owner = o => manager'[o].offset = Len(container'.data)
    BY <1>4, <1>6, <2>1, <2>2
  <2> QED
    BY <1>1, <1>4, <2>1, <2>2, <2>3, <2>4, <2>5
<1>8. CASE ContainerWriteFails(o, i)
  <2>0. ~WriteToContainer(o, i)
    BY <1>1, <1>8 DEF WriteToContainer, ContainerWriteFails, Advance, TypeOK
  <2>1. /\ manager'[o].file = "open" /\ manager'[o].offset = manager[o].offset
    <3>1. manager' = [manager EXCEPT ![o].file = "open"]
      BY <1>1, <1>8 DEF ContainerWriteFails
    <3> QED
      BY <3>1, ManagerTypes DEF ManagerOf
  <2>2. CASE container' = C
    BY <1>1, <1>4, <2>0, <2>1, <2>2 DEF PointsIn
  <2>3. CASE container' = [Written(o, None) EXCEPT !.owner = None]
    <3>1. container'.owner = None /\ container'.blob
      <4>1. Written(o, None) \in ContainerOf /\ Written(o, None).blob
        BY <1>4, <1>5, ContainerTypes
      <4> QED
        BY <2>3, <4>1 DEF ContainerOf
    <3>2. \A a \in Address : a.op # None
      BY NoneAssumption DEF Address
    <3> QED
      BY <1>1, <2>0, <2>1, <3>1, <3>2, NoneAssumption DEF PointsIn
  <2> QED
    BY <1>8, <2>2, <2>3 DEF ContainerWriteFails, C
<1> QED
  BY <1>7, <1>8

(* The write of the operation that stores.                                 *)
LEMMA WriterContainers ==
  ASSUME TypeOK, NodesGood, \A p \in Ops : Counted(p), Alone, ContainersGood,
         appending, OneAtATime, NEW o \in Ops, NEW i \in Positions,
         WriteToContainer(o, i) \/ ContainerWriteFails(o, i)
  PROVE  /\ \A p \in Ops : ManagerGood(p)' /\ BatchPoints(p)'
         /\ \A c \in chonk' : PointsIn(container', address'[c], c)
<1> USE DEF nodes, At, Advance
<1>1. /\ \A p \in Ops : ManagerGood(p) /\ BatchPoints(p)
      /\ \A c \in chonk : PointsIn(container, address[c], c)
  BY DEF ContainersGood
<1>2. /\ manager[o].file \in {"none", "open"} /\ manager'[o].file = "open"
      /\ container'.blob
      /\ container'.owner = o => manager'[o].offset = Len(container'.data)
      /\ container'.owner \in {container.owner, o, None}
      /\ \A a, c : PointsIn(container, a, c) /\ (manager[o].file = "none" => a.op # o) =>
           PointsIn(container', a, c)
      /\ WriteToContainer(o, i) =>
           \A a : a = [op |-> o, offset |-> manager[o].offset + 1] =>
             PointsIn(container', a, Chunk(o, i))
  BY <1>1, WriteEffect
<1>3. /\ UNCHANGED <<chonk, address, opc, file>>
      /\ work[o][i] = "write" /\ work'[o][i] \notin {"none", "exited"}
      /\ \A p \in Ops \ {o} : batch'[p] = batch[p] /\ work'[p] = work[p]
      /\ \A p \in Ops \ {o} : manager'[p] = manager[p]
  BY DEF WriteToContainer, ContainerWriteFails, TypeOK
<1>4. opc[o] \in InStore
  <2>1. i \in Live(o)
    BY <1>3 DEF Live
  <2>2. opc[o] \in {"store", "abandon", "failed"}
    BY <2>1 DEF Counted
  <2> QED
    BY <1>1, <1>2, <2>1, <2>2 DEF ManagerGood, InStore
<1>5. ManagerGood(o)'
  BY <1>2, <1>3, <1>4 DEF ManagerGood
<1>6. ASSUME NEW p \in Ops, p # o PROVE ManagerGood(p)' /\ BatchPoints(p)'
  <2>1. opc[p] \notin InStore
    BY <1>4, <1>6 DEF Alone, Running, Over, InStore
  <2>2. manager[p].file # "open"
    BY <1>1, <2>1 DEF ManagerGood
  <2>3. Live(p)' = Live(p)
    BY <1>3, <1>6 DEF Live
  <2>4. manager[p].file = "none" => container'.owner # p
    BY <1>1, <1>2, <1>6, NoneAssumption DEF ManagerGood
  <2>5. ManagerGood(p)'
    BY <1>1, <1>3, <1>6, <2>2, <2>3, <2>4 DEF ManagerGood
  <2>6. ASSUME NEW c \in batch[p].chonk PROVE PointsIn(container', batch[p].address[c], c)
    BY <1>1, <1>2, <1>6 DEF BatchPoints
  <2> QED
    BY <1>3, <1>6, <1>1, <2>5, <2>6 DEF BatchPoints
<1>7. ASSUME NEW c \in chonk PROVE PointsIn(container', address[c], c)
  <2>1. manager[o].file = "none" => address[c].op # o
    BY <1>1 DEF ManagerGood
  <2> QED
    BY <1>1, <1>2, <2>1
<1>8. ASSUME NEW c \in batch[o].chonk
      PROVE  PointsIn(container', batch[o].address[c], c) /\ batch[o].address[c].op = o
  <2>1. manager[o].file # "none"
    BY <1>1 DEF ManagerGood
  <2> QED
    BY <1>1, <1>2, <2>1 DEF BatchPoints
<1>9. BatchPoints(o)'
  <2>1. CASE WriteToContainer(o, i)
    <3> DEFINE at == [op |-> o, offset |-> manager[o].offset + 1]
    <3>1. Chunk(o, i) \in Chunks /\ Chunk(o, i)' = Chunk(o, i)
      BY <1>3, WorkerType DEF Chunk
    <3>2. batch' = [batch EXCEPT ![o].chonk = @ \cup {Chunk(o, i)},
                                 ![o].address[Chunk(o, i)] = at]
      BY <2>1, Zenon DEF WriteToContainer
    <3>3. PointsIn(container', at, Chunk(o, i)) /\ at.op = o
      BY <1>2, <2>1
    <3> HIDE DEF at
    <3>4. /\ batch'[o].chonk = batch[o].chonk \cup {Chunk(o, i)}
          /\ batch'[o].address = [batch[o].address EXCEPT ![Chunk(o, i)] = at]
      BY <3>2, BatchTypes DEF BatchOf
    <3>5. /\ batch'[o].address[Chunk(o, i)] = at
          /\ \A c \in batch[o].chonk : c # Chunk(o, i) =>
               batch'[o].address[c] = batch[o].address[c]
      BY <3>1, <3>4, BatchTypes DEF BatchOf
    <3> QED
      BY <1>8, <3>1, <3>3, <3>4, <3>5 DEF BatchPoints
  <2>2. CASE ContainerWriteFails(o, i)
    <3>1. batch' = batch
      BY <2>2 DEF ContainerWriteFails
    <3> QED
      BY <1>8, <3>1 DEF BatchPoints
  <2> QED
    BY <2>1, <2>2
<1> QED
  BY <1>3, <1>5, <1>6, <1>7, <1>9


(* A batch that is committed brings its addresses along.                   *)
LEMMA CommitContainers ==
  ASSUME TypeOK, \A p \in Ops : ManagerGood(p) /\ BatchPoints(p),
         \A c \in chonk : PointsIn(container, address[c], c),
         NEW o \in Ops, Commit(o), UNCHANGED <<container, manager, work>>,
         \A p \in Ops : opc'[p] = opc[p] \/ (opc[p] = "store" /\ opc'[p] = "close")
  PROVE  /\ \A p \in Ops : ManagerGood(p)' /\ BatchPoints(p)'
         /\ \A c \in chonk' : PointsIn(container', address'[c], c)
<1>1. /\ chonk' = chonk \cup batch[o].chonk /\ chonk \subseteq Chunks
      /\ batch[o].chonk \subseteq Chunks
      /\ \A c \in Chunks : address'[c] = IF c \in batch[o].chonk THEN batch[o].address[c]
                                        ELSE address[c]
  BY DEF Commit, TypeOK
<1>2. /\ batch'[o].chonk = {}
      /\ \A p \in Ops : p # o => batch'[p] = batch[p]
  BY DEF Commit, TypeOK, EmptyBatch
<1>3. ASSUME NEW p \in Ops, manager[p].file = "none", NEW c \in chonk'
      PROVE  address'[c].op # p
  BY <1>1, <1>3 DEF ManagerGood, BatchPoints
<1>4. ASSUME NEW p \in Ops PROVE ManagerGood(p)'
  <2>1. Live(p)' = Live(p)
    BY DEF Live
  <2>2. batch[p].chonk = {} => batch'[p].chonk = {}
    BY <1>2
  <2>3. ManagerGood(p) /\ manager'[p] = manager[p] /\ container' = container
    OBVIOUS
  <2>4. /\ opc[p] \in InStore => opc'[p] \in InStore
        /\ opc'[p] \in BeforeStore \cup InStore => opc[p] \in BeforeStore \cup InStore
        /\ opc'[p] = "failed" => opc[p] = "failed"
    BY DEF InStore
  <2> QED
    BY <1>3, <2>1, <2>2, <2>3, <2>4 DEF ManagerGood
<1>5. ASSUME NEW p \in Ops PROVE BatchPoints(p)'
  <2>1. BatchPoints(p)
    OBVIOUS
  <2> QED
    BY <1>2, <2>1 DEF BatchPoints
<1>6. ASSUME NEW c \in chonk' PROVE PointsIn(container', address'[c], c)
  BY <1>1, <1>6 DEF BatchPoints
<1> QED
  BY <1>4, <1>5, <1>6

(* Close: of the managers only this one is open.                           *)
LEMMA CloseContainers ==
  ASSUME TypeOK, Alone, \A p \in Ops : ManagerGood(p) /\ BatchPoints(p),
         \A c \in chonk : PointsIn(container, address[c], c),
         NEW o \in Ops, CloseManager(o) \/ CloseFails(o)
  PROVE  /\ \A p \in Ops : ManagerGood(p)' /\ BatchPoints(p)'
         /\ \A c \in chonk' : PointsIn(container', address'[c], c)
<1> USE DEF nodes, workers, Goto
<1>1. /\ opc[o] \in InStore /\ opc'[o] \in {"finish", "failed"}
      /\ \A p \in Ops \ {o} : opc'[p] = opc[p]
      /\ UNCHANGED <<chonk, address, batch, work>>
  BY DEF CloseManager, CloseFails, InStore, TypeOK
<1>2. container'.owner = container.owner /\ container'.data = container.data
  BY ContainerTypes DEF CloseManager, CloseFails, ContainerOf
<1>3. ASSUME NEW p \in Ops, p # o PROVE manager[p].file \notin {"open", "lost"}
  BY <1>1, <1>3 DEF Alone, Running, Over, InStore, ManagerGood
<1>4. manager'[o].file = "closed"
  <2>1. manager'[o] = [manager[o] EXCEPT !.file = "closed"]
    BY DEF CloseManager, CloseFails, TypeOK
  <2> QED
    BY <2>1, ManagerTypes DEF ManagerOf
<1>5. ASSUME NEW p \in Ops, p # o PROVE manager'[p] = manager[p]
  <2>1. CASE CloseManager(o)
    <3>1. manager'[p] = [manager[p] EXCEPT !.file = manager[p].file]
      BY <1>3, <1>5, <2>1 DEF CloseManager
    <3> QED
      BY <3>1, ManagerTypes DEF ManagerOf
  <2>2. CASE CloseFails(o)
    BY <1>5, <2>2 DEF CloseFails, TypeOK
  <2> QED
    BY <2>1, <2>2
<1>6. ASSUME NEW p \in Ops PROVE ManagerGood(p)' /\ BatchPoints(p)'
  <2>1. BatchPoints(p)'
    BY <1>1, <1>2, QuietPoints
  <2>2. CASE p = o
    BY <1>1, <1>4, <2>1, <2>2 DEF ManagerGood, InStore, BeforeStore
  <2>3. CASE p # o
    <3>1. Live(p)' = Live(p) /\ ManagerGood(p) /\ opc'[p] = opc[p]
      BY <1>1, <2>3 DEF Live
    <3> QED
      BY <1>1, <1>2, <1>3, <1>5, <2>1, <2>3, <3>1 DEF ManagerGood
  <2> QED
    BY <2>2, <2>3
<1>7. \A c \in chonk' : PointsIn(container', address'[c], c)
  BY <1>1, <1>2 DEF PointsIn
<1> QED
  BY <1>6, <1>7

(* Any other step of an operation or a worker.                             *)
LEMMA QuietContainers ==
  ASSUME \A p \in Ops : ManagerGood(p) /\ BatchPoints(p),
         \A c \in chonk : PointsIn(container, address[c], c),
         UNCHANGED <<container, manager, chonk, address>>,
         \A p \in Ops : /\ batch'[p].chonk = batch[p].chonk
                        /\ batch'[p].address = batch[p].address,
         \A p \in Ops :
           /\ opc[p] \in InStore => opc'[p] \in InStore
           /\ opc'[p] \in BeforeStore \cup InStore => opc[p] \in BeforeStore \cup InStore
           /\ opc'[p] = "failed" => \/ Live(p)' = {}
                                    \/ opc[p] = "failed" /\ (Live(p) = {} => Live(p)' = {})
  PROVE  /\ \A p \in Ops : ManagerGood(p)' /\ BatchPoints(p)'
         /\ \A c \in chonk' : PointsIn(container', address'[c], c)
<1>1. ASSUME NEW p \in Ops PROVE ManagerGood(p)'
  <2>1. opc'[p] = "failed" /\ manager[p].file = "none" => Live(p)' = {}
    BY DEF ManagerGood
  <2> QED
    BY <2>1, QuietManager
<1>2. ASSUME NEW p \in Ops PROVE BatchPoints(p)'
  BY QuietPoints
<1> QED
  BY <1>1, <1>2


LEMMA ContainersStep ==
  TypeOK /\ NodesGood /\ (\A o \in Ops : Counted(o)) /\ NamesGood /\ ContainersGood
    /\ [Next]_vars => ContainersGood'
<1> DEFINE After == /\ \A p \in Ops : ManagerGood(p)' /\ BatchPoints(p)'
                    /\ \A c \in chonk' : PointsIn(container', address'[c], c)
<1> SUFFICES ASSUME TypeOK, NodesGood, \A o \in Ops : Counted(o), NamesGood,
                    ContainersGood, [Next]_vars, appending', OneAtATime'
             PROVE  After
  BY DEF ContainersGood
<1>1. appending /\ OneAtATime
  BY GrowStep DEF Grow, appending, OneAtATime
<1>2. /\ \A p \in Ops : ManagerGood(p) /\ BatchPoints(p)
      /\ \A c \in chonk : PointsIn(container, address[c], c)
      /\ Alone
  BY <1>1 DEF ContainersGood, NamesGood
<1> DEFINE Quiet == UNCHANGED <<container, manager, chonk, address>>
           BatchSame == \A p \in Ops : /\ batch'[p].chonk = batch[p].chonk
                                   /\ batch'[p].address = batch[p].address
           On(p) == /\ opc[p] \in InStore => opc'[p] \in InStore
                    /\ opc'[p] \in BeforeStore \cup InStore =>
                         opc[p] \in BeforeStore \cup InStore
                    /\ opc'[p] = "failed" =>
                         \/ Live(p)' = {}
                         \/ opc[p] = "failed" /\ (Live(p) = {} => Live(p)' = {})
<1>3. ASSUME Quiet, BatchSame, \A p \in Ops : On(p) PROVE After
  BY <1>2, <1>3, QuietContainers
<1>4. ASSUME NEW p \in Ops, Same(p) PROVE On(p)
  BY <1>4 DEF Same, Live
<1>5. ASSUME NEW o \in Ops, NEW f \in Files, NEW n \in Names, StoreFile(o, f, n)
      PROVE  After
  <2>1. Quiet /\ BatchSame
    BY <1>5 DEF StoreFile, nodes, blobs
  <2>2. On(o)
    BY <1>5 DEF StoreFile, BeforeStore, InStore, TypeOK
  <2>3. \A p \in Ops : p # o => Same(p)
    BY <1>5, OthersSame
  <2> QED
    BY <1>3, <1>4, <2>1, <2>2, <2>3
<1>6. ASSUME NEW o \in Ops, OpStep(o) PROVE After
  <2> USE DEF nodes, blobs, loop, workers, Goto, Leave, LeaveFailed
  <2>1. CASE CloseManager(o) \/ CloseFails(o)
    BY <1>2, <2>1, CloseContainers
  <2>2. CASE Flush(o)
    <3>1. Commit(o) /\ UNCHANGED <<container, manager, work>>
      BY <2>2 DEF Flush
    <3>2. opc[o] = "store" /\ opc'[o] = "close"
      BY <1>1, <2>2 DEF Flush, TypeOK
    <3>3. \A p \in Ops : p # o => opc'[p] = opc[p]
      BY <1>6, OthersSame DEF Same
    <3> QED
      BY <1>2, <3>1, <3>2, <3>3, CommitContainers
  <2>3. CASE ~(CloseManager(o) \/ CloseFails(o) \/ Flush(o))
    <3>1. Quiet /\ BatchSame
      BY <1>6, <2>3 DEF OpStep, PreStoreCheck, AddName, Preflight, CreateNode,
         SpawnWorker, Collect, FlushFails, FinishRead, FinishWrite, OpFails
    <3>2. On(o)
      <4>1. CASE PreStoreCheck(o) \/ AddName(o) \/ Preflight(o) \/ CreateNode(o)
        BY <4>1 DEF PreStoreCheck, AddName, Preflight, CreateNode, TypeOK, InStore,
           BeforeStore
      <4>2. CASE FinishRead(o) \/ FinishWrite(o)
        BY <4>2 DEF FinishRead, FinishWrite, TypeOK, InStore, BeforeStore
      <4>3. CASE SpawnWorker(o) \/ Collect(o) \/ FlushFails(o)
        BY <1>1, <4>3 DEF SpawnWorker, Collect, FlushFails, TypeOK, InStore
      <4>4. CASE OpFails(o)
        <5>1. /\ opc[o] \notin Over \cup InStore /\ opc'[o] = "failed"
              /\ work' = work
          BY <4>4 DEF OpFails, Running, InStore, TypeOK
        <5>2. Live(o) = {}
          BY <5>1 DEF Counted, Over, InStore
        <5>3. Live(o)' = {}
          BY <5>1, <5>2 DEF Live
        <5> QED
          BY <5>1, <5>3 DEF InStore, BeforeStore
      <4> QED
        BY <1>6, <2>3, <4>1, <4>2, <4>3, <4>4 DEF OpStep
    <3>3. \A p \in Ops : p # o => Same(p)
      BY <1>6, OthersSame
    <3> HIDE DEF Quiet, BatchSame, On, After
    <3> QED
      BY <1>3, <1>4, <3>1, <3>2, <3>3
  <2> QED
    BY <2>1, <2>2, <2>3
<1>7. ASSUME NEW o \in Ops, NEW i \in Positions, WorkerStep(o, i) PROVE After
  <2> USE DEF nodes, blobs, loop, workers, At, Advance
  <2>1. CASE WriteToContainer(o, i) \/ ContainerWriteFails(o, i)
    BY <1>1, <1>2, <2>1, WriterContainers
  <2>2. CASE ~(WriteToContainer(o, i) \/ ContainerWriteFails(o, i))
    <3>1. Quiet /\ opc' = opc
      BY <1>1, <1>7, <2>2 DEF WorkerStep, PingChonk, TruncateBlob, WriteChonk,
         ProcessRel, RevRelGet, RevRelSet, WorkerFails, Report
    <3>2. BatchSame
      <4>1. CASE ProcessRel(o, i)
        BY <4>1 DEF ProcessRel, TypeOK
      <4>2. CASE RevRelSet(o, i)
        BY <4>2 DEF RevRelSet, TypeOK
      <4>3. CASE UNCHANGED batch
        BY <4>3
      <4> QED
        BY <1>1, <1>7, <2>2, <4>1, <4>2, <4>3 DEF WorkerStep, PingChonk,
           TruncateBlob, WriteChonk, RevRelGet, WorkerFails, Report
    <3>3. On(o)
      <4>1. i \in Live(o)
        BY <1>7, <2>2 DEF WorkerStep, PingChonk, TruncateBlob, WriteChonk,
           ProcessRel, RevRelGet, RevRelSet, WorkerFails, Report, Live
      <4> QED
        BY <3>1, <4>1
    <3>4. \A p \in Ops : p # o => Same(p)
      BY <1>7, OthersSame
    <3> HIDE DEF Quiet, BatchSame, On, After
    <3> QED
      BY <1>3, <1>4, <3>1, <3>2, <3>3, <3>4
  <2> QED
    BY <2>1, <2>2
<1>8. ASSUME NEW o \in Ops, AutoCommit(o) PROVE After
  <2>1. Commit(o) /\ UNCHANGED <<container, manager, work, opc>>
    BY <1>8 DEF AutoCommit, blobs, workers
  <2> QED
    BY <1>2, <2>1, CommitContainers
<1>9. CASE Crash
  <2>1. /\ UNCHANGED <<container, chonk, address, batch>>
        /\ \A p \in Ops : IF opc[p] = "idle"
             THEN opc'[p] = "idle" /\ manager'[p] = manager[p]
             ELSE opc'[p] \in {"ok", "dead"} /\ manager'[p].file = "closed"
    <3>1. UNCHANGED <<container, chonk, address, batch>>
      BY <1>9 DEF Crash, nodes
    <3>2. ASSUME NEW p \in Ops, opc[p] # "idle" PROVE manager'[p].file = "closed"
      <4>1. manager'[p] = [manager[p] EXCEPT !.file = "closed"]
        BY <1>9, <3>2 DEF Crash
      <4> QED
        BY <4>1, ManagerTypes DEF ManagerOf
    <3> QED
      BY <1>9, <3>1, <3>2 DEF Crash
  <2>2. ASSUME NEW p \in Ops PROVE ManagerGood(p)' /\ BatchPoints(p)'
    <3>1. BatchPoints(p)' /\ ManagerGood(p)
      BY <1>2, <2>1, QuietPoints
    <3>2. CASE opc[p] = "idle"
      BY <2>1, <3>1, <3>2, QuietManager DEF InStore, BeforeStore
    <3>3. CASE opc[p] # "idle"
      BY <2>1, <3>1, <3>3 DEF ManagerGood, InStore, BeforeStore
    <3> QED
      BY <3>1, <3>2, <3>3
  <2> QED
    BY <1>2, <2>1, <2>2
<1>10. CASE AllOver \/ UNCHANGED vars
  <2>1. UNCHANGED <<container, manager, chonk, address, batch, opc, work>>
    BY <1>10 DEF AllOver, vars, nodes, blobs, workers
  <2>2. \A p \in Ops : Live(p)' = Live(p)
    BY <2>1 DEF Live
  <2> QED
    BY <1>3, <2>1, <2>2
<1> HIDE DEF After
<1> QED
  BY <1>5, <1>6, <1>7, <1>8, <1>9, <1>10, Zenon DEF Next

-----------------------------------------------------------------------------
(* Reverse relations, while no call has failed.                            *)

RevThere(f) == \A i \in DOMAIN Content[f] : f \in rev[<<Content[f][i], i>>]

NoFailure(o) ==
  /\ opc[o] \notin {"abandon", "failed"}
  /\ \A i \in Positions : work[o][i] # "reportErr"
  /\ \A k \in DOMAIN errs[o] : errs[o][k] = "ok"

Key(o, i) == <<Chunk(o, i), i>>
RevSetAt(o, i) == file[o] \in rev[Key(o, i)] \cup batch[o].rev[Key(o, i)]

(* A worker sets its key once, and to no less than what is committed.      *)
RevGood(o) ==
  /\ opc[o] \in BeforeStore => \A k \in RevKeys : batch[o].rev[k] = {}
  /\ opc[o] = "store" =>
       /\ \A k \in RevKeys : batch[o].rev[k] # {} =>
            /\ rev[k] \subseteq batch[o].rev[k]
            /\ work[o][k[2]] \in {"reportOk", "exited"}
       /\ \A i \in Positions :
            /\ work[o][i] = "revSet" => rev[Key(o, i)] \subseteq got[o][i]
            /\ work[o][i] \in {"reportOk", "exited"} => RevSetAt(o, i)
  /\ opc[o] \in {"addName", "addNameInPreflight", "close", "finish",
                  "finishWrite"} => RevThere(file[o])

RevsGood ==
  OneAtATime /\ faults = 0 =>
    /\ \A o \in Ops : NoFailure(o) /\ RevGood(o)
    /\ \A f \in Files : Completed(f) => RevThere(f)

LEMMA FaultsCounted ==
  ASSUME TypeOK, [Next]_vars
  PROVE  faults \in Nat /\ (faults' = faults \/ faults' = faults + 1)
<1>1. faults \in Nat
  BY SettingsAssumption DEF TypeOK, Setting
<1>2. ASSUME NEW o \in Ops, OpStep(o) PROVE faults' = faults \/ faults' = faults + 1
  BY <1>2 DEF OpStep, PreStoreCheck, AddName, Preflight, CreateNode,
     SpawnWorker, Collect, Flush, FlushFails, CloseManager, CloseFails,
     FinishRead, FinishWrite, OpFails, Fault
<1>3. ASSUME NEW o \in Ops, NEW i \in Positions, WorkerStep(o, i)
      PROVE  faults' = faults \/ faults' = faults + 1
  BY <1>3 DEF WorkerStep, PingChonk, TruncateBlob, WriteChonk,
     WriteToContainer, ContainerWriteFails, ProcessRel, RevRelGet, RevRelSet,
     WorkerFails, Report, Fault
<1>4. ASSUME NEW o \in Ops, NEW n \in Names, NEW f \in Files, StoreFile(o, f, n)
      PROVE  faults' = faults
  BY <1>4 DEF StoreFile
<1>5. ASSUME NEW o \in Ops, AutoCommit(o) PROVE faults' = faults
  BY <1>5 DEF AutoCommit
<1>6. ASSUME Crash \/ AllOver \/ UNCHANGED vars PROVE faults' = faults
  BY <1>6 DEF Crash, AllOver, vars
<1>7. faults' = faults \/ faults' = faults + 1
  BY <1>2, <1>3, <1>4, <1>5, <1>6, Zenon DEF Next
<1> QED
  BY <1>1, <1>7

(* A worker at work is one of an operation that collects.                  *)
LEMMA LiveStores ==
  ASSUME NEW o \in Ops, Counted(o), NoFailure(o), NEW i \in Positions,
         work[o][i] \notin {"none", "exited"}
  PROVE  opc[o] = "store"
BY DEF Counted, NoFailure, Live

(* A call fails only by a fault: the container is there when it is closed, *)
(* and no worker is left whose operation has closed its manager.           *)
LEMMA NoFailureStep ==
  ASSUME TypeOK, NodesGood, \A o \in Ops : Counted(o), ContainersGood, OneAtATime,
         [Next]_vars, faults = 0, faults' = 0, NEW p \in Ops, NoFailure(p)
  PROVE  NoFailure(p)'
<1> USE DEF nodes, blobs, loop, workers, Goto, Leave, LeaveFailed, Advance, At
<1>0. ~Fault
  BY DEF Fault
<1>a. ~CloseFails(p)
  <2> SUFFICES ASSUME CloseFails(p) PROVE FALSE
    OBVIOUS
  <2>1. /\ opc[p] \in {"close", "abandon"} /\ ~container.blob
        /\ manager[p].file # "none"
    BY <1>0 DEF CloseFails
  <2>2. manager[p].file \in {"none", "open", "lost", "closed"}
    BY ManagerTypes DEF ManagerOf
  <2>3. ManagerGood(p)
    BY <2>1 DEF NodesGood, OpGood, ContainersGood
  <2> QED
    BY <2>1, <2>2, <2>3 DEF ManagerGood, InStore
<1>b. ASSUME NEW i \in Positions PROVE ~WorkerFails(p, i)
  <2> SUFFICES ASSUME WorkerFails(p, i) PROVE FALSE
    OBVIOUS
  <2>1. work[p][i] = "write" /\ appending /\ manager[p].file = "closed"
    BY <1>0 DEF WorkerFails
  <2>2. opc[p] = "store"
    BY <2>1, LiveStores
  <2> QED
    BY <2>1, <2>2 DEF ContainersGood, ManagerGood, InStore
<1>1. ASSUME UNCHANGED <<opc, work, errs>> PROVE NoFailure(p)'
  BY <1>1 DEF NoFailure
<1>2. ASSUME NEW o \in Ops, NEW n \in Names, NEW f \in Files, StoreFile(o, f, n)
      PROVE  NoFailure(p)'
  BY <1>2 DEF StoreFile, NoFailure, TypeOK
<1>3. ASSUME NEW o \in Ops, OpStep(o) PROVE NoFailure(p)'
  <2>1. CASE p # o
    <3>1. Same(p)
      BY <1>3, <2>1, OthersSame
    <3> QED
      BY <3>1 DEF Same, NoFailure
  <2>2. CASE p = o /\ Collect(o)
    <3>1. errs[p] # <<>> /\ errs[p] \in Seq({"ok", "err"}) /\ errs'[p] = Tail(errs[p])
      BY <2>2 DEF Collect, TypeOK
    <3>2. /\ errs[p][1] = "ok"
          /\ \A k \in DOMAIN errs'[p] : k + 1 \in DOMAIN errs[p]
                                      /\ errs'[p][k] = errs[p][k + 1]
      <4>1. 1 \in DOMAIN errs[p]
        BY <3>1
      <4>2. \A k \in DOMAIN errs'[p] : k + 1 \in DOMAIN errs[p]
                                      /\ errs'[p][k] = errs[p][k + 1]
        BY <3>1, HeadTailProperties
      <4> QED
        BY <4>1, <4>2 DEF NoFailure
    <3>3. opc' = opc /\ work' = work
      BY <2>2, <3>2 DEF Collect
    <3> QED
      BY <3>2, <3>3 DEF NoFailure
  <2>3. CASE p = o /\ SpawnWorker(o)
    <3>1. /\ UNCHANGED <<opc, errs>>
          /\ \A i \in Positions : work'[p][i] \in {work[p][i], "ping"}
      BY <2>3 DEF SpawnWorker, TypeOK
    <3> QED
      BY <3>1 DEF NoFailure
  <2>4. CASE /\ p = o
             /\ \/ PreStoreCheck(o) \/ AddName(o) \/ Preflight(o) \/ CreateNode(o)
                \/ Flush(o) \/ FinishRead(o) \/ FinishWrite(o)
    <3>1. UNCHANGED <<work, errs>> /\ opc'[p] \notin {"abandon", "failed"}
      BY <2>4 DEF PreStoreCheck, AddName, Preflight, CreateNode, Flush,
         FinishRead, FinishWrite, TypeOK
    <3> QED
      BY <3>1 DEF NoFailure
  <2>5. CASE p = o /\ CloseManager(o)
    <3>1. UNCHANGED <<work, errs>> /\ opc[p] \in {"close", "abandon"}
          /\ opc'[p] = IF opc[p] = "close" THEN "finish" ELSE "failed"
      BY <2>5 DEF CloseManager, TypeOK
    <3> QED
      BY <3>1 DEF NoFailure
  <2> QED
    BY <1>0, <1>a, <1>3, <2>1, <2>2, <2>3, <2>4, <2>5 DEF OpStep, FlushFails, OpFails
<1>4. ASSUME NEW o \in Ops, NEW i \in Positions, WorkerStep(o, i)
      PROVE  NoFailure(p)'
  <2>1. CASE p # o
    <3>1. Same(p)
      BY <1>4, <2>1, OthersSame
    <3> QED
      BY <3>1 DEF Same, NoFailure
  <2>2. CASE p = o /\ Report(o, i)
    <3>1. errs'[p] = Append(errs[p], "ok") /\ errs[p] \in Seq({"ok", "err"})
      BY <2>2 DEF Report, NoFailure, TypeOK
    <3>2. \A k \in DOMAIN errs'[p] : errs'[p][k] = "ok"
      BY <3>1 DEF NoFailure
    <3>3. opc' = opc /\ \A j \in Positions : work'[p][j] \in {work[p][j], "exited"}
      BY <2>2 DEF Report, TypeOK
    <3> QED
      BY <3>2, <3>3 DEF NoFailure
  <2>3. CASE p = o /\ ~Report(o, i)
    <3>1. ~WorkerFails(o, i) /\ ~ContainerWriteFails(o, i)
      BY <1>0, <1>b, <2>3 DEF ContainerWriteFails
    <3>2. \E l \in {"truncate", "write", "rel", "revGet", "revSet", "reportOk"} :
            work' = [work EXCEPT ![o][i] = l]      BY <1>4, <2>3, <3>1 DEF
               WorkerStep, PingChonk, TruncateBlob, WriteChonk, WriteToContainer,
               ProcessRel, RevRelGet, RevRelSet
    <3>3. UNCHANGED <<opc, errs>>      BY <1>4, <2>3, <3>1 DEF WorkerStep,
       PingChonk, TruncateBlob, WriteChonk, WriteToContainer, ProcessRel,
       RevRelGet, RevRelSet
    <3>4. \A j \in Positions : work'[p][j] = work[p][j] \/ work'[p][j] # "reportErr"
      BY <2>3, <3>2 DEF TypeOK
    <3> QED
      BY <3>3, <3>4 DEF NoFailure
  <2> QED
    BY <2>1, <2>2, <2>3
<1>5. ASSUME NEW o \in Ops, AutoCommit(o) PROVE UNCHANGED <<opc, work, errs>>
  BY <1>5 DEF AutoCommit
<1>6. CASE Crash
  BY <1>6 DEF Crash, NoFailure
<1>7. CASE AllOver \/ UNCHANGED vars
  BY <1>1, <1>7 DEF AllOver, vars
<1> QED
  BY <1>1, <1>2, <1>3, <1>4, <1>5, <1>6, <1>7, Zenon DEF Next

(* Committing the batch of an operation takes nothing away.                *)
LEMMA CommitRev ==
  ASSUME TypeOK, NEW o \in Ops, opc[o] = "store", RevGood(o), Commit(o)
  PROVE  \A k \in RevKeys : /\ rev'[k] = rev[k] \cup batch[o].rev[k]
                            /\ batch'[o].rev[k] = {}
<1>1. batch'[o] = EmptyBatch
  BY DEF Commit, TypeOK
<1>2. ASSUME NEW k \in RevKeys PROVE rev'[k] = rev[k] \cup batch[o].rev[k]
  BY DEF Commit, RevGood
<1> QED
  BY <1>1, <1>2 DEF EmptyBatch

LEMMA FlushRevs ==
  ASSUME TypeOK, NodesGood, NEW o \in Ops, Counted(o), RevGood(o), Flush(o)
  PROVE  RevThere(file[o])'
<1>1. /\ opc[o] = "store" /\ Commit(o) /\ file' = file
      /\ next[o] \notin DOMAIN Content[file[o]] /\ active[o] = 0
  BY DEF Flush, AllSpawned
<1>2. OpGood(o) /\ Spawned(o)
  BY DEF NodesGood
<1>3. file[o] \in Files
  BY <1>1, <1>2 DEF OpGood
<1>4. Live(o) = {}
  <2>1. Cardinality(Live(o)) \in Nat /\ Len(errs[o]) \in Nat /\ IsFiniteSet(Live(o))
    BY <1>2, LiveFinite DEF TypeOK
  <2>2. Cardinality(Live(o)) = 0
    BY <1>1, <2>1 DEF Counted
  <2> QED
    BY <2>1, <2>2, FS_EmptySet
<1>5. ASSUME NEW i \in DOMAIN Content[file[o]]
      PROVE  file[o] \in rev'[<<Content[file[o]][i], i>>]
  <2>1. i \in Positions /\ i < next[o] /\ <<Content[file[o]][i], i>> \in RevKeys
    <3>1. /\ DOMAIN Content[file[o]] = 1 .. Len(Content[file[o]])
          /\ Content[file[o]] \in Seq(Chunks) /\ i \in Positions
          /\ <<Content[file[o]][i], i>> \in RevKeys
      BY <1>3, PlaceTypes, Zenon
    <3>2. next[o] \in Nat /\ next[o] >= 1
      BY DEF TypeOK, Counted
    <3> QED
      BY <1>1, <3>1, <3>2
  <2>2. work[o][i] = "exited"
    BY <1>1, <1>2, <1>4, <2>1 DEF Spawned, Live
  <2>3. RevSetAt(o, i)
    BY <1>1, <2>1, <2>2 DEF RevGood
  <2> QED
    BY <1>1, <2>1, <2>3, CommitRev DEF RevSetAt, Key, Chunk
<1> QED
  BY <1>1, <1>5 DEF RevThere
(* The step of an operation in progress, seen from that operation.         *)
LEMMA OpRevGood ==
  ASSUME TypeOK, NodesGood, Grow, NEW o \in Ops, Counted(o), RevGood(o), OpStep(o),
         NoFailure(o)', \A f \in Files : Completed(f) => RevThere(f)
  PROVE  /\ RevGood(o)'
         /\ \A k \in RevKeys : rev[k] \subseteq rev'[k]
<1> USE DEF nodes, blobs, loop, workers, Goto, Leave, LeaveFailed
<1>1. /\ OpGood(o) /\ Spawned(o) /\ opc[o] # "idle" /\ file[o] \in Files
      /\ file'[o] = file[o]
  BY DEF NodesGood, OpGood, Grow, OpStep, PreStoreCheck, AddName, Preflight,
     CreateNode, SpawnWorker, Collect, Flush, FlushFails, CloseManager,
     CloseFails, FinishRead, FinishWrite, OpFails, Running, Over
<1>2. ASSUME opc[o] \in BeforeStore, UNCHANGED <<rev, batch, work>>, opc'[o] = "store"
      PROVE  RevGood(o)'
  <2>1. \A i \in Positions : work'[o][i] = "none"
    BY <1>1, <1>2, PlaceTypes DEF Spawned, Counted
  <2>2. \A k \in RevKeys : batch'[o].rev[k] = {}
    BY <1>2 DEF RevGood
  <2> QED
    BY <1>2, <2>1, <2>2 DEF RevGood, BeforeStore
<1>3. CASE PreStoreCheck(o) \/ Preflight(o)
  <2>1. /\ opc[o] \in BeforeStore /\ UNCHANGED <<rev, batch, work>>
        /\ \/ opc'[o] \in {"preflight", "create", "ok", "store"}
           \/ /\ opc'[o] \in {"addName", "addNameInPreflight", "finish"}
              /\ Completed(file[o])
    BY <1>3 DEF PreStoreCheck, Preflight, BeforeStore, Completed, TypeOK
  <2>2. CASE opc'[o] = "store"
    BY <1>2, <2>1, <2>2
  <2>3. CASE opc'[o] # "store"
    <3>1. opc'[o] \in {"addName", "addNameInPreflight", "finish"} => RevThere(file[o])'
      BY <1>1, <2>1 DEF RevThere
    <3>2. \A k \in RevKeys : batch'[o].rev[k] = {}
      BY <2>1 DEF RevGood
    <3> QED
      BY <2>1, <2>3, <3>1, <3>2 DEF RevGood
  <2> QED
    BY <2>1, <2>2, <2>3
<1>4. CASE CreateNode(o)
  <2>1. /\ opc[o] \in BeforeStore /\ UNCHANGED <<rev, batch, work>>
        /\ opc'[o] = "store"
    BY <1>4 DEF CreateNode, BeforeStore, TypeOK
  <2> QED
    BY <1>2, <2>1
<1>5. CASE AddName(o) \/ FinishRead(o) \/ FinishWrite(o) \/ CloseManager(o)
  <2>0. CloseManager(o) => opc'[o] = IF opc[o] = "close" THEN "finish" ELSE "failed"
    BY DEF CloseManager, TypeOK
  <2>1. /\ opc[o] \in {"addName", "addNameInPreflight", "close", "finish", "finishWrite"}
        /\ opc'[o] \in {"ok", "finish", "finishWrite"} /\ UNCHANGED rev
    BY <1>5, <2>0 DEF AddName, FinishRead, FinishWrite, CloseManager,
       NoFailure, TypeOK
  <2>2. RevThere(file[o])'
    BY <1>1, <2>1 DEF RevGood, RevThere
  <2> QED
    BY <2>1, <2>2 DEF RevGood, BeforeStore
<1>6. CASE OpFails(o) \/ FlushFails(o) \/ CloseFails(o)
  BY <1>6 DEF OpFails, FlushFails, CloseFails, NoFailure, TypeOK
<1>7. CASE SpawnWorker(o)
  <2>1. next[o] \in Positions /\ work[o][next[o]] = "none"
    <3>1. next[o] \in Positions
      BY <1>1, <1>7, PlaceTypes DEF SpawnWorker, AllSpawned
    <3>2. next[o] \in Nat /\ ~(next[o] < next[o])
      BY DEF TypeOK
    <3> QED
      BY <1>1, <3>1, <3>2 DEF Spawned
  <2>2. /\ opc[o] = "store" /\ opc'[o] = "store" /\ UNCHANGED <<rev, batch, got, file>>
        /\ \A i \in Positions : work'[o][i] = IF i = next[o] THEN "ping" ELSE work[o][i]
    BY <1>7, <2>1 DEF SpawnWorker, TypeOK
  <2>3. ASSUME NEW k \in RevKeys, batch'[o].rev[k] # {}
        PROVE  /\ rev'[k] \subseteq batch'[o].rev[k]
               /\ work'[o][k[2]] \in {"reportOk", "exited"}
    <3>1. /\ rev[k] \subseteq batch[o].rev[k]
          /\ work[o][k[2]] \in {"reportOk", "exited"} /\ k[2] \in Positions
      BY <2>2, <2>3 DEF RevGood, RevKeys
    <3> QED
      BY <2>1, <2>2, <3>1
  <2>4. ASSUME NEW i \in Positions
        PROVE  /\ work'[o][i] = "revSet" => (rev[Key(o, i)] \subseteq got[o][i])'
               /\ work'[o][i] \in {"reportOk", "exited"} => RevSetAt(o, i)'
    BY <2>2 DEF RevGood, RevSetAt, Key, Chunk
  <2> QED
    BY <2>2, <2>3, <2>4 DEF RevGood, BeforeStore
<1>8. CASE Collect(o)
  <2>1. /\ opc[o] = "store" /\ opc'[o] \in {"store", "abandon", "failed"}
        /\ UNCHANGED <<rev, batch, got, file, work>>
    BY <1>8 DEF Collect, TypeOK
  <2>2. opc'[o] = "store"
    BY <2>1 DEF NoFailure
  <2> QED
    BY <2>1, <2>2 DEF RevGood, BeforeStore, RevSetAt, Key, Chunk
<1>9. CASE Flush(o)
  <2>1. opc[o] = "store" /\ opc'[o] \in {"close", "finish"} /\ Commit(o)
    BY <1>9 DEF Flush, TypeOK
  <2>2. RevThere(file[o])'
    BY <1>9, FlushRevs
  <2> QED
    BY <2>1, <2>2, CommitRev DEF RevGood, BeforeStore
<1> QED
  BY <1>3, <1>4, <1>5, <1>6, <1>7, <1>8, <1>9 DEF OpStep

LEMMA WorkerRevGood ==
  ASSUME TypeOK, NodesGood, Grow, NEW o \in Ops, RevGood(o), opc[o] = "store",
         NEW i \in Positions, WorkerStep(o, i), NoFailure(o)'
  PROVE  RevGood(o)' /\ UNCHANGED rev
<1> USE DEF nodes, blobs, loop, workers, Advance, At
<1>1. UNCHANGED <<opc, rev, file>>
  BY DEF WorkerStep, PingChonk, TruncateBlob, WriteChonk, WriteToContainer,
     ContainerWriteFails, ProcessRel, RevRelGet, RevRelSet, WorkerFails, Report
<1>2. /\ work[o][i] \notin {"none", "exited"}
      /\ \A j \in Positions \ {i} : work'[o][j] = work[o][j]
  BY DEF WorkerStep, PingChonk, TruncateBlob, WriteChonk, WriteToContainer,
     ContainerWriteFails, ProcessRel, RevRelGet, RevRelSet, WorkerFails, Report,
     TypeOK
<1>3. Key(o, i) \in RevKeys /\ Key(o, i)[2] = i /\ file[o] \in Files
  BY <1>2, WorkerType DEF Key
<1>4. \A j \in Positions : Key(o, j)' = Key(o, j)
  BY <1>1 DEF Key, Chunk
<1>5. ASSUME NEW k \in RevKeys, k[2] = i, work[o][i] \notin {"reportOk", "exited"}
      PROVE  batch[o].rev[k] = {}
  BY <1>5 DEF RevGood
<1>6. CASE PingChonk(o, i) \/ TruncateBlob(o, i) \/ WriteChonk(o, i)
           \/ WriteToContainer(o, i) \/ ProcessRel(o, i) \/ Report(o, i)
  <2>1. /\ got' = got
        /\ \/ /\ work[o][i] \notin {"reportOk", "exited"}
              /\ work'[o][i] \notin {"revSet", "reportOk", "exited"}
           \/ /\ work[o][i] \in {"reportOk", "reportErr"}
              /\ work'[o][i] = "exited"
    BY <1>6 DEF PingChonk, TruncateBlob, WriteChonk, WriteToContainer,
       ProcessRel, Report, TypeOK
  <2>2. batch'[o].rev = batch[o].rev
    <3>1. CASE WriteChonk(o, i)
      BY <3>1 DEF WriteChonk, TypeOK
    <3>2. CASE ProcessRel(o, i)
      BY <3>2 DEF ProcessRel, TypeOK
    <3>3. CASE UNCHANGED batch
      BY <3>3
    <3>4. CASE WriteToContainer(o, i)
      BY <3>4 DEF WriteToContainer, TypeOK
    <3> QED
      BY <1>6, <3>1, <3>2, <3>3, <3>4 DEF PingChonk, TruncateBlob, Report
  <2>3. work[o][i] # "reportErr"
    BY <1>6 DEF PingChonk, TruncateBlob, WriteChonk, WriteToContainer,
       ProcessRel, Report, NoFailure, TypeOK
  <2>4. ASSUME NEW k \in RevKeys, batch[o].rev[k] # {}
        PROVE  rev[k] \subseteq batch[o].rev[k] /\ work'[o][k[2]] \in {"reportOk", "exited"}
    <3>1. k[2] \in Positions /\ rev[k] \subseteq batch[o].rev[k]
          /\ work[o][k[2]] \in {"reportOk", "exited"}
      BY <2>4 DEF RevGood, RevKeys
    <3> QED
      BY <1>2, <2>1, <3>1
  <2>5. ASSUME NEW j \in Positions
        PROVE  /\ work'[o][j] = "revSet" => (rev[Key(o, j)] \subseteq got[o][j])'
               /\ work'[o][j] \in {"reportOk", "exited"} => RevSetAt(o, j)'
    <3>1. /\ work'[o][j] = "revSet" => work[o][j] = "revSet"
          /\ work'[o][j] \in {"reportOk", "exited"} => work[o][j] \in {"reportOk", "exited"}
      BY <1>2, <2>1, <2>3
    <3> QED
      BY <1>1, <1>4, <2>1, <2>2, <3>1 DEF RevGood, RevSetAt
  <2> QED
    BY <1>1, <2>2, <2>4, <2>5 DEF RevGood, BeforeStore
<1>7. CASE RevRelGet(o, i)
  <2>1. /\ batch' = batch /\ work[o][i] = "revGet" /\ work'[o][i] = "revSet"
        /\ got'[o][i] = rev[Key(o, i)]
        /\ \A j \in Positions \ {i} : got'[o][j] = got[o][j]
    BY <1>7 DEF RevRelGet, Key, TypeOK
  <2>2. ASSUME NEW k \in RevKeys, batch[o].rev[k] # {}
        PROVE  rev[k] \subseteq batch[o].rev[k] /\ work'[o][k[2]] \in {"reportOk", "exited"}
    <3>1. k[2] \in Positions /\ rev[k] \subseteq batch[o].rev[k]
          /\ work[o][k[2]] \in {"reportOk", "exited"}
      BY <2>2 DEF RevGood, RevKeys
    <3> QED
      BY <1>2, <2>1, <3>1
  <2>3. ASSUME NEW j \in Positions
        PROVE  /\ work'[o][j] = "revSet" => (rev[Key(o, j)] \subseteq got[o][j])'
               /\ work'[o][j] \in {"reportOk", "exited"} => RevSetAt(o, j)'
    <3>1. CASE j = i
      BY <1>1, <1>4, <2>1, <3>1
    <3>2. CASE j # i
      BY <1>1, <1>2, <1>4, <2>1, <3>2 DEF RevGood, RevSetAt
    <3> QED
      BY <3>1, <3>2
  <2> QED
    BY <1>1, <2>1, <2>2, <2>3 DEF RevGood, BeforeStore
<1>8. CASE RevRelSet(o, i)
  <2> DEFINE new == got[o][i] \cup {file[o]}
  <2>1. /\ got' = got /\ work[o][i] = "revSet" /\ work'[o][i] = "reportOk"
        /\ batch'[o].rev = [batch[o].rev EXCEPT ![Key(o, i)] = new]
    BY <1>8 DEF RevRelSet, RevRel, Key, TypeOK
  <2>2. /\ batch'[o].rev[Key(o, i)] = new
        /\ \A k \in RevKeys \ {Key(o, i)} : batch'[o].rev[k] = batch[o].rev[k]
    BY <1>3, <2>1 DEF TypeOK
  <2>3. rev[Key(o, i)] \subseteq new
    BY <2>1 DEF RevGood
  <2>4. ASSUME NEW k \in RevKeys, batch'[o].rev[k] # {}
        PROVE  rev[k] \subseteq batch'[o].rev[k] /\ work'[o][k[2]] \in {"reportOk", "exited"}
    <3>1. CASE k = Key(o, i)
      BY <1>3, <2>1, <2>2, <2>3, <3>1
    <3>2. CASE k # Key(o, i)
      <4>1. batch'[o].rev[k] = batch[o].rev[k] /\ k[2] \in Positions
        BY <2>2, <3>2 DEF RevKeys
      <4>2. rev[k] \subseteq batch[o].rev[k] /\ work[o][k[2]] \in {"reportOk", "exited"}
        BY <2>4, <4>1 DEF RevGood
      <4> QED
        BY <1>2, <2>1, <4>1, <4>2
    <3> QED
      BY <3>1, <3>2
  <2>5. ASSUME NEW j \in Positions
        PROVE  /\ work'[o][j] = "revSet" => (rev[Key(o, j)] \subseteq got[o][j])'
               /\ work'[o][j] \in {"reportOk", "exited"} => RevSetAt(o, j)'
    <3>1. CASE j = i
      BY <1>1, <1>4, <2>1, <2>2, <3>1 DEF RevSetAt
    <3>2. CASE j # i
      <4>1. Key(o, j) # Key(o, i)
        BY <3>2 DEF Key
      <4>2. work'[o][j] = work[o][j]
        BY <1>2, <3>2
      <4>3. work[o][j] \in {"reportOk", "exited"} => Key(o, j) \in RevKeys /\ RevSetAt(o, j)
        BY WorkerType DEF RevGood, Key
      <4> QED
        BY <1>1, <1>4, <2>1, <2>2, <4>1, <4>2, <4>3 DEF RevGood, RevSetAt
    <3> QED
      BY <3>1, <3>2
  <2> QED
    BY <1>1, <2>4, <2>5 DEF RevGood, BeforeStore
<1>9. CASE WorkerFails(o, i) \/ ContainerWriteFails(o, i)
  BY <1>9 DEF WorkerFails, ContainerWriteFails, NoFailure, TypeOK
<1> QED
  BY <1>1, <1>6, <1>7, <1>8, <1>9 DEF WorkerStep

LEMMA AutoCommitRevGood ==
  ASSUME TypeOK, NodesGood, NEW o \in Ops, RevGood(o), opc[o] = "store", AutoCommit(o)
  PROVE  /\ RevGood(o)'
         /\ \A k \in RevKeys : rev[k] \subseteq rev'[k]
<1>1. Commit(o) /\ UNCHANGED <<opc, file, work, got>>
  BY DEF AutoCommit, workers
<1>2. \A k \in RevKeys : /\ rev'[k] = rev[k] \cup batch[o].rev[k]
                         /\ batch'[o].rev[k] = {}
  BY <1>1, CommitRev
<1>3. ASSUME NEW j \in Positions, work[o][j] # "none"
      PROVE  Key(o, j) \in RevKeys /\ Key(o, j)' = Key(o, j) /\ Key(o, j)[2] = j
  BY <1>1, <1>3, WorkerType DEF Key, Chunk
<1>4. ASSUME NEW j \in Positions
      PROVE  /\ work'[o][j] = "revSet" => (rev[Key(o, j)] \subseteq got[o][j])'
             /\ work'[o][j] \in {"reportOk", "exited"} => RevSetAt(o, j)'
  <2>1. CASE work[o][j] = "revSet"
    <3>1. batch[o].rev[Key(o, j)] = {}
      BY <1>3, <2>1 DEF RevGood
    <3> QED
      BY <1>1, <1>2, <1>3, <2>1, <3>1 DEF RevGood
  <2>2. CASE work[o][j] \in {"reportOk", "exited"}
    BY <1>1, <1>2, <1>3, <2>2 DEF RevGood, RevSetAt
  <2> QED
    BY <1>1, <2>1, <2>2
<1> QED
  BY <1>1, <1>2, <1>4 DEF RevGood, BeforeStore
LEMMA RevsStep ==
  TypeOK /\ NodesGood /\ (\A o \in Ops : Counted(o)) /\ NamesGood /\ ContainersGood
    /\ RevsGood /\ [Next]_vars => RevsGood'
<1> SUFFICES ASSUME TypeOK, NodesGood, \A o \in Ops : Counted(o), NamesGood,
                    ContainersGood, RevsGood, [Next]_vars, OneAtATime', faults' = 0
             PROVE  /\ \A p \in Ops : NoFailure(p)' /\ RevGood(p)'
                    /\ \A f \in Files : Completed(f)' => RevThere(f)'
  BY DEF RevsGood
<1>1. Grow /\ OneAtATime
  BY GrowStep DEF Grow, OneAtATime
<1>2. faults = 0
  BY FaultsCounted
<1>3. /\ \A p \in Ops : NoFailure(p) /\ RevGood(p)
      /\ \A f \in Files : Completed(f) => RevThere(f)
  BY <1>1, <1>2 DEF RevsGood
<1>4. \A p \in Ops : NoFailure(p)'
  BY <1>1, <1>2, <1>3, NoFailureStep
<1>5. Alone /\ Alone'
  BY <1>1, AloneStep DEF NamesGood
<1>6. ASSUME NEW o \in Ops, Running(o), NEW p \in Ops, p # o, RevGood(p),
             opc'[p] = opc[p], batch'[p] = batch[p]
      PROVE  RevGood(p)'
  <2>1. opc[p] \in Over
    BY <1>5, <1>6 DEF Alone, Running
  <2> QED
    BY <1>6, <2>1 DEF RevGood, Over
<1>7. ASSUME NEW o \in Ops, OpStep(o)
      PROVE  /\ Running(o)
             /\ \A p \in Ops : p # o => batch'[p] = batch[p]
  BY <1>7 DEF OpStep, PreStoreCheck, AddName, Preflight, CreateNode,
     SpawnWorker, Collect, Flush, FlushFails, CloseManager, CloseFails,
     FinishRead, FinishWrite, OpFails, Commit, Running, Over, TypeOK
<1>8. ASSUME NEW o \in Ops, NEW i \in Positions, WorkerStep(o, i)
      PROVE  /\ work[o][i] \notin {"none", "exited"}
             /\ \A p \in Ops : p # o => batch'[p] = batch[p]
  BY <1>8 DEF WorkerStep, PingChonk, TruncateBlob, WriteChonk,
     WriteToContainer, ContainerWriteFails, ProcessRel, RevRelGet, RevRelSet,
     WorkerFails, Report, At, TypeOK
<1>9. ASSUME NEW o \in Ops, AutoCommit(o)
      PROVE  /\ \E i \in Positions : work[o][i] \notin {"none", "exited"}
             /\ \A p \in Ops : p # o => batch'[p] = batch[p]
  BY <1>9 DEF AutoCommit, Commit, TypeOK
<1>10. ASSUME NEW o \in Ops, NEW i \in Positions, work[o][i] \notin {"none", "exited"}
       PROVE  opc[o] = "store" /\ Running(o)
  <2>1. opc[o] = "store"
    BY <1>3, <1>10, LiveStores
  <2> QED
    BY <2>1 DEF Running, Over
<1>11. /\ \A p \in Ops : RevGood(p)'
       /\ \A k \in RevKeys : rev[k] \subseteq rev'[k]
  <2>1. ASSUME NEW o \in Ops, NEW f \in Files, NEW n \in Names, StoreFile(o, f, n),
               NEW p \in Ops
        PROVE  RevGood(p)' /\ rev' = rev
    <3>1. UNCHANGED <<rev, batch, work, got>>
      BY <2>1 DEF StoreFile, nodes, workers
    <3>2. CASE p = o
      <4>1. opc[o] = "idle" /\ opc'[o] = "precheck"
        BY <2>1 DEF StoreFile, TypeOK
      <4> QED
        BY <1>3, <3>1, <3>2, <4>1 DEF RevGood, BeforeStore
    <3>3. CASE p # o
      <4>1. opc'[p] = opc[p] /\ file'[p] = file[p]
        BY <2>1, <3>3 DEF StoreFile, TypeOK
      <4>2. RevGood(p)
        BY <1>3
      <4> QED
        BY <3>1, <4>1, <4>2 DEF RevGood, RevThere, RevSetAt, Key, Chunk
    <3> QED
      BY <3>1, <3>2, <3>3
  <2>2. ASSUME NEW o \in Ops, OpStep(o)
        PROVE  /\ \A p \in Ops : RevGood(p)'
               /\ \A k \in RevKeys : rev[k] \subseteq rev'[k]
    <3>1. RevGood(o)' /\ \A k \in RevKeys : rev[k] \subseteq rev'[k]
      BY <1>1, <1>3, <1>4, <2>2, OpRevGood
    <3>2. ASSUME NEW p \in Ops, p # o PROVE RevGood(p)'
      <4>1. opc'[p] = opc[p]
        BY <2>2, <3>2, OthersSame DEF Same
      <4> QED
        BY <1>3, <1>6, <1>7, <2>2, <3>2, <4>1
    <3> QED
      BY <3>1, <3>2
  <2>3. ASSUME NEW o \in Ops, NEW i \in Positions, WorkerStep(o, i)
        PROVE  (\A p \in Ops : RevGood(p)') /\ rev' = rev
    <3>1. opc[o] = "store" /\ Running(o)
      BY <1>8, <1>10, <2>3
    <3>2. RevGood(o)' /\ rev' = rev
      BY <1>1, <1>3, <1>4, <2>3, <3>1, WorkerRevGood
    <3>3. ASSUME NEW p \in Ops, p # o PROVE RevGood(p)'
      <4>1. opc'[p] = opc[p]
        BY <2>3, <3>3, OthersSame DEF Same
      <4> QED
        BY <1>3, <1>6, <1>8, <2>3, <3>1, <3>3, <4>1
    <3> QED
      BY <3>2, <3>3
  <2>4. ASSUME NEW o \in Ops, AutoCommit(o)
        PROVE  /\ \A p \in Ops : RevGood(p)'
               /\ \A k \in RevKeys : rev[k] \subseteq rev'[k]
    <3>1. opc[o] = "store" /\ Running(o)
      BY <1>9, <1>10, <2>4
    <3>2. RevGood(o)' /\ \A k \in RevKeys : rev[k] \subseteq rev'[k]
      BY <1>3, <2>4, <3>1, AutoCommitRevGood
    <3>3. ASSUME NEW p \in Ops, p # o PROVE RevGood(p)'
      <4>1. opc'[p] = opc[p]
        BY <2>4 DEF AutoCommit
      <4> QED
        BY <1>3, <1>6, <1>9, <2>4, <3>1, <3>3, <4>1
    <3> QED
      BY <3>2, <3>3
  <2>5. ASSUME Crash, NEW p \in Ops PROVE RevGood(p)' /\ rev' = rev
    <3>1. /\ opc'[p] = IF opc[p] \in {"idle", "ok"} THEN opc[p] ELSE "dead"
          /\ UNCHANGED <<rev, batch>>
      BY <2>5 DEF Crash, nodes
    <3> QED
      BY <1>3, <3>1 DEF RevGood, BeforeStore
  <2>6. ASSUME AllOver \/ UNCHANGED vars, NEW p \in Ops PROVE RevGood(p)' /\ rev' = rev
    <3>1. UNCHANGED <<opc, rev, batch, work, got, file>>
      BY <2>6 DEF AllOver, vars, nodes, workers
    <3> QED
      BY <1>3, <3>1 DEF RevGood, RevThere, RevSetAt, Key, Chunk
  <2>7. ASSUME NEW o \in Ops, OpStep(o) \/ AutoCommit(o)
        PROVE  /\ \A p \in Ops : RevGood(p)'
               /\ \A k \in RevKeys : rev[k] \subseteq rev'[k]
    BY <2>2, <2>4, <2>7, Zenon
  <2>8. CASE \E o \in Ops : OpStep(o) \/ AutoCommit(o)
    BY <2>7, <2>8, Zenon
  <2>9. CASE ~\E o \in Ops : OpStep(o) \/ AutoCommit(o)
    <3>1. \A p \in Ops : RevGood(p)'
      BY <2>1, <2>3, <2>5, <2>6, <2>9, Zenon DEF Next
    <3>2. (\E p \in Ops : TRUE) => rev' = rev
      BY <2>1, <2>3, <2>5, <2>6, <2>9, Zenon DEF Next
    <3>3. Ops = {} => rev' = rev
      <4>1. SUFFICES ASSUME Ops = {} PROVE rev' = rev
        OBVIOUS
      <4>2. Crash \/ AllOver \/ UNCHANGED vars
        BY <4>1 DEF Next
      <4> QED
        BY <4>2 DEF Crash, AllOver, vars, nodes
    <3>4. rev' = rev
      BY <3>2, <3>3
    <3> QED
      BY <3>1, <3>4
  <2> QED
    BY <2>8, <2>9
<1>12. ASSUME NEW f \in Files, RevThere(f) PROVE RevThere(f)'
  BY <1>11, <1>12, PlaceTypes DEF RevThere
<1>13. ASSUME NEW f \in Files, Completed(f)', ~Completed(f) PROVE RevThere(f)'
  <2>1. PICK o \in Ops : AddName(o) \/ CreateNode(o) \/ FinishWrite(o)
    BY <1>13, EviWritten DEF Completed
  <2>2. f = file[o]
    BY <1>13, <2>1 DEF Completed, AddName, CreateNode, FinishWrite, TypeOK
  <2>3. ~CreateNode(o)
    BY <1>13, <2>2 DEF CreateNode, Completed, TypeOK
  <2>4. RevThere(f)
    BY <1>3, <2>1, <2>2, <2>3 DEF RevGood, AddName, FinishWrite
  <2> QED
    BY <1>12, <2>4
<1> QED
  BY <1>3, <1>4, <1>11, <1>12, <1>13

-----------------------------------------------------------------------------
(* One file per chunk, while no call has failed.                           *)

PastWrite == {"rel", "revGet", "revSet", "reportOk", "exited"}

(* A worker that will truncate or write the file of a chunk is the only    *)
(* one to set the chunk's node, and has not set it yet.                    *)
FileGood(o, c) ==
  /\ opc[o] \in BeforeStore => c \notin batch[o].chonk
  /\ opc[o] = "store" =>
       /\ c \in batch[o].chonk => c \in whole
       /\ \A i \in DOMAIN Content[file[o]] : Chunk(o, i) = c =>
            /\ c \in batch[o].chonk => work[o][i] \in PastWrite
            /\ work[o][i] \in {"truncate", "write"} => c \notin chonk

FilesGood ==
  OneAtATime /\ faults = 0 /\ ~appending =>
    \A c \in Chunks : Once(c) =>
      /\ c \in chonk => c \in whole
      /\ \A o \in Ops : FileGood(o, c)

(* Committing the batch of an operation: its chunks are whole, and none of *)
(* them has a worker that will truncate its file.                          *)
LEMMA CommitFile ==
  ASSUME TypeOK, NEW o \in Ops, NEW c \in Chunks, opc[o] = "store", FileGood(o, c),
         c \in chonk => c \in whole, Commit(o), UNCHANGED <<whole, work, file>>,
         opc'[o] \in {"store", "close", "finish"}
  PROVE  FileGood(o, c)' /\ (c \in chonk' => c \in whole')
<1>1. batch'[o] = EmptyBatch /\ chonk' = chonk \cup batch[o].chonk
  BY DEF Commit, TypeOK
<1>2. batch'[o].chonk = {}
  BY <1>1 DEF EmptyBatch
<1>4. ASSUME NEW i \in DOMAIN Content[file[o]], Chunk(o, i) = c,
             work[o][i] \in {"truncate", "write"}
      PROVE  c \notin chonk'
  BY <1>1, <1>4 DEF FileGood, PastWrite
<1> QED
  BY <1>1, <1>2, <1>4 DEF FileGood, BeforeStore, Chunk

LEMMA OpFileGood ==
  ASSUME TypeOK, NodesGood, Grow, NEW o \in Ops, Counted(o), OpStep(o), NoFailure(o)',
         NEW c \in Chunks, FileGood(o, c), c \in chonk => c \in whole
  PROVE  FileGood(o, c)' /\ (c \in chonk' => c \in whole')
<1> USE DEF nodes, blobs, loop, workers, Goto, Leave, LeaveFailed
<1>1. /\ OpGood(o) /\ Spawned(o) /\ opc[o] # "idle" /\ file[o] \in Files
      /\ file'[o] = file[o]
  BY DEF NodesGood, OpGood, Grow, OpStep, PreStoreCheck, AddName, Preflight,
     CreateNode, SpawnWorker, Collect, Flush, FlushFails, CloseManager,
     CloseFails, FinishRead, FinishWrite, OpFails, Running, Over
<1>2. UNCHANGED whole
  BY DEF OpStep, PreStoreCheck, AddName, Preflight, CreateNode, SpawnWorker,
     Collect, Flush, FlushFails, CloseManager, CloseFails, FinishRead,
     FinishWrite, OpFails
<1>3. c \in whole' <=> c \in whole
  BY <1>2
<1>4. CASE PreStoreCheck(o) \/ Preflight(o) \/ CreateNode(o)
  <2>1. /\ opc[o] \in BeforeStore /\ UNCHANGED <<chonk, batch, work>>
    BY <1>4 DEF PreStoreCheck, Preflight, CreateNode, BeforeStore
  <2>2. \A i \in DOMAIN Content[file[o]] : work'[o][i] = "none"
    BY <1>1, <2>1, PlaceTypes DEF Spawned, Counted
  <2>3. c \notin batch'[o].chonk
    BY <2>1 DEF FileGood
  <2> QED
    BY <1>1, <1>3, <2>1, <2>2, <2>3 DEF FileGood
<1>5. CASE AddName(o) \/ FinishRead(o) \/ FinishWrite(o) \/ CloseManager(o)
  <2>0. CloseManager(o) => opc'[o] \in {"finish", "failed"}
    BY DEF CloseManager, TypeOK
  <2>1. /\ opc'[o] \in {"ok", "finish", "finishWrite", "failed"} /\ chonk' = chonk
    BY <1>5, <2>0 DEF AddName, FinishRead, FinishWrite, CloseManager, TypeOK
  <2> QED
    BY <1>3, <2>1 DEF FileGood, BeforeStore
<1>6. CASE OpFails(o) \/ FlushFails(o) \/ CloseFails(o)
  BY <1>6 DEF OpFails, FlushFails, CloseFails, NoFailure, TypeOK
<1>7. CASE SpawnWorker(o)
  <2>1. next[o] \in Positions /\ work[o][next[o]] = "none"
    <3>1. next[o] \in Positions
      BY <1>1, <1>7, PlaceTypes DEF SpawnWorker, AllSpawned
    <3>2. next[o] \in Nat /\ ~(next[o] < next[o])
      BY DEF TypeOK
    <3> QED
      BY <1>1, <3>1, <3>2 DEF Spawned
  <2>2. /\ opc[o] = "store" /\ opc'[o] = "store" /\ UNCHANGED <<chonk, batch, file>>
        /\ \A i \in Positions : work'[o][i] = IF i = next[o] THEN "ping" ELSE work[o][i]
    BY <1>7, <2>1 DEF SpawnWorker, TypeOK
  <2>3. ASSUME NEW i \in DOMAIN Content[file[o]], Chunk(o, i) = c
        PROVE  /\ c \in batch[o].chonk => work'[o][i] \in PastWrite
               /\ work'[o][i] \in {"truncate", "write"} => c \notin chonk
    <3>1. i \in Positions
      BY <1>1, PlaceTypes
    <3>2. c \in batch[o].chonk => work[o][i] \in PastWrite
      BY <2>2, <2>3 DEF FileGood
    <3> QED
      BY <2>1, <2>2, <2>3, <3>1, <3>2 DEF FileGood, PastWrite
  <2> QED
    BY <1>3, <2>2, <2>3 DEF FileGood, BeforeStore, Chunk
<1>8. CASE Collect(o)
  <2>1. /\ opc[o] = "store" /\ opc'[o] \in {"store", "abandon", "failed"}
        /\ UNCHANGED <<chonk, batch, file, work>>
    BY <1>8 DEF Collect, TypeOK
  <2>2. opc'[o] = "store"
    BY <2>1 DEF NoFailure
  <2> QED
    BY <1>3, <2>1, <2>2 DEF FileGood, BeforeStore, Chunk
<1>9. CASE Flush(o)
  <2>1. /\ opc[o] = "store" /\ opc'[o] \in {"close", "finish"}
        /\ Commit(o) /\ UNCHANGED <<work, file>>
    BY <1>9 DEF Flush, TypeOK
  <2> QED
    BY <1>2, <2>1, CommitFile
<1> QED
  BY <1>4, <1>5, <1>6, <1>7, <1>8, <1>9 DEF OpStep

LEMMA WorkerFileGood ==
  ASSUME TypeOK, NodesGood, ~appending, NEW o \in Ops, opc[o] = "store",
         NEW i \in Positions, WorkerStep(o, i), NoFailure(o)', NEW c \in Chunks, Once(c), FileGood(o, c),
         c \in chonk => c \in whole
  PROVE  FileGood(o, c)' /\ (c \in chonk' => c \in whole')
<1> USE DEF nodes, blobs, loop, workers, Advance, At
<1>1. UNCHANGED <<opc, chonk, file>>
  BY DEF WorkerStep, PingChonk, TruncateBlob, WriteChonk, WriteToContainer,
     ContainerWriteFails, ProcessRel, RevRelGet, RevRelSet, WorkerFails, Report
<1>2. /\ work[o][i] \notin {"none", "exited"}
      /\ \A j \in Positions \ {i} : work'[o][j] = work[o][j]
  BY DEF WorkerStep, PingChonk, TruncateBlob, WriteChonk, WriteToContainer,
     ContainerWriteFails, ProcessRel, RevRelGet, RevRelSet, WorkerFails, Report,
     TypeOK
<1>3. /\ file[o] \in Files /\ i \in DOMAIN Content[file[o]]
      /\ DOMAIN Content[file[o]] \subseteq Positions
  BY <1>2, WorkerType, PlaceTypes
<1>4. ASSUME batch'[o].chonk = batch[o].chonk, c \in whole => c \in whole',
             work[o][i] \in PastWrite => work'[o][i] \in PastWrite,
             work'[o][i] \in {"truncate", "write"} =>
               work[o][i] \in {"truncate", "write"} \/ Chunk(o, i) \notin chonk
      PROVE  FileGood(o, c)' /\ (c \in chonk' => c \in whole')
  <2>1. ASSUME NEW j \in DOMAIN Content[file[o]], Chunk(o, j) = c
        PROVE  /\ c \in batch[o].chonk => work'[o][j] \in PastWrite
               /\ work'[o][j] \in {"truncate", "write"} => c \notin chonk
    <3>1. /\ c \in batch[o].chonk => work[o][j] \in PastWrite
          /\ work[o][j] \in {"truncate", "write"} => c \notin chonk
      BY <2>1 DEF FileGood
    <3>2. CASE j = i
      BY <1>4, <2>1, <3>1, <3>2
    <3>3. CASE j # i
      BY <1>2, <1>3, <3>1, <3>3
    <3> QED
      BY <3>2, <3>3
  <2> QED
    BY <1>1, <1>4, <2>1 DEF FileGood, BeforeStore, Chunk
<1>5. CASE PingChonk(o, i)
  <2>1. /\ UNCHANGED <<batch, whole>> /\ work[o][i] = "ping"
        /\ work'[o][i] \in {"truncate", "write"} => Chunk(o, i) \notin chonk
    BY <1>5 DEF PingChonk, Known, TypeOK
  <2> QED
    BY <1>4, <2>1 DEF PastWrite
<1>6. CASE TruncateBlob(o, i)
  <2>1. /\ UNCHANGED batch /\ work[o][i] = "truncate"
        /\ work'[o][i] = "write" /\ whole' = whole \ {Chunk(o, i)}
    BY <1>6 DEF TruncateBlob, TypeOK
  <2>2. CASE Chunk(o, i) # c
    <3>1. c \in whole => c \in whole'
      BY <2>1, <2>2
    <3> QED
      BY <1>4, <2>1, <3>1 DEF PastWrite
  <2>3. CASE Chunk(o, i) = c
    <3>1. c \notin chonk /\ c \notin batch[o].chonk
      BY <1>3, <2>1, <2>3 DEF FileGood, PastWrite
    <3>2. ASSUME NEW j \in DOMAIN Content[file[o]], Chunk(o, j) = c,
                 work'[o][j] \in {"truncate", "write"}
          PROVE  c \notin chonk
      BY <3>1
    <3> QED
      BY <1>1, <2>1, <3>1, <3>2 DEF FileGood, BeforeStore, Chunk
  <2> QED
    BY <2>2, <2>3
<1>7. CASE WriteChonk(o, i)
  <2>0. Chunk(o, i) \in Chunks
    BY <1>2, WorkerType
  <2>1. /\ work[o][i] = "write" /\ work'[o][i] = "rel"
        /\ whole' = whole \cup {Chunk(o, i)}
        /\ batch'[o].chonk = batch[o].chonk \cup {Chunk(o, i)}
    BY <1>7 DEF WriteChonk, TypeOK
  <2>3. CASE Chunk(o, i) # c
    <3>1. c \in whole => c \in whole'
      BY <2>1
    <3>2. ASSUME NEW j \in DOMAIN Content[file[o]], Chunk(o, j) = c
          PROVE  /\ c \in batch'[o].chonk => work'[o][j] \in PastWrite
                 /\ work'[o][j] \in {"truncate", "write"} => c \notin chonk
      <4>1. j # i /\ work'[o][j] = work[o][j]
        BY <1>2, <1>3, <2>3, <3>2
      <4> QED
        BY <2>1, <2>3, <3>2, <4>1 DEF FileGood
    <3> QED
      BY <1>1, <2>1, <2>3, <3>1, <3>2 DEF FileGood, BeforeStore, Chunk
  <2>4. CASE Chunk(o, i) = c
    <3>1. c \in whole'
      BY <2>1, <2>4
    <3>2. ASSUME NEW j \in DOMAIN Content[file[o]], Chunk(o, j) = c PROVE j = i
      BY <1>3, <2>4, <3>2 DEF Once, Chunk
    <3> QED
      BY <1>1, <2>1, <3>1, <3>2 DEF FileGood, BeforeStore, Chunk, PastWrite
  <2> QED
    BY <2>3, <2>4
<1>a. ~(WriteToContainer(o, i) \/ ContainerWriteFails(o, i))
  BY DEF WriteToContainer, ContainerWriteFails
<1>8. CASE ProcessRel(o, i) \/ RevRelGet(o, i) \/ RevRelSet(o, i) \/ Report(o, i)
  <2>1. UNCHANGED whole
    BY <1>8 DEF ProcessRel, RevRelGet, RevRelSet, Report
  <2>2. work'[o][i] \in {"revGet", "revSet", "reportOk", "exited"}
    BY <1>8 DEF ProcessRel, RevRelGet, RevRelSet, Report, TypeOK
  <2>3. batch'[o].chonk = batch[o].chonk
    BY <1>8 DEF ProcessRel, RevRelGet, RevRelSet, Report, TypeOK
  <2> QED
    BY <1>4, <2>1, <2>2, <2>3 DEF PastWrite
<1>9. CASE WorkerFails(o, i) \/ ContainerWriteFails(o, i)
  BY <1>9 DEF WorkerFails, ContainerWriteFails, NoFailure, TypeOK
<1> QED
  BY <1>5, <1>6, <1>7, <1>a, <1>8, <1>9 DEF WorkerStep

LEMMA FilesStep ==
  TypeOK /\ NodesGood /\ (\A o \in Ops : Counted(o)) /\ NamesGood /\ ContainersGood
    /\ RevsGood /\ FilesGood /\ [Next]_vars => FilesGood'
<1> SUFFICES ASSUME TypeOK, NodesGood, \A o \in Ops : Counted(o), NamesGood,
                    ContainersGood, RevsGood, FilesGood, [Next]_vars, OneAtATime',
                    faults' = 0, ~appending', NEW c \in Chunks, Once(c)
             PROVE  /\ c \in chonk' => c \in whole'
                    /\ \A p \in Ops : FileGood(p, c)'
  BY DEF FilesGood, Once
<1>1. Grow /\ OneAtATime /\ ~appending
  BY GrowStep DEF Grow, OneAtATime, appending
<1>2. faults = 0
  BY FaultsCounted
<1>3. /\ \A p \in Ops : NoFailure(p) /\ FileGood(p, c)
      /\ c \in chonk => c \in whole
  BY <1>1, <1>2 DEF RevsGood, FilesGood
<1>4. \A p \in Ops : NoFailure(p)'
  BY <1>1, <1>2, <1>3, NoFailureStep
<1>5. Alone
  BY <1>1 DEF NamesGood
<1>6. ASSUME NEW o \in Ops, Running(o), NEW p \in Ops, p # o,
             opc'[p] = opc[p], batch'[p] = batch[p]
      PROVE  FileGood(p, c)'
  <2>1. opc[p] \in Over
    BY <1>5, <1>6 DEF Alone, Running
  <2>2. FileGood(p, c)
    BY <1>3
  <2> QED
    BY <1>6, <2>1, <2>2 DEF FileGood, Over
<1>7. ASSUME NEW o \in Ops, NEW i \in Positions, work[o][i] \notin {"none", "exited"}
      PROVE  opc[o] = "store" /\ Running(o)
  <2>1. opc[o] = "store"
    BY <1>3, <1>7, LiveStores
  <2> QED
    BY <2>1 DEF Running, Over
<1>8. ASSUME NEW o \in Ops, NEW f \in Files, NEW n \in Names, StoreFile(o, f, n)
      PROVE  \A p \in Ops : FileGood(p, c)'
  <2>1. UNCHANGED <<chonk, batch, work, whole>>
    BY <1>8 DEF StoreFile, nodes, blobs, workers
  <2>2. ASSUME NEW p \in Ops PROVE FileGood(p, c)'
    <3>1. CASE p = o
      <4>1. opc[o] = "idle" /\ opc'[o] = "precheck"
        BY <1>8 DEF StoreFile, TypeOK
      <4> QED
        BY <1>3, <2>1, <3>1, <4>1 DEF FileGood, BeforeStore
    <3>2. CASE p # o
      <4>1. opc'[p] = opc[p] /\ file'[p] = file[p]
        BY <1>8, <3>2 DEF StoreFile, TypeOK
      <4>2. FileGood(p, c)
        BY <1>3
      <4> QED
        BY <2>1, <4>1, <4>2 DEF FileGood, Chunk
    <3> QED
      BY <3>1, <3>2
  <2> QED
    BY <2>2
<1>9. ASSUME NEW o \in Ops, OpStep(o)
      PROVE  (\A p \in Ops : FileGood(p, c)') /\ (c \in chonk' => c \in whole')
  <2>1. FileGood(o, c)' /\ (c \in chonk' => c \in whole')
    BY <1>1, <1>3, <1>4, <1>9, OpFileGood
  <2>2. /\ Running(o)
        /\ \A p \in Ops : p # o => batch'[p] = batch[p]
    BY <1>9 DEF OpStep, PreStoreCheck, AddName, Preflight, CreateNode,
       SpawnWorker, Collect, Flush, FlushFails, CloseManager, CloseFails,
       FinishRead, FinishWrite, OpFails, Commit, Running, Over, TypeOK
  <2>3. ASSUME NEW p \in Ops, p # o PROVE opc'[p] = opc[p]
    BY <1>9, <2>3, OthersSame DEF Same
  <2> QED
    BY <1>6, <2>1, <2>2, <2>3
<1>10. ASSUME NEW o \in Ops, NEW i \in Positions, WorkerStep(o, i)
       PROVE  (\A p \in Ops : FileGood(p, c)') /\ (c \in chonk' => c \in whole')
  <2>1. /\ work[o][i] \notin {"none", "exited"}
        /\ \A p \in Ops : p # o => batch'[p] = batch[p]
    BY <1>10 DEF WorkerStep, PingChonk, TruncateBlob, WriteChonk,
       WriteToContainer, ContainerWriteFails, ProcessRel, RevRelGet, RevRelSet,
       WorkerFails, Report, At, TypeOK
  <2>2. opc[o] = "store" /\ Running(o)
    BY <1>7, <2>1
  <2>3. FileGood(o, c)' /\ (c \in chonk' => c \in whole')
    BY <1>1, <1>3, <1>4, <1>10, <2>2, WorkerFileGood
  <2>4. ASSUME NEW p \in Ops, p # o PROVE opc'[p] = opc[p]
    BY <1>10, <2>4, OthersSame DEF Same
  <2> QED
    BY <1>6, <2>1, <2>2, <2>3, <2>4
<1>11. ASSUME NEW o \in Ops, AutoCommit(o)
       PROVE  (\A p \in Ops : FileGood(p, c)') /\ (c \in chonk' => c \in whole')
  <2>1. /\ \E i \in Positions : work[o][i] \notin {"none", "exited"}
        /\ \A p \in Ops : p # o => batch'[p] = batch[p]
        /\ Commit(o) /\ UNCHANGED <<whole, work, file, opc>>
    BY <1>11 DEF AutoCommit, Commit, blobs, workers, TypeOK
  <2>2. opc[o] = "store" /\ Running(o)
    BY <1>7, <2>1
  <2>3. FileGood(o, c)' /\ (c \in chonk' => c \in whole')
    BY <1>3, <2>1, <2>2, CommitFile
  <2> QED
    BY <1>6, <2>1, <2>2, <2>3
<1>12. ASSUME Crash, NEW p \in Ops PROVE FileGood(p, c)'
  <2>1. /\ opc'[p] = IF opc[p] \in {"idle", "ok"} THEN opc[p] ELSE "dead"
        /\ UNCHANGED batch
    BY <1>12 DEF Crash
  <2> QED
    BY <1>3, <2>1 DEF FileGood, BeforeStore
<1>13. ASSUME AllOver \/ UNCHANGED vars, NEW p \in Ops PROVE FileGood(p, c)'
  <2>1. UNCHANGED <<opc, chonk, batch, work, whole, file>>
    BY <1>13 DEF AllOver, vars, nodes, blobs, workers
  <2>2. FileGood(p, c)
    BY <1>3
  <2> QED
    BY <2>1, <2>2 DEF FileGood, Chunk
<1>14. \A p \in Ops : FileGood(p, c)'
  BY <1>8, <1>9, <1>10, <1>11, <1>12, <1>13, Zenon DEF Next
<1>15. ASSUME \/ Crash \/ AllOver \/ UNCHANGED vars
              \/ \E o \in Ops, f \in Files, n \in Names : StoreFile(o, f, n)
       PROVE  c \in chonk' => c \in whole'
  <2>1. UNCHANGED <<chonk, whole>>
    BY <1>15 DEF Crash, AllOver, vars, StoreFile, nodes, blobs
  <2> QED
    BY <1>3, <2>1
<1>16. c \in chonk' => c \in whole'
  BY <1>9, <1>10, <1>11, <1>15, Zenon DEF Next
<1> QED
  BY <1>14, <1>16

OrderedInv == IInv /\ NamesGood /\ ContainersGood /\ RevsGood /\ FilesGood

LEMMA InitOrdered == Init => OrderedInv
<1> SUFFICES ASSUME Init PROVE OrderedInv
  OBVIOUS
<1>1. \A o \in Ops : /\ opc[o] = "idle" /\ errs[o] = <<>>
                     /\ \A i \in Positions : work[o][i] = "none"
                     /\ \A k \in RevKeys : batch[o].rev[k] = {}
  BY DEF Init, EmptyBatch
<1>2. NamesGood
  BY <1>1 DEF NamesGood, Alone, NameGood, Running, Over
<1>3. RevsGood
  <2>1. \A o \in Ops : NoFailure(o) /\ RevGood(o)
    BY <1>1 DEF NoFailure, RevGood
  <2>2. \A f \in Files : ~Completed(f)
    BY DEF Init, Completed
  <2> QED
    BY <2>1, <2>2 DEF RevsGood
<1>4. FilesGood
  BY <1>1 DEF Init, EmptyBatch, FilesGood, FileGood
<1>5. ContainersGood
  <2>1. ASSUME NEW o \in Ops PROVE ManagerGood(o) /\ BatchPoints(o)
    <3>1. /\ manager[o].file = "none" /\ manager[o].offset = 0
          /\ batch[o].chonk = {} /\ chonk = {} /\ container.owner = None
      BY DEF Init, EmptyBatch
    <3> QED
      BY <1>1, <3>1, NoneAssumption DEF ManagerGood, BatchPoints
  <2> QED
    BY <2>1 DEF Init, ContainersGood
<1> QED
  BY <1>2, <1>3, <1>4, <1>5, InitInvariant DEF OrderedInv

(* Operations that come one after the other: each overwrites a node with   *)
(* what it read of it, addresses in the container that an operation has    *)
(* made are right whoever appends to it, a batch holds for a chunk and a   *)
(* position no fewer files than the database, and the file of a chunk that *)
(* has a node is left alone.                                               *)
THEOREM OrderedInvariance == Spec => []OrderedInv
<1>1. OrderedInv /\ [Next]_vars => OrderedInv'
  BY StepInvariant, NamesStep, ContainersStep, RevsStep, FilesStep
  DEF OrderedInv, IInv
<1> QED
  BY <1>1, InitOrdered, PTL DEF Spec

(* The node of a file keeps its names, and stays completed.                *)
THEOREM NodesKept == Spec => NothingForgotten
<1>1. OrderedInv /\ [Next]_vars =>
        [\A f \in Files : OneAtATime /\ evi[f] # None =>
           /\ evi'[f] # None
           /\ evi[f].names \subseteq evi'[f].names
           /\ evi[f].completed => evi'[f].completed]_vars
  BY NodeKept DEF OrderedInv, IInv, Kept
<1> QED
  BY <1>1, OrderedInvariance, PTL DEF Spec, NothingForgotten

(* The name of an operation that has succeeded is in its file's node,      *)
(* unless the operation took over a file left by half.                     *)
THEOREM NameOfFinished == Spec => []NamesRecorded
<1>1. OrderedInv => NamesRecorded
  BY DEF OrderedInv, NamesGood, NameGood, NamesRecorded
<1> QED
  BY <1>1, OrderedInvariance, PTL

(* Until a call fails, a completed file is listed for each of its chunks,  *)
(* whatever other files share them and wherever the process crashed.       *)
THEOREM ReverseRelations == Spec => []RevRelsComplete
<1>1. OrderedInv => RevRelsComplete
  BY DEF OrderedInv, RevsGood, RevThere, RevRelsComplete
<1> QED
  BY <1>1, OrderedInvariance, PTL

(* No chunk node is committed before its bytes are there, whatever prefix  *)
(* of a batch badger commits and whoever crashes, and nothing touches them *)
(* afterwards, with operations one after the other: in a container, while  *)
(* it is the one the operation of the node has made, also if later ones    *)
(* append to it; in a file of its own, until a call fails and if no two    *)
(* places share the chunk.                                                 *)
THEOREM NodesBacked == Spec => []ChunkNodesBacked
<1>1. ASSUME OrderedInv, NEW c \in chonk, Undisturbed(c) PROVE Readable(c)
  <2>1. c \in Chunks /\ TypeOK
    BY <1>1 DEF OrderedInv, IInv, TypeOK
  <2>2. CASE appending
    <3>1. address[c].op = container.owner /\ OneAtATime
      BY <1>1, <2>2 DEF Undisturbed
    <3>2. PointsIn(container, address[c], c)
      BY <1>1, <2>2, <3>1 DEF OrderedInv, ContainersGood
    <3> QED
      BY <2>2, <3>1, <3>2 DEF PointsIn, Readable
  <2>3. CASE ~appending
    BY <1>1, <2>1, <2>3 DEF OrderedInv, FilesGood, Undisturbed, Readable
  <2> QED
    BY <2>2, <2>3
<1>2. OrderedInv => ChunkNodesBacked
  BY <1>1 DEF ChunkNodesBacked
<1> QED
  BY <1>2, OrderedInvariance, PTL

(* Every file that is marked completed can be restored from its nodes,     *)
(* which are all there, and from the bytes behind each chunk node, unless  *)
(* something that Undisturbed excludes has truncated them, hidden or       *)
(* replaced their container, or made their offsets wrong.                  *)
THEOREM CompletedRestorable == Spec => []Restorable
<1>1. OrderedInv /\ ChunkNodesBacked => Restorable
  BY DEF OrderedInv, IInv, NodesGood, There, ChunkNodesBacked, Restorable
<1> QED
  BY <1>1, OrderedInvariance, NodesBacked, PTL
=============================================================================
