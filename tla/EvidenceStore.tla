--------------------------- MODULE EvidenceStore ---------------------------
(***************************************************************************)
(* Storing an evidence file: StoreFile of cli/cmdstore.go (its indexer     *)
(* left out), lib/store/store.go and the database calls they make.         *)
(*                                                                         *)
(* A store operation looks the file up twice (EvidenceFilePreStoreCheck,   *)
(* evidenceFilePreflight), spawns a storeWorker goroutine per chunk,       *)
(* flushes a write batch the workers share, and at last marks the file     *)
(* completed.  Every database call is a step of its own: a Get reads what  *)
(* is committed, the batch is committed by Flush, or earlier by badger     *)
(* when it grows too large.  Operations come one after the other from the  *)
(* command line; the gRPC server handles each upload in a goroutine.       *)
(* Whoever starts an operation on a file that is not completed repeats it. *)
(*                                                                         *)
(* Chunks have a file each, or they go into the container of the operation, *)
(* which has the same name for all of them: the first write of an operation *)
(* opens it anew.  One container is taken to hold what an operation stores; *)
(* sizes and offsets count chunks.  Module Container has what happens in a  *)
(* manager, its series of containers and the steps of Close.               *)
(***************************************************************************)
EXTENDS Integers, Sequences, FiniteSets

CONSTANTS
  Ops,            \* store operations
  Files,          \* evidence files, identified by their hash
  Names,          \* file names
  Chunks,         \* chunk contents, identified by their hash
  Content,        \* the chunks of each file, in order
  MaxThreads,     \* cnst.GetMaxThreadCount()
  Settings,       \* the ways to run the program that are considered
  None            \* no such node

Places == UNION {{f} \X DOMAIN Content[f] : f \in Files}
Positions == UNION {DOMAIN Content[f] : f \in Files}
RevKeys == Chunks \X Positions
EmptyBatch == [chonk |-> {}, rel |-> {}, rev |-> [k \in RevKeys |-> {}],
               address |-> [c \in Chunks |-> None]]
EviNode == [names : SUBSET Names, completed : BOOLEAN]

ASSUME ContentAssumption == Content \in [Files -> Seq(Chunks)]

(* appending is cnst.CONTAINERMODE, without which there is a file per      *)
(* chunk; concurrent is how many operations may be in progress together.   *)
(* Bounds: files to store, database and file calls that fail, crashes of   *)
(* the process.                                                            *)
Setting == [appending : BOOLEAN, concurrent : Nat \ {0}, files : SUBSET Files,
            faults : Nat, crashes : Nat]

ASSUME SettingsAssumption == MaxThreads \in Nat \ {0} /\ Settings \subseteq Setting

(* A chunk node in container mode; which operation wrote it is history.    *)
Address == [op : Ops, offset : Nat]

ASSUME NoneAssumption == None \notin EviNode /\ None \notin Ops

VARIABLES
  setting,   \* the one of Settings in effect
  evi,       \* evidence file nodes
  chonk,     \* chunks that have a node
  address,   \* what it says of a chunk in the container
  rel,       \* <<file, position>> pairs that have a relation node
  rev,       \* files in the reverse relation node of a chunk and position
  whole,     \* chunks whose own file holds their bytes
  container, \* whether there is a .blob, what a reader finds in it or in
             \* the .blob.zst, and, history, the owner: the operation that
             \* made it and has counted its offsets right
  manager,   \* the file and the next offset of each operation's manager
  opc,       \* where an operation is
  file, name, seen,   \* its file and name, and the node it read last
  resumed,   \* history: it found its file stored by half
  next, active, errs, batch,   \* loop index, active, tio.Err and tio.Batch
  work, got, \* its workers, and the reverse relations each of them read
  faults, crashes

nodes == <<evi, chonk, address, rel, rev>>
blobs == <<whole, container, manager, setting>>
loop == <<next, active, errs>>
workers == <<work, got>>
vars == <<nodes, blobs, opc, file, name, seen, resumed, loop, batch, workers,
          faults, crashes>>

Over == {"idle", "ok", "failed", "dead"}
Running(o) == opc[o] \notin Over
appending == setting.appending
Fault == faults < setting.faults /\ faults' = faults + 1

-----------------------------------------------------------------------------
Init ==
  /\ setting \in Settings
  /\ evi = [f \in Files |-> None]
  /\ chonk = {} /\ rel = {}
  /\ rev = [k \in RevKeys |-> {}]
  /\ address = [c \in Chunks |-> None] /\ whole = {}
  /\ container = [blob |-> FALSE, data |-> <<>>, owner |-> None]
  /\ manager = [o \in Ops |-> [file |-> "none", offset |-> 0]]
  /\ opc = [o \in Ops |-> "idle"]
  /\ file = [o \in Ops |-> None] /\ name = [o \in Ops |-> None]
  /\ seen = [o \in Ops |-> None] /\ resumed = [o \in Ops |-> FALSE]
  /\ next = [o \in Ops |-> 1] /\ active = [o \in Ops |-> 0]
  /\ errs = [o \in Ops |-> <<>>] /\ batch = [o \in Ops |-> EmptyBatch]
  /\ work = [o \in Ops |-> [i \in Positions |-> "none"]]
  /\ got = [o \in Ops |-> [i \in Positions |-> {}]]
  /\ faults = 0 /\ crashes = 0

StoreFile(o, f, n) ==
  /\ opc[o] = "idle" /\ f \in setting.files
  /\ Cardinality({p \in Ops : Running(p)}) < setting.concurrent
  /\ opc' = [opc EXCEPT ![o] = "precheck"]
  /\ file' = [file EXCEPT ![o] = f]
  /\ name' = [name EXCEPT ![o] = n]
  /\ UNCHANGED <<nodes, blobs, seen, resumed, loop, batch, workers, faults,
                 crashes>>

(* The process dies, with every goroutine in it.  A .blob stays.           *)
Crash ==
  /\ crashes < setting.crashes
  /\ \E o \in Ops : Running(o)
  /\ opc' = [o \in Ops |-> IF opc[o] = "idle" THEN "idle"
                           ELSE IF opc[o] = "ok" THEN "ok" ELSE "dead"]
  /\ work' = [o \in Ops |-> [i \in Positions |-> "none"]]
  /\ manager' = [o \in Ops |-> IF opc[o] = "idle" THEN manager[o]
                               ELSE [manager[o] EXCEPT !.file = "closed"]]
  /\ crashes' = crashes + 1
  /\ UNCHANGED <<nodes, whole, container, setting, file, name, seen, resumed,
                 loop, batch, got, faults>>

-----------------------------------------------------------------------------
(* The evidence file node: every update is a Get and, later, a blind Set.  *)

Goto(o, l) == opc' = [opc EXCEPT ![o] = l]

(* EvidenceFilePreStoreCheck: the Get.                                     *)
PreStoreCheck(o) ==
  /\ opc[o] = "precheck"
  /\ LET node == evi[file[o]] IN
       /\ seen' = [seen EXCEPT ![o] = node]
       /\ IF node = None THEN Goto(o, "preflight") /\ UNCHANGED resumed
          ELSE IF ~node.completed
            THEN Goto(o, "preflight") /\ resumed' = [resumed EXCEPT ![o] = TRUE]
          ELSE IF name[o] \in node.names
            THEN Goto(o, "ok") /\ UNCHANGED resumed
            ELSE Goto(o, "addName") /\ UNCHANGED resumed
  /\ UNCHANGED <<nodes, blobs, file, name, loop, batch, workers, faults, crashes>>

(* Mutant: the node is replaced by one with the new name only.             *)
MutAdded(node, n) == [node EXCEPT !.names = {n}]

Added(node, n) == [node EXCEPT !.names = @ \cup {n}]

(* Mutant: the node is not written back.                                   *)
MutAddName(o) ==
  /\ opc[o] \in {"addName", "addNameInPreflight"}
  /\ Goto(o, IF opc[o] = "addName" THEN "ok" ELSE "finish")
  /\ UNCHANGED <<nodes, blobs, file, name, seen, resumed, loop, batch, workers,
                 faults, crashes>>

(* The Set of a name: the pre-store check then returns, the preflight goes *)
(* on to a file that needs no storing.                                     *)
AddName(o) ==
  /\ opc[o] \in {"addName", "addNameInPreflight"}
  /\ evi' = [evi EXCEPT ![file[o]] = Added(seen[o], name[o])]
  /\ Goto(o, IF opc[o] = "addName" THEN "ok" ELSE "finish")
  /\ UNCHANGED <<chonk, address, rel, rev, blobs, file, name, seen, resumed, loop,
                 batch, workers, faults, crashes>>

(* evidenceFilePreflight: the Get.                                         *)
Preflight(o) ==
  /\ opc[o] = "preflight"
  /\ LET node == evi[file[o]] IN
       /\ seen' = [seen EXCEPT ![o] = node]
       /\ IF node = None THEN Goto(o, "create") /\ UNCHANGED resumed
          ELSE IF ~node.completed
            THEN Goto(o, "store") /\ resumed' = [resumed EXCEPT ![o] = TRUE]
          ELSE IF name[o] \in node.names
            THEN Goto(o, "finish") /\ UNCHANGED resumed
            ELSE Goto(o, "addNameInPreflight") /\ UNCHANGED resumed
  /\ UNCHANGED <<nodes, blobs, file, name, loop, batch, workers, faults, crashes>>

(* evidenceFilePreflight: the Set of a new node.                           *)
CreateNode(o) ==
  /\ opc[o] = "create"
  /\ evi' = [evi EXCEPT ![file[o]] = [names |-> {name[o]}, completed |-> FALSE]]
  /\ Goto(o, "store")
  /\ UNCHANGED <<chonk, address, rel, rev, blobs, file, name, seen, resumed, loop,
                 batch, workers, faults, crashes>>

(* StoreFile marks the file completed, with a Get and a Set.               *)
FinishRead(o) ==
  /\ opc[o] = "finish"
  /\ seen' = [seen EXCEPT ![o] = evi[file[o]]]
  /\ Goto(o, "finishWrite")
  /\ UNCHANGED <<nodes, blobs, file, name, resumed, loop, batch, workers, faults,
                 crashes>>

FinishWrite(o) ==
  /\ opc[o] = "finishWrite"
  /\ evi' = [evi EXCEPT ![file[o]] = [seen[o] EXCEPT !.completed = TRUE]]
  /\ Goto(o, "ok")
  /\ UNCHANGED <<chonk, address, rel, rev, blobs, file, name, seen, resumed, loop,
                 batch, workers, faults, crashes>>

(* Any database call of the operation itself may fail, which ends it.      *)
OpFails(o) ==
  /\ Running(o) /\ opc[o] \notin {"store", "close", "abandon"}
  /\ Fault
  /\ Goto(o, "failed")
  /\ UNCHANGED <<nodes, blobs, file, name, seen, resumed, loop, batch, workers,
                 crashes>>

-----------------------------------------------------------------------------
(* storeEvidenceData: spawn, collect, flush, and the deferred Close of the *)
(* container manager, if there is one, on the way out.                     *)

Leave(o) == Goto(o, IF appending THEN "close" ELSE "finish")
LeaveFailed(o) == Goto(o, IF appending THEN "abandon" ELSE "failed")

(* The loop waits for a report only once more than MaxThreads are active.  *)
MayStart(o) == active[o] <= MaxThreads

AllSpawned(o) == next[o] \notin DOMAIN Content[file[o]]

SpawnWorker(o) ==
  /\ opc[o] = "store" /\ ~AllSpawned(o) /\ MayStart(o)
  /\ work' = [work EXCEPT ![o][next[o]] = "ping"]
  /\ next' = [next EXCEPT ![o] = @ + 1]
  /\ active' = [active EXCEPT ![o] = @ + 1]
  /\ UNCHANGED <<nodes, blobs, opc, file, name, seen, resumed, errs, batch, got,
                 faults, crashes>>

(* Mutant: a report is not counted.                                        *)
MutCollect(o) ==
  /\ opc[o] = "store" /\ errs[o] # <<>>
  /\ ~MayStart(o) \/ (AllSpawned(o) /\ active[o] > 0)
  /\ errs' = [errs EXCEPT ![o] = Tail(@)]
  /\ IF Head(errs[o]) = "ok" THEN UNCHANGED opc ELSE LeaveFailed(o)
  /\ UNCHANGED <<nodes, blobs, file, name, seen, resumed, next, active, batch,
                 workers, faults, crashes>>

(* A report of success is one worker less; the first error ends the        *)
(* operation, with the other workers still at it.                          *)
Collect(o) ==
  /\ opc[o] = "store" /\ errs[o] # <<>>
  /\ ~MayStart(o) \/ (AllSpawned(o) /\ active[o] > 0)
  /\ errs' = [errs EXCEPT ![o] = Tail(@)]
  /\ IF Head(errs[o]) = "ok"
       THEN active' = [active EXCEPT ![o] = @ - 1] /\ UNCHANGED opc
       ELSE LeaveFailed(o) /\ UNCHANGED active
  /\ UNCHANGED <<nodes, blobs, file, name, seen, resumed, next, batch, workers,
                 faults, crashes>>

(* What is in the batch is committed as one transaction.                   *)
Commit(o) ==
  LET sets == batch[o] IN
    /\ chonk' = chonk \cup sets.chonk
    /\ address' = [c \in Chunks |-> IF c \in sets.chonk THEN sets.address[c]
                                   ELSE address[c]]
    /\ rel' = rel \cup sets.rel
    /\ rev' = [k \in RevKeys |-> IF sets.rev[k] = {} THEN rev[k] ELSE sets.rev[k]]
    /\ batch' = [batch EXCEPT ![o] = EmptyBatch]

(* Mutant: the flush is forgotten.                                         *)
MutFlush(o) ==
  /\ opc[o] = "store" /\ AllSpawned(o) /\ active[o] = 0
  /\ Leave(o)
  /\ UNCHANGED <<nodes, batch, blobs, file, name, seen, resumed, loop, workers,
                 faults, crashes>>

Flush(o) ==
  /\ opc[o] = "store" /\ AllSpawned(o) /\ active[o] = 0
  /\ Commit(o)
  /\ Leave(o)
  /\ UNCHANGED <<evi, blobs, file, name, seen, resumed, loop, workers, faults,
                 crashes>>

FlushFails(o) ==
  /\ opc[o] = "store" /\ AllSpawned(o) /\ active[o] = 0
  /\ Fault
  /\ LeaveFailed(o)
  /\ UNCHANGED <<nodes, blobs, file, name, seen, resumed, loop, batch, workers,
                 crashes>>

(* Close syncs the container, compresses it over the one there was and     *)
(* removes the .blob.  Other managers that have it open, of the server,    *)
(* write to a file without a name from then on.                            *)
CloseManager(o) ==
  /\ opc[o] \in {"close", "abandon"}
  /\ IF manager[o].file = "none" THEN UNCHANGED container
     ELSE container.blob /\ container' = [container EXCEPT !.blob = FALSE]
  /\ manager' = [p \in Ops |->
       [manager[p] EXCEPT !.file =
          IF p = o THEN "closed"
          ELSE IF manager[o].file # "none" /\ @ = "open" THEN "lost" ELSE @]]
  /\ Goto(o, IF opc[o] = "close" THEN "finish" ELSE "failed")
  /\ UNCHANGED <<nodes, whole, setting, file, name, seen, resumed, loop, batch,
                 workers, faults, crashes>>

(* Any of that may fail, and does if another manager has taken the .blob   *)
(* away.                                                                   *)
CloseFails(o) ==
  /\ opc[o] \in {"close", "abandon"} /\ manager[o].file # "none"
  /\ Fault \/ (~container.blob /\ UNCHANGED faults)
  /\ manager' = [manager EXCEPT ![o].file = "closed"]
  /\ Goto(o, "failed")
  /\ UNCHANGED <<nodes, whole, container, setting, file, name, seen, resumed,
                 loop, batch, workers, crashes>>

(* badger commits a batch on its own when a Set would make it too large    *)
(* for one transaction, whether anybody will flush the rest or not.        *)
AutoCommit(o) ==
  /\ \E i \in Positions : work[o][i] \in {"write", "rel", "revSet"}
  /\ batch[o] # EmptyBatch
  /\ Commit(o)
  /\ UNCHANGED <<evi, blobs, opc, file, name, seen, resumed, loop, workers,
                 faults, crashes>>

-----------------------------------------------------------------------------
(* storeWorker for position i: processChonk, processRel, processRevRel.    *)

Chunk(o, i) == Content[file[o]][i]
At(o, i, l) == work[o][i] = l
Advance(o, i, l) == work' = [work EXCEPT ![o][i] = l]

(* PingNode finds what is committed.                                       *)
Known(c) == c \in chonk

PingChonk(o, i) ==
  /\ At(o, i, "ping")
  /\ Advance(o, i, IF Known(Chunk(o, i)) THEN "rel"
                   ELSE IF appending THEN "write" ELSE "truncate")
  /\ UNCHANGED <<nodes, blobs, opc, file, name, seen, resumed, loop, batch, got,
                 faults, crashes>>

(* One file per chunk: os.WriteFile truncates the file if it is there.     *)
TruncateBlob(o, i) ==
  /\ At(o, i, "truncate")
  /\ whole' = whole \ {Chunk(o, i)}
  /\ Advance(o, i, "write")
  /\ UNCHANGED <<nodes, container, manager, setting, opc, file, name, seen,
                 resumed, loop, batch, got, faults, crashes>>

(* SetBatchChonkNode: the data first, then the node into the batch.        *)
WriteChonk(o, i) ==
  /\ At(o, i, "write") /\ ~appending
  /\ whole' = whole \cup {Chunk(o, i)}
  /\ batch' = [batch EXCEPT ![o].chonk = @ \cup {Chunk(o, i)}]
  /\ Advance(o, i, "rel")
  /\ UNCHANGED <<nodes, container, manager, setting, opc, file, name, seen,
                 resumed, loop, got, faults, crashes>>

(* The container once the manager of o has it open.  Every manager begins  *)
(* with the same name: what a crash or a Close that failed has left there  *)
(* is appended to; otherwise the new .blob hides the compressed container. *)
Opened(o) ==
  IF manager[o].file # "none" \/ container.blob THEN container
  ELSE [blob |-> TRUE, data |-> <<>>, owner |-> o]

FileOf(o) == IF manager[o].file = "none" THEN "open" ELSE manager[o].file

Written(o, data) ==
  IF manager[o].file = "lost" THEN container
  ELSE [Opened(o) EXCEPT !.data = Append(@, data)]

(* Mutant: the next offset is not moved on.                                *)
MutNextOffset(o) == manager[o].offset

(* The manager counts from 0, whatever is in the file.                     *)
NextOffset(o) == manager[o].offset + 1

(* The same with containers.                                               *)
WriteToContainer(o, i) ==
  /\ At(o, i, "write") /\ appending /\ manager[o].file # "closed"
  /\ container' = Written(o, Chunk(o, i))
  /\ manager' = [manager EXCEPT ![o] = [file |-> FileOf(o), offset |-> NextOffset(o)]]
  /\ batch' = [batch EXCEPT
       ![o].chonk = @ \cup {Chunk(o, i)},
       ![o].address[Chunk(o, i)] = [op |-> o, offset |-> manager[o].offset + 1]]
  /\ Advance(o, i, "rel")
  /\ UNCHANGED <<nodes, whole, setting, opc, file, name, seen, resumed, loop,
                 got, faults, crashes>>

(* The container is open and the write fails, with nothing or with a part  *)
(* of the chunk in the file; the offset stays.                             *)
ContainerWriteFails(o, i) ==
  /\ At(o, i, "write") /\ appending /\ manager[o].file # "closed"
  /\ Fault
  /\ \/ container' = Opened(o)
     \/ container' = [Written(o, None) EXCEPT !.owner = None]
  /\ manager' = [manager EXCEPT ![o].file = FileOf(o)]
  /\ Advance(o, i, "reportErr")
  /\ UNCHANGED <<nodes, whole, setting, opc, file, name, seen, resumed, loop,
                 batch, got, crashes>>

ProcessRel(o, i) ==
  /\ At(o, i, "rel")
  /\ batch' = IF <<file[o], i>> \in rel THEN batch
              ELSE [batch EXCEPT ![o].rel = @ \cup {<<file[o], i>>}]
  /\ Advance(o, i, "revGet")
  /\ UNCHANGED <<nodes, blobs, opc, file, name, seen, resumed, loop, got, faults,
                 crashes>>

RevRelGet(o, i) ==
  /\ At(o, i, "revGet")
  /\ got' = [got EXCEPT ![o][i] = rev[<<Chunk(o, i), i>>]]
  /\ Advance(o, i, "revSet")
  /\ UNCHANGED <<nodes, blobs, opc, file, name, seen, resumed, loop, batch, faults,
                 crashes>>

(* Mutant: a reverse relation that is there already is replaced.           *)
MutRevRel(old, f) == {f}

RevRel(old, f) == old \cup {f}

RevRelSet(o, i) ==
  /\ At(o, i, "revSet")
  /\ batch' = [batch EXCEPT ![o].rev[<<Chunk(o, i), i>>] =
                                RevRel(got[o][i], file[o])]
  /\ Advance(o, i, "reportOk")
  /\ UNCHANGED <<nodes, blobs, opc, file, name, seen, resumed, loop, got, faults,
                 crashes>>

(* Any of the calls may fail; WriteChunkToContainer does so before it gets *)
(* to the container, or because the operation has closed its manager.      *)
WorkerFails(o, i) ==
  /\ work[o][i] \notin {"none", "reportOk", "reportErr", "exited"}
  /\ Fault \/ (At(o, i, "write") /\ appending /\ manager[o].file = "closed"
                /\ UNCHANGED faults)
  /\ Advance(o, i, "reportErr")
  /\ UNCHANGED <<nodes, blobs, opc, file, name, seen, resumed, loop, batch, got,
                 crashes>>

(* Mutant: the channel of errors has no room for a worker left behind.     *)
MutErrCap == MaxThreads - 1

ErrCap == MaxThreads

(* The send on tio.Err, which blocks when it is full.                      *)
Report(o, i) ==
  /\ work[o][i] \in {"reportOk", "reportErr"}
  /\ Len(errs[o]) < ErrCap
  /\ errs' = [errs EXCEPT ![o] =
                Append(@, IF At(o, i, "reportOk") THEN "ok" ELSE "err")]
  /\ Advance(o, i, "exited")
  /\ UNCHANGED <<nodes, blobs, opc, file, name, seen, resumed, next, active,
                 batch, got, faults, crashes>>

-----------------------------------------------------------------------------
OpStep(o) ==
  \/ PreStoreCheck(o) \/ AddName(o)
  \/ Preflight(o) \/ CreateNode(o)
  \/ SpawnWorker(o) \/ Collect(o) \/ Flush(o) \/ FlushFails(o)
  \/ CloseManager(o) \/ CloseFails(o)
  \/ FinishRead(o) \/ FinishWrite(o)
  \/ OpFails(o)

WorkerStep(o, i) ==
  \/ PingChonk(o, i) \/ TruncateBlob(o, i) \/ WriteChonk(o, i)
  \/ WriteToContainer(o, i) \/ ContainerWriteFails(o, i)
  \/ ProcessRel(o, i)
  \/ RevRelGet(o, i) \/ RevRelSet(o, i)
  \/ WorkerFails(o, i) \/ Report(o, i)

AllOver ==
  /\ \A o \in Ops : opc[o] \in Over \ {"idle"}
  /\ \A o \in Ops, i \in Positions : work[o][i] \in {"none", "exited"}
  /\ UNCHANGED vars

Next ==
  \/ \E o \in Ops :
       \/ \E f \in Files, n \in Names : StoreFile(o, f, n)
       \/ OpStep(o)
       \/ \E i \in Positions : WorkerStep(o, i)
       \/ AutoCommit(o)
  \/ Crash
  \/ AllOver

Spec == Init /\ [][Next]_vars

(* Goroutines that can run do run.                                         *)
Fairness ==
  \A o \in Ops :
    /\ WF_vars(OpStep(o))
    /\ \A i \in Positions : WF_vars(WorkerStep(o, i))

FairSpec == Spec /\ Fairness

-----------------------------------------------------------------------------
TypeOK ==
  /\ setting \in Settings
  /\ evi \in [Files -> EviNode \cup {None}]
  /\ chonk \subseteq Chunks /\ rel \subseteq Places
  /\ rev \in [RevKeys -> SUBSET Files]
  /\ address \in [Chunks -> Address \cup {None}] /\ whole \subseteq Chunks
  /\ container \in [blob : BOOLEAN, data : Seq(Chunks \cup {None}),
                    owner : Ops \cup {None}]
  /\ manager \in [Ops -> [file : {"none", "open", "lost", "closed"}, offset : Nat]]
  /\ opc \in [Ops -> Over \cup {"precheck", "addName", "preflight", "create",
                    "addNameInPreflight", "store", "close", "abandon", "finish",
                    "finishWrite"}]
  /\ file \in [Ops -> Files \cup {None}] /\ name \in [Ops -> Names \cup {None}]
  /\ seen \in [Ops -> EviNode \cup {None}] /\ resumed \in [Ops -> BOOLEAN]
  /\ next \in [Ops -> Nat] /\ active \in [Ops -> Nat]
  /\ errs \in [Ops -> Seq({"ok", "err"})]
  /\ batch \in [Ops -> [chonk : SUBSET Chunks, rel : SUBSET Places,
                        rev : [RevKeys -> SUBSET Files],
                        address : [Chunks -> Address \cup {None}]]]
  /\ work \in [Ops -> [Positions -> {"none", "ping", "truncate", "write", "rel",
                   "revGet", "revSet", "reportOk", "reportErr", "exited"}]]
  /\ got \in [Ops -> [Positions -> SUBSET Files]]
  /\ faults \in 0 .. setting.faults /\ crashes \in 0 .. setting.crashes

OneAtATime == setting.concurrent = 1

Completed(f) == evi[f] # None /\ evi[f].completed

(* GetChonkNode returns the chunk.                                         *)
Readable(c) ==
  IF appending
    THEN /\ address[c].offset \in DOMAIN container.data
         /\ container.data[address[c].offset] = c
    ELSE c \in whole

(* With one file per chunk, whoever has found a chunk unknown truncates    *)
(* its file, which may be committed meanwhile: by an operation at its      *)
(* side, after a failed one that has left the worker behind, or by the     *)
(* same operation if its file has the chunk at another place too.          *)
Once(c) ==
  \A f \in Files : \A i, j \in DOMAIN Content[f] :
    Content[f][i] = c /\ Content[f][j] = c => i = j

(* With containers, the next operation that stores a chunk takes the name  *)
(* of the container away from the one before, and one that finds a .blob   *)
(* left by a crash or a failed Close miscounts its offsets; so does one    *)
(* that has written a part of a chunk.                                     *)
Undisturbed(c) ==
  /\ OneAtATime
  /\ IF appending THEN address[c].op = container.owner
     ELSE faults = 0 /\ Once(c)

(* restoreData succeeds on every file marked completed, whatever crashes,  *)
(* failures and repetitions came before, as long as its chunks are         *)
(* undisturbed: each of its relation nodes and chunk nodes is there in any *)
(* case, and the undisturbed chunks can be read.                           *)
Restorable ==
  \A f \in Files : Completed(f) =>
    \A i \in DOMAIN Content[f] :
      /\ <<f, i>> \in rel /\ Content[f][i] \in chonk
      /\ Undisturbed(Content[f][i]) => Readable(Content[f][i])

(* A committed chunk node, which later operations deduplicate against,     *)
(* points at the bytes of its chunk: also when the batch was committed     *)
(* early and the operation then fails or dies, when a later one appends to *)
(* what it left, and with workers that write after the first error; as     *)
(* long as nothing disturbs them in the ways above.                        *)
ChunkNodesBacked == \A c \in chonk : Undisturbed(c) => Readable(c)

(* Search and near go from a chunk to its files: a completed file is       *)
(* listed for each of its chunks, even if others share them.  After a call *)
(* has failed this is not so: a worker that the failed operation left      *)
(* behind may commit a reverse relation it read before the file was stored *)
(* again; nor with operations side by side, which do the same.             *)
RevRelsComplete ==
  \A f \in Files : OneAtATime /\ Completed(f) /\ faults = 0 =>
    \A i \in DOMAIN Content[f] : f \in rev[<<Content[f][i], i>>]

(* The name of a finished operation is in its file's node, unless the      *)
(* operation took over a file left by half: such a one keeps the names it  *)
(* was first stored with.  Operations side by side overwrite names.        *)
NamesRecorded ==
  \A o \in Ops : OneAtATime /\ opc[o] = "ok" /\ ~resumed[o] =>
    evi[file[o]] # None /\ name[o] \in evi[file[o]].names

(* No worker left behind by an early return blocks for ever on tio.Err:    *)
(* there is room for every report still to come.                           *)
RoomForReports ==
  \A o \in Ops : opc[o] \in {"ok", "failed"} =>
    Cardinality({i \in Positions : work[o][i] \notin {"none", "exited"}})
      + Len(errs[o]) <= ErrCap

(* An evidence file node keeps its names, and stays completed, if          *)
(* operations come one after the other.                                    *)
NothingForgotten ==
  [][\A f \in Files : OneAtATime /\ evi[f] # None =>
       /\ evi'[f] # None
       /\ evi[f].names \subseteq evi'[f].names
       /\ evi[f].completed => evi'[f].completed]_vars

(* Every operation ends, and so does every worker it spawned.              *)
OperationsEnd ==
  \A o \in Ops : opc[o] = "precheck" ~> ~Running(o)

WorkersEnd ==
  \A o \in Ops, i \in Positions :
    work[o][i] = "ping" ~> work[o][i] \in {"none", "exited"}
=============================================================================
