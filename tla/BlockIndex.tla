----------------------------- MODULE BlockIndex -----------------------------
(***************************************************************************)
(* lib/fio/blockindex.go: with --hierarchical, the address of a chunk goes *)
(* to a block file instead of the database.  Each store operation has a    *)
(* BlockManager; its workers call AddChunkMetadata, one at a time under    *)
(* the mutex, which buffers the entries of one block and flushes them when *)
(* the block changes or is full; Close flushes the rest.  Block files are  *)
(* shared by all operations and only ever appended to.                     *)
(*                                                                         *)
(* An entry is the worker that made it: it stands for the hash of the      *)
(* worker's chunk and for the address the container manager gave it.  An   *)
(* entry reaches the file in several writes; here they are two pieces, the *)
(* hash and the rest, so that an entry can be left torn.                   *)
(***************************************************************************)
EXTENDS Integers, Sequences, FiniteSets

CONSTANTS
  Ops,            \* store operations with --hierarchical
  Chunks,         \* chunk contents, identified by their hash
  Content,        \* the chunks each operation stores, in order
  Blocks,         \* block IDs
  BlockOf,        \* the block ID in each hash
  ChunksPerBlock, \* entries that fill a block
  MaxConcurrent,  \* operations that may be in progress together
  MaxFaults,      \* bound: calls that fail
  MaxCrashes,     \* bound: crashes of the process
  None            \* no current block

ASSUME ContentAssumption == Content \in [Ops -> Seq(Chunks)]
ASSUME BlocksAssumption == BlockOf \in [Chunks -> Blocks]
ASSUME BoundsAssumption ==
  /\ ChunksPerBlock \in Nat \ {0} /\ MaxConcurrent \in Nat \ {0}
  /\ MaxFaults \in Nat /\ MaxCrashes \in Nat

Workers == UNION {{o} \X DOMAIN Content[o] : o \in Ops}
Chunk(w) == Content[w[1]][w[2]]
Block(w) == BlockOf[Chunk(w)]
WorkersOf(o) == {w \in Workers : w[1] = o}

(* The entries of one block, in memory.                                    *)
Buffer == [block : Blocks, entries : Seq(Workers)]

ASSUME NoneAssumption == None \notin Buffer

VARIABLES
  file,    \* the pieces in each block file
  current, \* currentBlock of each operation's manager
  written, \* pieces of currentBlock written by the flush in progress
  opc,     \* where each operation is
  err,     \* whether storeEvidenceData already has an error to return
  work,    \* where each worker is
  overlap, \* history: two operations were in progress together
  faults, crashes

vars == <<file, current, written, opc, err, work, overlap, faults, crashes>>

Running(o) == opc[o] \in {"store", "closing"}
Fault == faults < MaxFaults /\ faults' = faults + 1
Move(w, l) == work' = [work EXCEPT ![w] = l]

Init ==
  /\ file = [b \in Blocks |-> <<>>]
  /\ current = [o \in Ops |-> None] /\ written = [o \in Ops |-> 0]
  /\ opc = [o \in Ops |-> "idle"] /\ err = [o \in Ops |-> FALSE]
  /\ work = [w \in Workers |-> "none"]
  /\ overlap = FALSE /\ faults = 0 /\ crashes = 0

(* storeEvidenceData makes a manager and spawns the workers.               *)
NewBlockManager(o) ==
  /\ opc[o] = "idle"
  /\ Cardinality({p \in Ops : Running(p)}) < MaxConcurrent
  /\ opc' = [opc EXCEPT ![o] = "store"]
  /\ work' = [w \in Workers |-> IF w[1] = o THEN "add" ELSE work[w]]
  /\ overlap' = (overlap \/ \E p \in Ops : Running(p))
  /\ UNCHANGED <<file, current, written, err, faults, crashes>>

(* The process dies: what is buffered is lost, files stay as they are.     *)
Crash ==
  /\ crashes < MaxCrashes
  /\ \E o \in Ops : Running(o)
  /\ crashes' = crashes + 1
  /\ opc' = [o \in Ops |-> IF Running(o) THEN "dead" ELSE opc[o]]
  /\ work' = [w \in Workers |-> IF opc[w[1]] = "ok" THEN work[w] ELSE "none"]
  /\ current' = [o \in Ops |-> None] /\ written' = [o \in Ops |-> 0]
  /\ UNCHANGED <<file, err, overlap, faults>>

(* Hashing, or the container manager, fails before there is an address.    *)
WorkerFails(w) ==
  /\ work[w] = "add"
  /\ Fault
  /\ Move(w, "failed")
  /\ UNCHANGED <<file, current, written, opc, err, overlap, crashes>>

-----------------------------------------------------------------------------
(* AddChunkMetadata and flushBlock.                                        *)

Flushing(o) ==
  opc[o] = "closing" \/ \E w \in WorkersOf(o) : work[w] \in {"flushOld", "flushFull"}

(* Mutant: AddChunkMetadata does not take the mutex.                       *)
MutMutexFree(o) == TRUE

(* bm.mutex is held over a flush only; all else is one step.               *)
MutexFree(o) == ~Flushing(o)

Full(entries) == Len(entries) >= ChunksPerBlock

(* The entry joins those of its block, which is flushed if it is full.     *)
Put(w, entries) ==
  LET all == Append(entries, w) IN
    /\ current' = [current EXCEPT ![w[1]] = [block |-> Block(w), entries |-> all]]
    /\ written' = [written EXCEPT ![w[1]] = 0]
    /\ Move(w, IF Full(all) THEN "flushFull" ELSE "done")

(* Mutant: the entries of another block are dropped, not flushed.          *)
MutAddChunkMetadata(w) ==
  LET block == current[w[1]] IN
    /\ work[w] = "add" /\ MutexFree(w[1])
    /\ IF block = None \/ block.block # Block(w)
         THEN Put(w, <<>>) ELSE Put(w, block.entries)
    /\ UNCHANGED <<file, opc, err, overlap, faults, crashes>>

AddChunkMetadata(w) ==
  LET block == current[w[1]] IN
    /\ work[w] = "add" /\ MutexFree(w[1])
    /\ \/ block = None /\ Put(w, <<>>)
       \/ block # None /\ block.block = Block(w) /\ Put(w, block.entries)
       \/ /\ block # None /\ block.block # Block(w)
          /\ Move(w, "flushOld")
          /\ written' = [written EXCEPT ![w[1]] = 0]
          /\ UNCHANGED current
    /\ UNCHANGED <<file, opc, err, overlap, faults, crashes>>

(* One write of flushBlock: entries in order, each its hash first.         *)
Pieces(o) == 2 * Len(current[o].entries)
WritePiece(o) ==
  LET w == current[o].entries[written[o] \div 2 + 1]
      part == IF written[o] % 2 = 0 THEN "hash" ELSE "rest"
  IN /\ Flushing(o) /\ written[o] < Pieces(o)
     /\ file' = [file EXCEPT ![current[o].block] = Append(@, <<part, w>>)]
     /\ written' = [written EXCEPT ![o] = @ + 1]
     /\ UNCHANGED <<current, opc, err, work, overlap, faults, crashes>>

Flushed(o) == current[o] # None /\ written[o] = Pieces(o)

(* The block that was flushed makes room for that of the worker.           *)
FlushedOld(w) ==
  /\ work[w] = "flushOld" /\ Flushed(w[1])
  /\ Put(w, <<>>)
  /\ UNCHANGED <<file, opc, err, overlap, faults, crashes>>

FlushedFull(w) ==
  /\ work[w] = "flushFull" /\ Flushed(w[1])
  /\ Move(w, "done")
  /\ current' = [current EXCEPT ![w[1]] = None]
  /\ written' = [written EXCEPT ![w[1]] = 0]
  /\ UNCHANGED <<file, opc, err, overlap, faults, crashes>>

(* Opening, writing or syncing the file fails.  The block stays current,   *)
(* with all its entries, whether they are in the file or not.              *)
FlushFails(o) ==
  /\ Flushing(o)
  /\ Fault
  /\ work' = [w \in Workers |->
                IF w[1] = o /\ work[w] \in {"flushOld", "flushFull"}
                  THEN "failed" ELSE work[w]]
  /\ opc' = IF opc[o] = "closing" THEN [opc EXCEPT ![o] = "failed"] ELSE opc
  /\ written' = [written EXCEPT ![o] = 0]
  /\ UNCHANGED <<file, current, err, overlap, crashes>>

-----------------------------------------------------------------------------
(* BlockManager.Close, deferred by storeEvidenceData.                      *)

AllDone(o) == \A w \in WorkersOf(o) : work[w] = "done"
SomeFailed(o) == \E w \in WorkersOf(o) : work[w] = "failed"

Result(e) == IF e THEN "failed" ELSE "ok"

(* storeEvidenceData returns: all workers are done and the batch is        *)
(* flushed, or one of these has failed.                                    *)
Returns(o, e) ==
  \/ ~e /\ AllDone(o) /\ UNCHANGED faults
  \/ e /\ AllDone(o) /\ Fault
  \/ e /\ SomeFailed(o) /\ UNCHANGED faults

(* Mutant: what is still buffered is not flushed.                          *)
MutClose(o, e) ==
  /\ opc[o] = "store" /\ MutexFree(o) /\ Returns(o, e)
  /\ err' = [err EXCEPT ![o] = e]
  /\ opc' = [opc EXCEPT ![o] = Result(e)]
  /\ UNCHANGED <<file, current, written, work, overlap, crashes>>

(* Other workers may still be at it, and even add entries after Close.     *)
Close(o, e) ==
  /\ opc[o] = "store" /\ MutexFree(o) /\ Returns(o, e)
  /\ err' = [err EXCEPT ![o] = e]
  /\ opc' = [opc EXCEPT ![o] = IF current[o] = None THEN Result(e) ELSE "closing"]
  /\ written' = [written EXCEPT ![o] = 0]
  /\ UNCHANGED <<file, current, work, overlap, crashes>>

Closed(o) ==
  /\ opc[o] = "closing" /\ Flushed(o)
  /\ opc' = [opc EXCEPT ![o] = Result(err[o])]
  /\ written' = [written EXCEPT ![o] = 0]
  /\ UNCHANGED <<file, current, err, work, overlap, faults, crashes>>

(* All operations are over and nobody is left at work.                     *)
AllOver ==
  /\ \A o \in Ops : opc[o] \in {"ok", "failed", "dead"}
  /\ \A w \in Workers : work[w] \in {"none", "done", "failed"}
  /\ UNCHANGED vars

Next ==
  \/ \E o \in Ops :
       \/ NewBlockManager(o) \/ WritePiece(o) \/ FlushFails(o) \/ Closed(o)
       \/ \E e \in BOOLEAN : Close(o, e)
  \/ \E w \in Workers :
       \/ WorkerFails(w) \/ AddChunkMetadata(w)
       \/ FlushedOld(w) \/ FlushedFull(w)
  \/ Crash
  \/ AllOver

Spec == Init /\ [][Next]_vars

-----------------------------------------------------------------------------
(* GetChunkMetadata: entries are read from the start of the file, until    *)
(* one has the hash; the first that is torn makes nonsense of the rest.    *)

IsEntry(b, k) ==
  /\ 2 * k <= Len(file[b])
  /\ file[b][2 * k - 1][1] = "hash" /\ file[b][2 * k][1] = "rest"
  /\ file[b][2 * k - 1][2] = file[b][2 * k][2]
Entries(b) == 1 .. Len(file[b]) \div 2
Torn(b) == \E k \in Entries(b) : ~IsEntry(b, k)

Found(c) ==
  LET id == BlockOf[c] IN
    \E k \in Entries(id) :
      /\ \A j \in 1 .. k : IsEntry(id, j)
      /\ Chunk(file[id][2 * k][2]) = c

-----------------------------------------------------------------------------
TypeOK ==
  /\ file \in [Blocks -> Seq({"hash", "rest"} \X Workers)]
  /\ current \in [Ops -> Buffer \cup {None}] /\ written \in [Ops -> Nat]
  /\ \A o \in Ops : current[o] # None =>
       current[o].entries \in Seq(WorkersOf(o)) /\ written[o] <= Pieces(o)
  /\ opc \in [Ops -> {"idle", "store", "closing", "ok", "failed", "dead"}]
  /\ err \in [Ops -> BOOLEAN] /\ overlap \in BOOLEAN
  /\ work \in [Workers -> {"none", "add", "flushOld", "flushFull", "done", "failed"}]
  /\ faults \in 0 .. MaxFaults /\ crashes \in 0 .. MaxCrashes

(* Every chunk of an operation that succeeded can be looked up, then and   *)
(* ever after, whatever other operations append, fail or leave behind: all *)
(* that can hide it is a torn entry in its block file.                     *)
Indexed ==
  \A w \in Workers :
    opc[w[1]] = "ok" => Found(Chunk(w)) \/ Torn(Block(w))

(* While the operation goes on, the entry of every worker that was told it *)
(* has been added is buffered or in the file, across block changes, full   *)
(* blocks and flushes that fail half way.                                  *)
AddedKept ==
  \A w \in Workers : work[w] = "done" /\ opc[w[1]] \in {"store", "closing"} =>
    \/ \E k \in Entries(Block(w)) : file[Block(w)][2 * k][2] = w
    \/ /\ current[w[1]] # None
       /\ \E k \in DOMAIN current[w[1]].entries : current[w[1]].entries[k] = w
    \/ Torn(Block(w))

(* The mutex alone keeps entries whole: a torn one takes a failure, a      *)
(* crash or two operations together.                                       *)
TornByTroubleOnly ==
  faults = 0 /\ crashes = 0 /\ ~overlap => \A b \in Blocks : ~Torn(b)
=============================================================================
