----------------------------- MODULE Container -----------------------------
(***************************************************************************)
(* The container manager of lib/fio/container.go, one manager per store    *)
(* operation ("session"), over the container files that outlive it.        *)
(*                                                                         *)
(* Processes of a session: the storeWorker goroutines that call            *)
(* WriteChunkToContainer, one call each; the writer goroutine              *)
(* (writerLoop); and the store operation itself, which calls Close when    *)
(* all workers are done or one of them failed.  A file is a length and the *)
(* chunks that can be read from it, <<offset, chunk>>; container i is      *)
(* kept as i.blob while it is written and as i.blob.zst afterwards, the    *)
(* latter made through a temporary file.  The name of container i depends  *)
(* on i alone, and every manager counts from 0.                            *)
(***************************************************************************)
EXTENDS Integers, Sequences, FiniteSets

CONSTANTS
  Workers,           \* storeWorker goroutines of a session
  Chunks,            \* chunk contents
  Size,              \* encoded size of each chunk
  MaxContainerSize,  \* cnst.GB in the code
  QueueCap,          \* capacity of writeQueue (1000 in the code)
  MaxIndex,          \* bound: containers a session may open
  MaxSessions,       \* bound: store operations, crashed ones included
  MaxFaults,         \* bound: failing file and database calls
  MaxCrashes,        \* bound: sessions that end in a crash
  Nil, Err           \* no file / no reply yet / no error; an error reply

Containers == 1 .. MaxIndex
Sessions == 1 .. MaxSessions
File == [len : Nat, ext : SUBSET (Nat \X Chunks)]
Ack == [cont : Containers, off : Nat, chunk : Chunks, sess : Sessions]

ASSUME BoundsAssumption ==
  /\ MaxIndex \in Nat /\ MaxSessions \in Nat
  /\ MaxFaults \in Nat /\ MaxCrashes \in Nat
  /\ QueueCap \in Nat \ {0}

ASSUME SizeAssumption ==
  /\ MaxContainerSize \in Nat
  /\ Size \in [Chunks -> 1 .. MaxContainerSize]

ASSUME NilAssumption ==
  /\ Nil # Err
  /\ Nil \notin File /\ Nil \notin Ack /\ Err \notin Ack
  /\ Nil \notin Workers /\ Nil \notin Chunks

VARIABLES
  blob, zst, tmp,    \* the files of each container, Nil when absent
  session, running,  \* the store operation, and whether it is in progress
  pc, arg, reply,    \* the workers: where, with which chunk, responseCh
  writeQueue, closed,
  wpc, wreq,         \* the writer goroutine and the request it works on
  cpc, closeErr,     \* Close and what it returns
  step,              \* where compressContainer is
  containerIndex, currentFile, currentOffset,
  faults, crashes,   \* faults and crashes so far, for the bounds
  acked,             \* addresses handed to workers (they go into the metadata)
  owner, spoiled     \* history: session that opened a container last, and
                     \* containers whose tenant miscounts its offsets

files == <<blob, zst, tmp>>
callers == <<pc, arg, reply>>
manager == <<containerIndex, currentFile, currentOffset>>
history == <<acked, owner, spoiled>>
vars == <<files, session, running, callers, writeQueue, closed, wpc, wreq,
          cpc, closeErr, step, manager, faults, crashes, history>>

EmptyFile == [len |-> 0, ext |-> {}]

-----------------------------------------------------------------------------
(* Operators named Mut... are mutants: what the definition after them would *)
(* be with a plausible bug in the code.  No specification uses them.       *)

(* Mutant: the compressed file is looked for first.                        *)
MutResolve(i) == IF zst[i] # Nil THEN zst[i] ELSE blob[i]

(* What a reader sees: resolveContainerPath takes the .blob if there is    *)
(* one and the .blob.zst otherwise.                                        *)
Resolve(i) == IF blob[i] # Nil THEN blob[i] ELSE zst[i]

Contents(i) == IF Resolve(i) = Nil THEN {} ELSE Resolve(i).ext

(* ReadChunkFromContainer at the address of a returns the chunk.           *)
Readable(a) == <<a.off, a.chunk>> \in Contents(a.cont)

-----------------------------------------------------------------------------
Init ==
  /\ blob = [i \in Containers |-> Nil]
  /\ zst = [i \in Containers |-> Nil]
  /\ tmp = [i \in Containers |-> Nil]
  /\ session = 0 /\ running = FALSE
  /\ pc = [w \in Workers |-> "start"]
  /\ arg = [w \in Workers |-> Nil]
  /\ reply = [w \in Workers |-> Nil]
  /\ writeQueue = <<>> /\ closed = FALSE
  /\ wpc = "recv" /\ wreq = Nil
  /\ cpc = "open" /\ closeErr = FALSE
  /\ step = "none"
  /\ containerIndex = 0 /\ currentFile = "none" /\ currentOffset = 0
  /\ faults = 0 /\ crashes = 0
  /\ acked = {} /\ owner = [i \in Containers |-> 0] /\ spoiled = {}

(* A new store operation makes a new manager.  Workers of the last one     *)
(* that are still around find its queue closed, or have a reply nobody     *)
(* will flush: they no longer matter.                                      *)
NewContainerManager ==
  /\ ~running
  /\ session < MaxSessions
  /\ session' = session + 1
  /\ running' = TRUE
  /\ pc' = [w \in Workers |-> "start"]
  /\ arg' = [w \in Workers |-> Nil]
  /\ reply' = [w \in Workers |-> Nil]
  /\ writeQueue' = <<>> /\ closed' = FALSE
  /\ wpc' = "recv" /\ wreq' = Nil
  /\ cpc' = "open" /\ closeErr' = FALSE
  /\ step' = "none"
  /\ containerIndex' = 0 /\ currentFile' = "none" /\ currentOffset' = 0
  /\ UNCHANGED <<files, faults, crashes, history>>

(* The process dies; the files stay as they are.                           *)
Crash ==
  /\ running
  /\ crashes < MaxCrashes
  /\ running' = FALSE
  /\ crashes' = crashes + 1
  /\ UNCHANGED <<files, session, callers, writeQueue, closed, wpc, wreq, cpc,
                 closeErr, step, manager, faults, history>>

Fault == faults < MaxFaults /\ faults' = faults + 1

-----------------------------------------------------------------------------
(* The workers: WriteChunkToContainer, and the errors they meet before it. *)

(* RLock is not granted while a Lock is waiting for it.                    *)
CanRLock == cpc # "locking"

Submit(w, c) ==
  /\ running /\ pc[w] = "start" /\ CanRLock
  /\ ~closed
  /\ pc' = [pc EXCEPT ![w] = "sending"]
  /\ arg' = [arg EXCEPT ![w] = c]
  /\ UNCHANGED <<files, session, running, reply, writeQueue, closed, wpc, wreq,
                 cpc, closeErr, step, manager, faults, crashes, history>>

Refused(w) ==
  /\ running /\ pc[w] = "start" /\ CanRLock
  /\ closed
  /\ pc' = [pc EXCEPT ![w] = "failed"]
  /\ UNCHANGED <<files, session, running, arg, reply, writeQueue, closed, wpc,
                 wreq, cpc, closeErr, step, manager, faults, crashes, history>>

(* The send to writeQueue, which blocks while the queue is full, and the   *)
(* RUnlock after it.                                                       *)
Enqueue(w) ==
  /\ running /\ pc[w] = "sending"
  /\ Len(writeQueue) < QueueCap
  /\ writeQueue' = Append(writeQueue, w)
  /\ pc' = [pc EXCEPT ![w] = "waiting"]
  /\ UNCHANGED <<files, session, running, arg, reply, closed, wpc, wreq, cpc,
                 closeErr, step, manager, faults, crashes, history>>

(* The worker takes the reply and puts the address into the metadata.      *)
Receive(w) ==
  /\ running /\ pc[w] = "waiting" /\ reply[w] # Nil
  /\ IF reply[w] = Err
       THEN /\ pc' = [pc EXCEPT ![w] = "failed"]
            /\ acked' = acked
       ELSE /\ pc' = [pc EXCEPT ![w] = "done"]
            /\ acked' = acked \cup {reply[w]}
  /\ UNCHANGED <<files, session, running, arg, reply, writeQueue, closed, wpc,
                 wreq, cpc, closeErr, step, manager, faults, crashes, owner,
                 spoiled>>

(* storeWorker fails before it reaches the container manager.              *)
WorkerFails(w) ==
  /\ running /\ pc[w] = "start"
  /\ Fault
  /\ pc' = [pc EXCEPT ![w] = "failed"]
  /\ UNCHANGED <<files, session, running, arg, reply, writeQueue, closed, wpc,
                 wreq, cpc, closeErr, step, manager, crashes, history>>

-----------------------------------------------------------------------------
(* The writer goroutine: writerLoop, doWrite and createNewContainer.       *)

(* Whether chunk c still goes into the open container.                     *)
Fits(c) == currentOffset + Size[c] <= MaxContainerSize

(* Take a request and decide whether a new container is needed for it.     *)
Dequeue ==
  /\ running /\ wpc = "recv" /\ writeQueue # <<>>
  /\ wreq' = Head(writeQueue)
  /\ writeQueue' = Tail(writeQueue)
  /\ wpc' = IF currentFile = "none" THEN "create"
            ELSE IF Fits(arg[Head(writeQueue)]) THEN "write" ELSE "roll"
  /\ UNCHANGED <<files, session, running, callers, closed, cpc, closeErr, step,
                 manager, faults, crashes, history>>

(* currentOffset of a container that was just opened.                      *)
StartOffset == 0

(* The reply to the request at hand; the writer goes back to the queue.    *)
Respond(r) ==
  /\ reply' = [reply EXCEPT ![wreq] = r]
  /\ wreq' = Nil
  /\ wpc' = "recv"

(* createNewContainer: Sync and Close of the full container.  A container  *)
(* that an earlier failure left closed cannot be synced again.             *)
RollOver ==
  /\ running /\ wpc = "roll" /\ currentFile = "open"
  /\ currentFile' = "closed"
  /\ wpc' = "compress" /\ step' = "copy"
  /\ UNCHANGED <<files, session, running, callers, writeQueue, closed, wreq,
                 cpc, closeErr, containerIndex, currentOffset, faults, crashes,
                 history>>

RollOverFails ==
  /\ running /\ wpc = "roll"
  /\ \/ currentFile = "closed" /\ UNCHANGED <<currentFile, faults>>
     \/ currentFile = "open" /\ Fault /\ currentFile' \in {"open", "closed"}
  /\ Respond(Err)
  /\ UNCHANGED <<files, session, running, pc, arg, writeQueue, closed, cpc,
                 closeErr, step, containerIndex, currentOffset, crashes,
                 history>>

(* createNewContainer: open the next container.  The name depends on the   *)
(* index alone, so another session may have left files under it: the .blob *)
(* is appended to if there is one.                                         *)
OpenContainer ==
  /\ running /\ wpc = "create"
  /\ containerIndex < MaxIndex
  /\ LET i == containerIndex + 1 IN
       /\ containerIndex' = i
       /\ blob' = [blob EXCEPT ![i] = IF @ = Nil THEN EmptyFile ELSE @]
       /\ owner' = [owner EXCEPT ![i] = session]
       /\ spoiled' = IF blob[i] = Nil THEN spoiled \ {i} ELSE spoiled \cup {i}
  /\ currentFile' = "open" /\ currentOffset' = StartOffset
  /\ wpc' = "write"
  /\ UNCHANGED <<zst, tmp, session, running, callers, writeQueue, closed, wreq,
                 cpc, closeErr, step, faults, crashes, acked>>

OpenFails ==
  /\ running /\ wpc = "create"
  /\ containerIndex < MaxIndex
  /\ Fault
  /\ containerIndex' = containerIndex + 1
  /\ Respond(Err)
  /\ UNCHANGED <<files, session, running, pc, arg, writeQueue, closed, cpc,
                 closeErr, step, currentFile, currentOffset, crashes, history>>

(* The file position of an O_APPEND file is its length; the address that   *)
(* is reported is currentOffset.                                           *)
WriteChunk ==
  /\ running /\ wpc = "write" /\ currentFile = "open"
  /\ LET i == containerIndex
         c == arg[wreq]
     IN /\ blob' = [blob EXCEPT ![i] =
                      [len |-> @.len + Size[c],
                       ext |-> @.ext \cup {<<@.len, c>>}]]
        /\ Respond([cont |-> i, off |-> currentOffset, chunk |-> c,
                    sess |-> session])
        /\ currentOffset' = currentOffset + Size[c]
  /\ UNCHANGED <<zst, tmp, session, running, pc, arg, writeQueue, closed, cpc,
                 closeErr, step, containerIndex, currentFile, faults, crashes,
                 history>>

(* A write that fails may have put the first k bytes into the file, and    *)
(* currentOffset stays behind; on a closed file it fails with no effect.   *)
WriteFails ==
  /\ running /\ wpc = "write"
  /\ LET i == containerIndex IN
       \/ /\ currentFile = "closed"
          /\ UNCHANGED <<blob, spoiled, faults>>
       \/ /\ currentFile = "open" /\ Fault
          /\ \E k \in 0 .. Size[arg[wreq]] - 1 :
               /\ blob' = [blob EXCEPT ![i] =
                              [len |-> @.len + k, ext |-> @.ext]]
               /\ spoiled' = IF k > 0 THEN spoiled \cup {i} ELSE spoiled
  /\ Respond(Err)
  /\ UNCHANGED <<zst, tmp, session, running, pc, arg, writeQueue, closed, cpc,
                 closeErr, step, manager, crashes, acked, owner>>

(* Mutant: the loop ends as soon as the queue is closed.                   *)
MutNothingQueued == TRUE

(* The range loop ends when the queue is closed and empty.                 *)
NothingQueued == writeQueue = <<>>

WriterExit ==
  /\ running /\ wpc = "recv" /\ NothingQueued /\ closed
  /\ wpc' = "exited"
  /\ UNCHANGED <<files, session, running, callers, writeQueue, closed, wreq,
                 cpc, closeErr, step, manager, faults, crashes, history>>

-----------------------------------------------------------------------------
(* compressContainer, run by the writer between two containers and by      *)
(* Close for the last one; a crash may come between any two of its steps.  *)

Compressing == wpc = "compress" \/ cpc = "compress"

(* All of the .blob is compressed into a new temporary file.               *)
CompressCopy ==
  /\ running /\ Compressing /\ step = "copy"
  /\ tmp' = [tmp EXCEPT ![containerIndex] = blob[containerIndex]]
  /\ step' = "removeOld"
  /\ UNCHANGED <<blob, zst, session, running, callers, writeQueue, closed, wpc,
                 wreq, cpc, closeErr, manager, faults, crashes, history>>

(* Mutant: the .blob goes before the compressed file is in place.          *)
MutCompressRemoveOld ==
  /\ running /\ Compressing /\ step = "removeOld"
  /\ zst' = [zst EXCEPT ![containerIndex] = Nil]
  /\ blob' = [blob EXCEPT ![containerIndex] = Nil]
  /\ step' = "rename"
  /\ UNCHANGED <<tmp, session, running, callers, writeQueue, closed, wpc,
                 wreq, cpc, closeErr, manager, faults, crashes, history>>

(* A compressed file of that name, from an earlier session, is removed.    *)
CompressRemoveOld ==
  /\ running /\ Compressing /\ step = "removeOld"
  /\ zst' = [zst EXCEPT ![containerIndex] = Nil]
  /\ step' = "rename"
  /\ UNCHANGED <<blob, tmp, session, running, callers, writeQueue, closed, wpc,
                 wreq, cpc, closeErr, manager, faults, crashes, history>>

CompressRename ==
  /\ running /\ Compressing /\ step = "rename"
  /\ zst' = [zst EXCEPT ![containerIndex] = tmp[containerIndex]]
  /\ tmp' = [tmp EXCEPT ![containerIndex] = Nil]
  /\ step' = "removeBlob"
  /\ UNCHANGED <<blob, session, running, callers, writeQueue, closed, wpc,
                 wreq, cpc, closeErr, manager, faults, crashes, history>>

CompressRemoveBlob ==
  /\ running /\ Compressing /\ step = "removeBlob"
  /\ blob' = [blob EXCEPT ![containerIndex] = Nil]
  /\ step' = "none"
  /\ IF wpc = "compress"
       THEN wpc' = "create" /\ UNCHANGED <<cpc, closeErr>>
       ELSE cpc' = "done" /\ UNCHANGED <<wpc, closeErr>>
  /\ UNCHANGED <<zst, tmp, session, running, callers, writeQueue, closed, wreq,
                 manager, faults, crashes, history>>

(* Mutant: an error of the final compression is dropped.                   *)
MutCloseFailed == closeErr' = closeErr

CloseFailed == closeErr' = TRUE

(* Any of the steps may fail; the temporary file is removed unless it has  *)
(* been renamed already.  The error goes to the request at hand or to the  *)
(* caller of Close.                                                        *)
CompressFails ==
  /\ running /\ Compressing
  /\ Fault
  /\ tmp' = [tmp EXCEPT ![containerIndex] = Nil]
  /\ step' = "none"
  /\ IF wpc = "compress"
       THEN Respond(Err) /\ UNCHANGED <<cpc, closeErr>>
       ELSE cpc' = "done" /\ CloseFailed /\ UNCHANGED <<reply, wreq, wpc>>
  /\ UNCHANGED <<blob, zst, session, running, pc, arg, writeQueue, closed,
                 manager, crashes, history>>

-----------------------------------------------------------------------------
(* Close, deferred by storeEvidenceData: it runs when every worker has     *)
(* reported, or as soon as one of them reported an error.                  *)
AllReported == \A w \in Workers : pc[w] = "done"
SomeFailed == \E w \in Workers : pc[w] = "failed"

Close ==
  /\ running /\ cpc = "open"
  /\ AllReported \/ SomeFailed
  /\ cpc' = "locking"
  /\ UNCHANGED <<files, session, running, callers, writeQueue, closed, wpc,
                 wreq, closeErr, step, manager, faults, crashes, history>>

(* Mutant: the lock does not wait for the readers.                         *)
MutReadersGone == TRUE

ReadersGone == \A w \in Workers : pc[w] # "sending"

(* Mutant: the queue is not closed.                                        *)
MutCloseQueue ==
  /\ running /\ cpc = "locking"
  /\ ReadersGone
  /\ cpc' = "draining"
  /\ UNCHANGED <<files, session, running, callers, writeQueue, closed, wpc,
                 wreq, closeErr, step, manager, faults, crashes, history>>

(* Lock is granted when no worker holds the read lock, that is, when none  *)
(* is still sending.                                                       *)
CloseQueue ==
  /\ running /\ cpc = "locking"
  /\ ReadersGone
  /\ closed' = TRUE
  /\ cpc' = "draining"
  /\ UNCHANGED <<files, session, running, callers, writeQueue, wpc, wreq,
                 closeErr, step, manager, faults, crashes, history>>

(* writerDone is closed: sync and close the last container.                *)
Finalize ==
  /\ running /\ cpc = "draining" /\ wpc = "exited"
  /\ \/ /\ currentFile = "none"
        /\ cpc' = "done"
        /\ UNCHANGED <<currentFile, step>>
     \/ /\ currentFile = "open"
        /\ currentFile' = "closed"
        /\ cpc' = "compress" /\ step' = "copy"
  /\ UNCHANGED <<files, session, running, callers, writeQueue, closed, wpc,
                 wreq, closeErr, containerIndex, currentOffset, faults,
                 crashes, history>>

FinalizeFails ==
  /\ running /\ cpc = "draining" /\ wpc = "exited"
  /\ \/ currentFile = "closed" /\ faults' = faults
     \/ currentFile = "open" /\ Fault
  /\ cpc' = "done" /\ CloseFailed
  /\ UNCHANGED <<files, session, running, callers, writeQueue, closed, wpc,
                 wreq, step, manager, crashes, history>>

(* The store operation returns.                                            *)
Return ==
  /\ running /\ cpc = "done"
  /\ running' = FALSE
  /\ UNCHANGED <<files, session, callers, writeQueue, closed, wpc, wreq, cpc,
                 closeErr, step, manager, faults, crashes, history>>

AllSessionsOver ==
  /\ ~running /\ session = MaxSessions
  /\ UNCHANGED vars

-----------------------------------------------------------------------------
WorkerStep(w) ==
  \/ \E c \in Chunks : Submit(w, c)
  \/ Refused(w)
  \/ Enqueue(w)
  \/ Receive(w)
  \/ WorkerFails(w)

Writer ==
  \/ Dequeue
  \/ RollOver \/ RollOverFails
  \/ OpenContainer \/ OpenFails
  \/ WriteChunk \/ WriteFails
  \/ WriterExit

Compress ==
  \/ CompressCopy \/ CompressRemoveOld \/ CompressRename
  \/ CompressRemoveBlob \/ CompressFails

Closing ==
  \/ Close \/ CloseQueue
  \/ Finalize \/ FinalizeFails
  \/ Return

Next ==
  \/ NewContainerManager
  \/ Crash
  \/ \E w \in Workers : WorkerStep(w)
  \/ Writer
  \/ Compress
  \/ Closing
  \/ AllSessionsOver

Spec == Init /\ [][Next]_vars

(* Goroutines that can run do run.  Nothing makes a session start.         *)
Fairness ==
  /\ \A w \in Workers : WF_vars(WorkerStep(w))
  /\ WF_vars(Writer)
  /\ WF_vars(Compress)
  /\ WF_vars(Closing)

FairSpec == Spec /\ Fairness

-----------------------------------------------------------------------------
TypeOK ==
  /\ blob \in [Containers -> File \cup {Nil}]
  /\ zst \in [Containers -> File \cup {Nil}]
  /\ tmp \in [Containers -> File \cup {Nil}]
  /\ session \in Sessions \cup {0}
  /\ running \in BOOLEAN
  /\ pc \in [Workers -> {"start", "sending", "waiting", "done", "failed"}]
  /\ arg \in [Workers -> Chunks \cup {Nil}]
  /\ reply \in [Workers -> Ack \cup {Nil, Err}]
  /\ writeQueue \in Seq(Workers)
  /\ closed \in BOOLEAN
  /\ wpc \in {"recv", "create", "roll", "compress", "write", "exited"}
  /\ wreq \in Workers \cup {Nil}
  /\ cpc \in {"open", "locking", "draining", "compress", "done"}
  /\ closeErr \in BOOLEAN
  /\ step \in {"none", "copy", "removeOld", "rename", "removeBlob"}
  /\ containerIndex \in Containers \cup {0}
  /\ currentFile \in {"none", "open", "closed"}
  /\ currentOffset \in 0 .. MaxContainerSize
  /\ faults \in 0 .. MaxFaults
  /\ crashes \in 0 .. MaxCrashes
  /\ acked \subseteq Ack
  /\ owner \in [Containers -> Sessions \cup {0}]
  /\ spoiled \subseteq Containers

(* An address handed to a worker reads back its chunk at any later moment, *)
(* in the middle of a compression, after a failed one and after a crash    *)
(* too, as long as no other session has opened the container and its       *)
(* tenant has counted its bytes right (ReadChunkFromContainer).            *)
AcksReadable ==
  \A a \in acked :
    a.sess = owner[a.cont] /\ a.cont \notin spoiled => Readable(a)

(* The same for the chunks of every session: "Metadata path|offset|size    *)
(* must be preserved exactly for retrieval".                               *)
EveryAckReadable == \A a \in acked : Readable(a)

(* Close never closes the queue under a worker about to send to it, which  *)
(* would panic: that is what acceptMu is for.                              *)
NoSendOnClosedQueue == closed => \A w \in Workers : pc[w] # "sending"

(* Once the writer goroutine is gone no call is left without its reply:    *)
(* "in-flight queued writes complete before finalization".                 *)
DrainedAtExit ==
  wpc = "exited" =>
    /\ writeQueue = <<>>
    /\ \A w \in Workers : pc[w] = "waiting" => reply[w] # Nil

(* A container never outgrows MaxContainerSize, short of a leftover one.   *)
SizeBound ==
  \A i \in Containers \ spoiled :
    blob[i] # Nil => blob[i].len <= MaxContainerSize

(* A Close that reports no error leaves each container of its session in   *)
(* its compressed form alone.                                              *)
CleanCloseCompresses ==
  cpc = "done" /\ ~closeErr =>
    \A i \in Containers :
      session > 0 /\ owner[i] = session => blob[i] = Nil /\ zst[i] # Nil

(* A chunk that can be read stays readable whatever rollover, compression, *)
(* failure or crash comes: only a session that opens the container anew    *)
(* can take it away.                                                       *)
OnlyReopeningLoses ==
  [][\A a \in acked :
       Readable(a) /\ ~Readable(a)' => owner'[a.cont] # owner[a.cont]]_vars

(* Every call of WriteChunkToContainer gets its reply, whatever fails and  *)
(* whenever Close comes, unless the process dies.                          *)
EveryCallReturns ==
  \A w \in Workers :
    pc[w] \in {"sending", "waiting"} ~> reply[w] # Nil \/ crashes > 0

(* Close waits for the lock, the writer and the compression, and returns.  *)
CloseReturns == cpc = "locking" ~> ~running

-----------------------------------------------------------------------------
(* The files, seen through resolveContainerPath, are the logs of ChunkLog. *)
Log == INSTANCE ChunkLog WITH
         contents <- [i \in Containers |-> Contents(i)],
         tenant <- owner

(* Queueing, rollover, compression, failures and crashes are invisible to  *)
(* whoever reads the containers.                                           *)
ImplementsLog == Log!Spec
=============================================================================
