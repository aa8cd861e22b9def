-------------------------- MODULE ContainerProofs --------------------------
(***************************************************************************)
(* Safety of the container manager, for any number of workers, chunks,     *)
(* containers, sessions, faults and crashes.                               *)
(***************************************************************************)
EXTENDS Container, TLAPS

Busy == wpc \in {"create", "roll", "compress", "write"}

Pending(w) == pc[w] = "waiting" /\ reply[w] = Nil /\ arg[w] \in Chunks

(* A call without a reply is either once in the queue or at hand.          *)
Requests ==
  /\ \A w \in Workers :
       /\ pc[w] \in {"start", "sending"} => reply[w] = Nil
       /\ pc[w] = "sending" => arg[w] \in Chunks
       /\ pc[w] = "waiting" /\ reply[w] = Nil =>
            (\E k \in 1 .. Len(writeQueue) : writeQueue[k] = w) \/ (Busy /\ wreq = w)
  /\ \A j \in 1 .. Len(writeQueue) :
       /\ Pending(writeQueue[j])
       /\ \A k \in 1 .. Len(writeQueue) : writeQueue[j] = writeQueue[k] => j = k
  /\ Busy =>
       /\ wreq \in Workers
       /\ Pending(wreq)
       /\ \A k \in 1 .. Len(writeQueue) : writeQueue[k] # wreq

(* Where the writer and Close can be together, and when there is a file.   *)
Phases ==
  /\ wpc \in {"roll", "write"} => currentFile # "none"
  /\ wpc = "create" => currentFile # "open"
  /\ Compressing => step # "none" /\ currentFile = "closed"
  /\ cpc = "compress" => wpc = "exited"
  /\ currentFile # "none" => containerIndex \in Containers
  /\ wpc = "exited" => closed /\ writeQueue = <<>>
  /\ closed => cpc \notin {"open", "locking"}
  /\ NoSendOnClosedQueue

(* The open container belongs to this session, and its length is known to  *)
(* the manager unless it is spoiled.                                       *)
OpenFile ==
  currentFile = "open" =>
    /\ blob[containerIndex] # Nil
    /\ owner[containerIndex] = session
    /\ containerIndex \notin spoiled => blob[containerIndex].len = currentOffset
    /\ wpc = "write" => Fits(arg[wreq])

(* At each step of compressContainer the data is in a file a reader finds. *)
CompressSteps ==
  Compressing =>
    /\ blob[containerIndex] # Nil
    /\ step \in {"removeOld", "rename"} => tmp[containerIndex] = blob[containerIndex]
    /\ step = "removeBlob" => zst[containerIndex] = blob[containerIndex]

(* A container of this session has an index this session has reached.      *)
Tenancy ==
  /\ running => session # 0
  /\ \A i \in Containers :
       /\ owner[i] <= session
       /\ owner[i] = session /\ session # 0 => i <= containerIndex

(* An address is good from the moment the writer sends it.                 *)
Good(a) == a.cont \notin spoiled => Readable(a)

Addresses ==
  /\ \A a \in acked :
       /\ a.sess <= session
       /\ a.sess = session => a.cont <= containerIndex
       /\ a.sess = owner[a.cont] => Good(a)
  /\ \A w \in Workers :
       reply[w] \in Ack =>
         /\ reply[w].sess = session
         /\ reply[w].cont <= containerIndex
         /\ reply[w].sess = owner[reply[w].cont]
         /\ Good(reply[w])

IInv ==
  /\ TypeOK
  /\ Requests
  /\ Phases
  /\ OpenFile
  /\ CompressSteps
  /\ Tenancy
  /\ SizeBound
  /\ Addresses

-----------------------------------------------------------------------------
Booleans == running \in BOOLEAN /\ closed \in BOOLEAN /\ closeErr \in BOOLEAN

(* The flags stay Boolean.                                                 *)
LEMMA BooleansStep == Booleans /\ [Next]_vars => Booleans'
<1> SUFFICES ASSUME Booleans, [Next]_vars
             PROVE  Booleans'
  OBVIOUS
<1> USE DEF Booleans
<1>1. CASE NewContainerManager
  BY <1>1, Zenon DEF NewContainerManager
<1>2. CASE Crash
  BY <1>2, Zenon DEF Crash
<1>3. ASSUME NEW w \in Workers, WorkerStep(w) PROVE Booleans'
  BY <1>3, Zenon DEF WorkerStep, Submit, Refused, Enqueue, Receive, WorkerFails
<1>4. CASE Writer
  BY <1>4, Zenon DEF Writer, Dequeue, RollOver, RollOverFails, OpenContainer,
                     OpenFails, WriteChunk, WriteFails, WriterExit
<1>5. CASE Compress
  BY <1>5, Zenon DEF Compress, CompressCopy, CompressRemoveOld, CompressRename,
                     CompressRemoveBlob, CompressFails, CloseFailed
<1>6. CASE Closing
  BY <1>6, Zenon DEF Closing, Close, CloseQueue, Finalize, FinalizeFails,
                     CloseFailed, Return
<1>7. CASE UNCHANGED vars
  BY <1>7, Zenon DEF vars
<1> QED
  BY <1>1, <1>2, <1>3, <1>4, <1>5, <1>6, <1>7 DEF Next, AllSessionsOver

(* A reply of the right type keeps the types of the request variables.     *)
LEMMA RespondType ==
  ASSUME TypeOK, NEW r \in Ack \cup {Nil, Err}, Respond(r)
  PROVE  /\ reply' \in [Workers -> Ack \cup {Nil, Err}]
         /\ wreq' = Nil
         /\ wpc' = "recv"
BY DEF TypeOK, Respond

(* The address doWrite reports.                                            *)
Reply == [cont |-> containerIndex, off |-> currentOffset, chunk |-> arg[wreq],
          sess |-> session]

(* What the writer knows when it appends a chunk.                          *)
LEMMA WriteChunkFacts ==
  ASSUME IInv, WriteChunk
  PROVE  /\ arg[wreq] \in Chunks
         /\ Size[arg[wreq]] \in 1 .. MaxContainerSize
         /\ containerIndex \in Containers
         /\ blob[containerIndex] \in File
         /\ currentOffset + Size[arg[wreq]] <= MaxContainerSize
         /\ Reply \in Ack
<1> USE SizeAssumption DEF IInv, TypeOK, SizeAssumption
<1>1. arg[wreq] \in Chunks /\ Size[arg[wreq]] \in 1 .. MaxContainerSize
  BY DEF WriteChunk, Requests, Busy, Pending
<1>2. containerIndex \in Containers /\ blob[containerIndex] \in File
  BY DEF WriteChunk, Phases, OpenFile
<1>3. currentOffset + Size[arg[wreq]] <= MaxContainerSize
  BY DEF WriteChunk, OpenFile, Fits
<1>4. session \in Sessions /\ currentOffset \in Nat
  BY DEF WriteChunk, Tenancy
<1>5. Reply \in Ack
  BY <1>1, <1>2, <1>4 DEF Reply, Ack
<1> QED
  BY <1>1, <1>2, <1>3, <1>5

(* Every action keeps the variables in their types.                        *)
LEMMA TypeStep == IInv /\ [Next]_vars => TypeOK'
<1> SUFFICES ASSUME IInv, [Next]_vars
             PROVE  TypeOK'
  OBVIOUS
<1>0. Booleans'
  BY BooleansStep DEF IInv, TypeOK, Booleans
<1> USE <1>0, BoundsAssumption, SizeAssumption
<1> USE DEF Booleans, IInv, TypeOK, Containers, Sessions, BoundsAssumption, SizeAssumption
<1>1. CASE NewContainerManager
  BY <1>1 DEF NewContainerManager, files, callers, manager, history
<1>2. CASE Crash
  BY <1>2 DEF Crash, files, callers, manager, history
<1>3. ASSUME NEW w \in Workers, NEW c \in Chunks, Submit(w, c) PROVE TypeOK'
  BY <1>3 DEF Submit, files, callers, manager, history
<1>4. ASSUME NEW w \in Workers, Refused(w) PROVE TypeOK'
  BY <1>4 DEF Refused, files, callers, manager, history
<1>5. ASSUME NEW w \in Workers, Enqueue(w) PROVE TypeOK'
  BY <1>5 DEF Enqueue, files, callers, manager, history
<1>6. ASSUME NEW w \in Workers, Receive(w) PROVE TypeOK'
  <2>1. acked' \subseteq Ack
    BY <1>6 DEF Receive
  <2>2. pc' \in [Workers -> {"start", "sending", "waiting", "done", "failed"}]
    BY <1>6 DEF Receive
  <2> QED
    BY <1>6, <2>1, <2>2 DEF Receive, files, manager
<1>7. ASSUME NEW w \in Workers, WorkerFails(w) PROVE TypeOK'
  BY <1>7 DEF WorkerFails, Fault, files, callers, manager, history
<1>8. CASE Dequeue
  BY <1>8 DEF Dequeue, Phases, Requests, files, callers, manager, history
<1>9. CASE RollOver
  BY <1>9 DEF RollOver, files, callers, manager, history
<1>10. CASE RollOverFails
  BY <1>10, RespondType DEF RollOverFails, Fault, files, history
<1>11. CASE OpenContainer
  BY <1>11 DEF OpenContainer, StartOffset, File, EmptyFile, files, callers,
     manager, history
<1>12. CASE OpenFails
  BY <1>12, RespondType DEF OpenFails, Fault, files, history
<1>13. CASE WriteChunk
  <2> DEFINE c == arg[wreq]
  <2>1. /\ c \in Chunks /\ Size[c] \in 1 .. MaxContainerSize
        /\ containerIndex \in Containers
        /\ blob[containerIndex] \in File
        /\ currentOffset + Size[c] <= MaxContainerSize
        /\ Reply \in Ack
    BY <1>13, WriteChunkFacts
  <2>5. /\ reply' \in [Workers -> Ack \cup {Nil, Err}]
        /\ wreq' = Nil
        /\ wpc' = "recv"
    BY <1>13, <2>1, RespondType DEF WriteChunk, Reply
  <2>6. blob' \in [Containers -> File \cup {Nil}]
    <3> DEFINE f == blob[containerIndex]
               g == [len |-> f.len + Size[c], ext |-> f.ext \cup {<<f.len, c>>}]
    <3>1. f.len \in Nat /\ f.ext \subseteq Nat \X Chunks /\ Size[c] \in Nat
      BY <2>1 DEF File
    <3>2. g \in File
      BY <2>1, <3>1 DEF File
    <3>3. blob' = [blob EXCEPT ![containerIndex] = g]
      BY <1>13 DEF WriteChunk
    <3> HIDE DEF c, g, IInv, Containers
    <3>4. blob \in [Containers -> File \cup {Nil}]
      BY DEF IInv
    <3> QED
      BY <3>2, <3>3, <3>4
  <2>7. currentOffset' \in 0 .. MaxContainerSize
    BY <1>13, <2>1 DEF WriteChunk
  <2>8. UNCHANGED <<zst, tmp, session, running, pc, arg, writeQueue, closed, cpc,
                    closeErr, step, containerIndex, currentFile, faults, crashes,
                    history>>
    BY <1>13 DEF WriteChunk
  <2>9. TypeOK
    OBVIOUS
  <2> HIDE <1>0, BoundsAssumption, SizeAssumption
  <2> HIDE DEF IInv, Containers, Sessions, BoundsAssumption, SizeAssumption
  <2> QED
    BY <2>5, <2>6, <2>7, <2>8, <2>9 DEF history
<1>14. CASE WriteFails
  <2>1. blob' \in [Containers -> File \cup {Nil}]
    <3>1. CASE currentFile = "closed"
      BY <1>14, <3>1 DEF WriteFails
    <3>2. CASE currentFile = "open"
      <4> DEFINE f(k) == [len |-> blob[containerIndex].len + k,
                          ext |-> blob[containerIndex].ext]
      <4>1. PICK k \in 0 .. Size[arg[wreq]] - 1 :
              blob' = [blob EXCEPT ![containerIndex] = f(k)]
        BY <1>14, <3>2 DEF WriteFails
      <4>2. Size[arg[wreq]] \in Nat /\ blob[containerIndex] \in File
        BY <1>14, <3>2 DEF WriteFails, Phases, OpenFile, Requests, Busy,
           Pending
      <4>3. k \in Nat
        BY <4>2
      <4>4. f(k) \in File
        BY <4>2, <4>3 DEF File
      <4> HIDE DEF f
      <4> QED
        BY <4>1, <4>4
    <3> QED
      BY <1>14, <3>1, <3>2 DEF WriteFails
  <2>2. spoiled' \subseteq Containers
    BY <1>14 DEF WriteFails, Phases
  <2>3. faults' \in 0 .. MaxFaults
    BY <1>14 DEF WriteFails, Fault
  <2>4. /\ reply' \in [Workers -> Ack \cup {Nil, Err}]
        /\ wreq' = Nil
        /\ wpc' = "recv"
    BY <1>14, RespondType DEF WriteFails
  <2> QED
    BY <1>14, <2>1, <2>2, <2>3, <2>4 DEF WriteFails, manager
<1>15. CASE WriterExit
  BY <1>15 DEF WriterExit, files, callers, manager, history
<1>16. CASE CompressCopy
  BY <1>16 DEF CompressCopy, File, Phases, Requests, files, callers, manager,
     history
<1>17. CASE CompressRemoveOld
  BY <1>17 DEF CompressRemoveOld, Phases, Requests, files, callers, manager,
     history
<1>18. CASE CompressRename
  BY <1>18 DEF CompressRename, Phases, Requests, files, callers, manager,
     history
<1>19. CASE CompressRemoveBlob
  BY <1>19 DEF CompressRemoveBlob, Phases, Requests, files, callers, manager,
     history
<1>20. CASE CompressFails
  <2>1. tmp' \in [Containers -> File \cup {Nil}]
    BY <1>20 DEF CompressFails
  <2>2. CASE wpc = "compress"
    BY <1>20, <2>1, <2>2, RespondType DEF CompressFails, Fault, manager,
       history
  <2>3. CASE wpc # "compress"
    BY <1>20, <2>1, <2>3 DEF CompressFails, Fault, manager, history
  <2> QED
    BY <2>2, <2>3
<1>21. CASE Close
  BY <1>21 DEF Close, files, callers, manager, history
<1>22. CASE CloseQueue
  BY <1>22 DEF CloseQueue, files, callers, manager, history
<1>23. CASE Finalize
  BY <1>23 DEF Finalize, files, callers, manager, history
<1>24. CASE FinalizeFails
  BY <1>24 DEF FinalizeFails, Fault, files, callers, manager, history
<1>25. CASE Return
  BY <1>25 DEF Return, files, callers, manager, history
<1>26. CASE UNCHANGED vars
  BY <1>26 DEF vars, files, callers, manager, history
<1> QED
  BY <1>1, <1>2, <1>3, <1>4, <1>5, <1>6, <1>7, <1>8, <1>9, <1>10, <1>11, <1>12,
     <1>13, <1>14, <1>15, <1>16, <1>17, <1>18, <1>19, <1>20, <1>21, <1>22,
     <1>23, <1>24, <1>25, <1>26
     DEF Next, WorkerStep, Writer, Compress, Closing, AllSessionsOver

(* A call keeps its chunk and its place until its reply is sent.           *)
LEMMA RequestsStep == IInv /\ [Next]_vars => Requests'
<1> SUFFICES ASSUME IInv, [Next]_vars
             PROVE  Requests'
  OBVIOUS
<1> USE NilAssumption
<1> USE DEF IInv, TypeOK, Requests, Busy, Pending
<1>1. CASE NewContainerManager
  BY <1>1, NilAssumption DEF NewContainerManager
<1>2. CASE Crash
  BY <1>2 DEF Crash, callers
<1>3. ASSUME NEW w \in Workers, NEW c \in Chunks, Submit(w, c) PROVE Requests'
  BY <1>3 DEF Submit
<1>4. ASSUME NEW w \in Workers, Enqueue(w) PROVE Requests'
  BY <1>4 DEF Enqueue
<1>5. ASSUME NEW w \in Workers, Refused(w) PROVE Requests'
  BY <1>5 DEF Refused
<1>6. ASSUME NEW w \in Workers, Receive(w) PROVE Requests'
  BY <1>6 DEF Receive
<1>7. ASSUME NEW w \in Workers, WorkerFails(w) PROVE Requests'
  BY <1>7 DEF WorkerFails
<1>8. CASE Dequeue
  <2> DEFINE q == writeQueue
             P(w) == pc'[w] = "waiting" /\ reply'[w] = Nil /\ arg'[w] \in Chunks
  <2>1. /\ q \in Seq(Workers) /\ Len(q) \in Nat \ {0}
        /\ wreq' = q[1] /\ Len(writeQueue') = Len(q) - 1
        /\ \A k \in 1 .. Len(q) - 1 : writeQueue'[k] = q[k + 1]
        /\ Busy' /\ ~Busy
    BY <1>8 DEF Dequeue
  <2>2. \A j, k \in 1 .. Len(q) : q[j] = q[k] => j = k
    OBVIOUS
  <2>3. \A j \in 1 .. Len(q) : q[j] \in Workers /\ Pending(q[j])
    BY <2>1
  <2>4. UNCHANGED <<pc, arg, reply>>
    BY <1>8 DEF Dequeue, callers
  <2> HIDE DEF q, Busy
  <2>5. \A w \in Workers :
          (\E k \in 1 .. Len(q) : q[k] = w) =>
            (\E k \in 1 .. Len(q) - 1 : writeQueue'[k] = w) \/ wreq' = w
    <3> SUFFICES ASSUME NEW k \in 1 .. Len(q)
                 PROVE  (\E j \in 1 .. Len(q) - 1 : writeQueue'[j] = q[k])
                          \/ wreq' = q[k]
      OBVIOUS
    <3>1. CASE k = 1
      BY <2>1, <3>1
    <3>2. CASE k # 1
      <4>1. k - 1 \in 1 .. Len(q) - 1
        BY <2>1, <3>2
      <4>2. writeQueue'[k - 1] = q[k]
        BY <2>1, <4>1
      <4> QED
        BY <4>1, <4>2
    <3> QED
      BY <3>1, <3>2
  <2>6. \A j, k \in 1 .. Len(writeQueue') :
          writeQueue'[j] = writeQueue'[k] => j = k
    <3> SUFFICES ASSUME NEW j \in 1 .. Len(q) - 1, NEW k \in 1 .. Len(q) - 1,
                        q[j + 1] = q[k + 1]
                 PROVE  j = k
      BY <2>1
    <3>1. j + 1 \in 1 .. Len(q) /\ k + 1 \in 1 .. Len(q)
      BY <2>1
    <3> QED
      BY <2>2, <3>1
  <2>7. \A k \in 1 .. Len(writeQueue') :
          writeQueue'[k] # wreq' /\ P(writeQueue'[k])
    <3> SUFFICES ASSUME NEW k \in 1 .. Len(q) - 1
                 PROVE  q[k + 1] # q[1] /\ P(q[k + 1])
      BY <2>1
    <3>1. k + 1 \in 1 .. Len(q) /\ 1 \in 1 .. Len(q) /\ k + 1 # 1
      BY <2>1
    <3> QED
      BY <2>2, <2>3, <2>4, <3>1
  <2>8. wreq' \in Workers /\ P(wreq')
    BY <2>1, <2>3, <2>4
  <2>9. \A w \in Workers :
          /\ pc'[w] \in {"start", "sending"} => reply'[w] = Nil
          /\ pc'[w] = "sending" => arg'[w] \in Chunks
          /\ pc'[w] = "waiting" /\ reply'[w] = Nil =>
               (\E k \in 1 .. Len(writeQueue') : writeQueue'[k] = w) \/ wreq' = w
    BY <2>1, <2>4, <2>5 DEF q, Busy
  <2> QED
    BY <2>1, <2>6, <2>7, <2>8, <2>9
<1>9. CASE RollOver
  BY <1>9 DEF RollOver, callers
<1>10. CASE OpenContainer
  BY <1>10 DEF OpenContainer, callers
<1>11. ASSUME NEW r, r # Nil, Busy, Respond(r), UNCHANGED <<pc, arg, writeQueue>>
       PROVE  Requests'
  BY <1>11 DEF Respond
<1>12. CASE WriterExit
  BY <1>12 DEF WriterExit, callers
<1>13. CASE CompressCopy \/ CompressRemoveOld \/ CompressRename \/ CompressRemoveBlob
  BY <1>13 DEF CompressCopy, CompressRemoveOld, CompressRename,
               CompressRemoveBlob, callers
<1>14. CASE CompressFails
  BY <1>11, <1>14 DEF CompressFails, callers
<1>15. CASE RollOverFails \/ OpenFails \/ WriteFails
  BY <1>11, <1>15 DEF RollOverFails, OpenFails, WriteFails
<1>18. CASE WriteChunk
  <2>1. Reply # Nil
    BY <1>18, WriteChunkFacts
  <2> QED
    BY <1>11, <1>18, <2>1 DEF WriteChunk, Reply
<1>16. CASE Closing
  BY <1>16 DEF Closing, Close, CloseQueue, Finalize, FinalizeFails,
     CloseFailed, Return,
               callers
<1>17. CASE UNCHANGED vars
  BY <1>17 DEF vars, callers
<1> QED
  BY <1>1, <1>2, <1>3, <1>4, <1>5, <1>6, <1>7, <1>8, <1>9, <1>10, <1>12, <1>13,
     <1>14, <1>15, <1>16, <1>17, <1>18
     DEF Next, WorkerStep, Writer, Compress, Closing, AllSessionsOver

(* The writer and Close never compress together. *)
LEMMA PhasesStep == IInv /\ [Next]_vars => Phases'
<1> SUFFICES ASSUME IInv, [Next]_vars
             PROVE  Phases'
  OBVIOUS
<1> USE BoundsAssumption
<1> USE DEF IInv, TypeOK, Phases, Compressing, NoSendOnClosedQueue,
        Requests, Busy, BoundsAssumption
<1>1. CASE NewContainerManager
  BY <1>1 DEF NewContainerManager
<1>2. CASE Crash
  BY <1>2 DEF Crash, callers, manager
<1>3. ASSUME NEW w \in Workers, WorkerStep(w) PROVE Phases'
  BY <1>3 DEF WorkerStep, Submit, Refused, Enqueue, Receive, WorkerFails,
     manager
<1>4. CASE Dequeue
  BY <1>4 DEF Dequeue, callers, manager
<1>5. CASE RollOver
  BY <1>5 DEF RollOver, callers
<1>6. CASE RollOverFails
  BY <1>6 DEF RollOverFails, Respond
<1>7. CASE OpenContainer
  BY <1>7 DEF OpenContainer, callers, Containers
<1>8. CASE OpenFails
  BY <1>8 DEF OpenFails, Respond, Containers
<1>9. CASE WriteChunk \/ WriteFails
  BY <1>9 DEF WriteChunk, WriteFails, Respond, manager
<1>10. CASE WriterExit
  BY <1>10 DEF WriterExit, NothingQueued, callers, manager
<1>11. CASE Compress
  BY <1>11 DEF Compress, CompressCopy, CompressRemoveOld, CompressRename,
     CompressRemoveBlob, CompressFails, Compressing, Respond, callers, manager
<1>12. CASE Closing
  BY <1>12 DEF Closing, Close, CloseQueue, ReadersGone, Finalize,
     FinalizeFails,
               Return, callers, manager
<1>13. CASE UNCHANGED vars
  BY <1>13 DEF vars, callers, manager
<1> QED
  BY <1>1, <1>2, <1>3, <1>4, <1>5, <1>6, <1>7, <1>8, <1>9, <1>10, <1>11, <1>12,
     <1>13
     DEF Next, WorkerStep, Writer, Compress, Closing, AllSessionsOver

(* The manager knows the length of the container it writes. *)
LEMMA OpenFileStep == IInv /\ [Next]_vars => OpenFile'
<1> SUFFICES ASSUME IInv, [Next]_vars
             PROVE  OpenFile'
  OBVIOUS
<1> USE BoundsAssumption, SizeAssumption, NilAssumption, TypeStep
<1> USE DEF IInv, TypeOK, Requests, Busy, Pending, Compressing, Phases, OpenFile, Fits,
           BoundsAssumption, SizeAssumption, NilAssumption, File
<1>1. CASE NewContainerManager
  BY <1>1 DEF NewContainerManager
<1>2. CASE Crash
  BY <1>2 DEF Crash, callers, manager, files, history
<1>3. ASSUME NEW w \in Workers, WorkerStep(w) PROVE OpenFile'
  BY <1>3 DEF WorkerStep, Submit, Refused, Enqueue, Receive, WorkerFails,
     files, manager, history
<1>4. CASE Dequeue
  BY <1>4 DEF Dequeue, callers, manager, files, history
<1>5. CASE RollOver
  BY <1>5 DEF RollOver
<1>6. CASE RollOverFails
  BY <1>6 DEF RollOverFails, Respond, files, history
<1>7. CASE OpenContainer
  BY <1>7 DEF OpenContainer, StartOffset, callers, EmptyFile
<1>8. CASE OpenFails
  BY <1>8 DEF OpenFails, Respond
<1>9. CASE WriteChunk
  <2>1. wpc' = "recv" /\ currentFile = "open"
    BY <1>9 DEF WriteChunk, Respond
  <2>2. blob[containerIndex] # Nil /\ blob[containerIndex] \in File
        /\ (containerIndex \notin spoiled => blob[containerIndex].len = currentOffset)
    BY <1>9, <2>1, WriteChunkFacts
  <2>3. containerIndex \in Containers /\ blob \in [Containers -> File \cup {Nil}]
    BY <1>9, WriteChunkFacts
  <2> HIDE BoundsAssumption, SizeAssumption, NilAssumption, TypeStep
  <2> HIDE DEF IInv, TypeOK, Requests, Busy, Pending, Compressing, Phases, Fits, File,
               Containers
  <2>4. owner[containerIndex] = session
    BY <2>1 DEF IInv, OpenFile
  <2>5. /\ blob'[containerIndex] =
             [len |-> blob[containerIndex].len + Size[arg[wreq]],
              ext |-> blob[containerIndex].ext
                        \cup {<<blob[containerIndex].len, arg[wreq]>>}]
        /\ currentOffset' = currentOffset + Size[arg[wreq]]
        /\ containerIndex' = containerIndex /\ spoiled' = spoiled
        /\ owner' = owner /\ session' = session
    BY <1>9, <2>3 DEF WriteChunk, history
  <2>6. blob'[containerIndex] \in File
    BY <1>9, <2>2, <2>5, WriteChunkFacts, SizeAssumption DEF File
  <2>7. blob'[containerIndex] # Nil
    BY <2>6, NilAssumption
  <2> QED
    BY <2>1, <2>2, <2>4, <2>5, <2>7
<1>10. CASE WriteFails
  BY <1>10 DEF WriteFails, Respond, manager
<1>11. CASE WriterExit
  BY <1>11 DEF WriterExit, callers, manager, files, history
<1>12. CASE Compress
  BY <1>12 DEF Compress, CompressCopy, CompressRemoveOld, CompressRename,
     CompressRemoveBlob, CompressFails, Compressing, Respond, callers, manager,
     history
<1>13. CASE Closing
  BY <1>13 DEF Closing, Close, CloseQueue, Finalize, FinalizeFails,
     CloseFailed, Return, callers, manager, files, history
<1>14. CASE UNCHANGED vars
  BY <1>14 DEF vars, callers, manager, files, history
<1> QED
  BY <1>1, <1>2, <1>3, <1>4, <1>5, <1>6, <1>7, <1>8, <1>9, <1>10, <1>11, <1>12,
     <1>13, <1>14
     DEF Next, WorkerStep, Writer, Compress, Closing, AllSessionsOver

(* The data of a container is never in a temporary file alone.             *)
LEMMA CompressStepsStep == IInv /\ [Next]_vars => CompressSteps'
<1> SUFFICES ASSUME IInv, [Next]_vars
             PROVE  CompressSteps'
  OBVIOUS
<1> USE DEF IInv, TypeOK, Phases, OpenFile, Compressing, CompressSteps
<1>1. CASE NewContainerManager
  BY <1>1 DEF NewContainerManager
<1>2. CASE Crash
  BY <1>2 DEF Crash, files, manager
<1>3. ASSUME NEW w \in Workers, WorkerStep(w) PROVE CompressSteps'
  BY <1>3 DEF WorkerStep, Submit, Refused, Enqueue, Receive, WorkerFails,
     files, manager
<1>4. CASE Dequeue \/ WriterExit
  BY <1>4 DEF Dequeue, WriterExit, files, manager
<1>5. CASE RollOver
  BY <1>5 DEF RollOver, files
<1>6. CASE RollOverFails \/ OpenFails \/ WriteChunk \/ WriteFails
  BY <1>6 DEF RollOverFails, OpenFails, WriteChunk, WriteFails, Respond
<1>7. CASE OpenContainer
  BY <1>7 DEF OpenContainer
<1>8. CASE CompressCopy
  BY <1>8 DEF CompressCopy, manager
<1>9. CASE CompressRemoveOld
  BY <1>9 DEF CompressRemoveOld, manager
<1>10. CASE CompressRename
  BY <1>10 DEF CompressRename, manager
<1>11. CASE CompressRemoveBlob
  BY <1>11 DEF CompressRemoveBlob, manager
<1>12. CASE CompressFails
  BY <1>12 DEF CompressFails, Respond
<1>13. CASE Closing
  BY <1>13 DEF Closing, Close, CloseQueue, Finalize, FinalizeFails,
     CloseFailed, Return, files, manager
<1>14. CASE UNCHANGED vars
  BY <1>14 DEF vars, files, manager
<1> QED
  BY <1>1, <1>2, <1>3, <1>4, <1>5, <1>6, <1>7, <1>8, <1>9, <1>10, <1>11, <1>12,
     <1>13, <1>14
     DEF Next, WorkerStep, Writer, Compress, Closing, AllSessionsOver

(* Only this session can be the tenant of what it opens.                    *)
LEMMA TenancyStep == IInv /\ [Next]_vars => Tenancy'
<1> SUFFICES ASSUME IInv, [Next]_vars
             PROVE  Tenancy'
  OBVIOUS
<1> USE BoundsAssumption
<1> USE DEF IInv, TypeOK, Tenancy, Containers, Sessions, BoundsAssumption
<1>1. CASE NewContainerManager
  <2>1. session' = session + 1 /\ owner' = owner /\ session \in Nat
    BY <1>1 DEF NewContainerManager, history
  <2>2. owner \in [Containers -> Sessions \cup {0}]
    OBVIOUS
  <2>3. \A i \in Containers : owner[i] <= session
    OBVIOUS
  <2>4. \A i \in Containers : owner[i] \in Nat
    <3> HIDE DEF IInv, TypeOK, Tenancy, Containers
    <3> QED
      BY <2>2
  <2> HIDE DEF IInv, TypeOK, Containers
  <2> QED
    BY <1>1, <2>1, <2>3, <2>4 DEF NewContainerManager
<1>2. CASE Crash
  BY <1>2 DEF Crash, manager, history
<1>3. ASSUME NEW w \in Workers, WorkerStep(w) PROVE Tenancy'
  BY <1>3 DEF WorkerStep, Submit, Refused, Enqueue, Receive, WorkerFails,
     manager, history
<1>4. CASE OpenContainer
  BY <1>4 DEF OpenContainer
<1>5. CASE OpenFails
  BY <1>5 DEF OpenFails, history
<1>6. CASE Dequeue \/ WriterExit \/ RollOver
  BY <1>6 DEF Dequeue, WriterExit, RollOver, manager, history
<1>7. CASE RollOverFails \/ WriteChunk \/ WriteFails
  BY <1>7 DEF RollOverFails, WriteChunk, WriteFails, manager, history
<1>8. CASE Compress
  BY <1>8 DEF Compress, CompressCopy, CompressRemoveOld, CompressRename,
     CompressRemoveBlob, CompressFails, manager, history
<1>9. CASE Closing
  BY <1>9 DEF Closing, Close, CloseQueue, Finalize, FinalizeFails, CloseFailed,
     Return, manager, history
<1>10. CASE UNCHANGED vars
  BY <1>10 DEF vars, manager, history
<1> QED
  BY <1>1, <1>2, <1>3, <1>4, <1>5, <1>6, <1>7, <1>8, <1>9, <1>10
     DEF Next, WorkerStep, Writer, Compress, Closing, AllSessionsOver

(* A container the manager counts right stays within its bound.             *)
LEMMA SizeBoundStep == IInv /\ [Next]_vars => SizeBound'
<1> SUFFICES ASSUME IInv, [Next]_vars
             PROVE  SizeBound'
  OBVIOUS
<1> USE SizeAssumption, NilAssumption
<1> USE DEF IInv, TypeOK, Phases, OpenFile, Fits, SizeBound, SizeAssumption,
        NilAssumption
<1>1. CASE NewContainerManager
  BY <1>1 DEF NewContainerManager, files, history
<1>2. CASE Crash
  BY <1>2 DEF Crash, files, history
<1>3. ASSUME NEW w \in Workers, WorkerStep(w) PROVE SizeBound'
  BY <1>3 DEF WorkerStep, Submit, Refused, Enqueue, Receive, WorkerFails,
     files, history
<1>4. CASE OpenContainer
  BY <1>4 DEF OpenContainer, EmptyFile
<1>5. CASE WriteChunk
  BY <1>5 DEF WriteChunk, history, File
<1>6. CASE WriteFails
  BY <1>6 DEF WriteFails, File
<1>7. CASE Dequeue \/ WriterExit \/ RollOver \/ RollOverFails \/ OpenFails
  BY <1>7 DEF Dequeue, WriterExit, RollOver, RollOverFails, OpenFails, files,
     history
<1>8. CASE CompressRemoveBlob
  BY <1>8 DEF CompressRemoveBlob, history
<1>9. CASE CompressCopy \/ CompressRemoveOld \/ CompressRename \/ CompressFails
  BY <1>9 DEF CompressCopy, CompressRemoveOld, CompressRename, CompressFails,
     history
<1>10. CASE Closing
  BY <1>10 DEF Closing, Close, CloseQueue, Finalize, FinalizeFails,
     CloseFailed, Return, files, history
<1>11. CASE UNCHANGED vars
  BY <1>11 DEF vars, files, history
<1> QED
  BY <1>1, <1>2, <1>3, <1>4, <1>5, <1>6, <1>7, <1>8, <1>9, <1>10, <1>11
     DEF Next, WorkerStep, Writer, Compress, Closing, AllSessionsOver

-----------------------------------------------------------------------------
(* What readers find changes only when the writer opens a container or     *)
(* appends a chunk to one: a compression is invisible at every step.       *)
LEMMA ContentsStable ==
  ASSUME IInv, [Next]_vars, ~OpenContainer, ~WriteChunk, NEW i \in Containers
  PROVE  Contents(i)' = Contents(i)
<1> USE DEF IInv, TypeOK, Phases, Compressing, CompressSteps, Contents, Resolve
<1> USE NilAssumption DEF NilAssumption
<1>1. CASE UNCHANGED files
  BY <1>1 DEF files
<1>2. CASE WriteFails
  <2>1. CASE currentFile = "closed"
    BY <1>2, <2>1 DEF WriteFails
  <2>2. CASE currentFile = "open"
    <3> DEFINE f == blob[containerIndex]
               g(k) == [len |-> f.len + k, ext |-> f.ext]
    <3>1. PICK k \in 0 .. Size[arg[wreq]] - 1 :
            blob' = [blob EXCEPT ![containerIndex] = g(k)]
      BY <1>2, <2>2 DEF WriteFails
    <3>2. f \in File /\ Size[arg[wreq]] \in Nat
      BY <1>2, <2>2, SizeAssumption
         DEF WriteFails, OpenFile, Requests, Busy, Pending, SizeAssumption
    <3>3. k \in Nat
      BY <3>2
    <3>4. g(k) \in File /\ g(k).ext = f.ext
      BY <3>2, <3>3 DEF File
    <3> HIDE DEF g
    <3> QED
      BY <1>2, <3>1, <3>2, <3>4 DEF WriteFails
  <2> QED
    BY <1>2, <2>1, <2>2 DEF WriteFails
<1>3. CASE CompressCopy \/ CompressFails
  BY <1>3 DEF CompressCopy, CompressFails
<1>4. CASE CompressRemoveOld
  BY <1>4 DEF CompressRemoveOld
<1>5. CASE CompressRename
  BY <1>5 DEF CompressRename
<1>6. CASE CompressRemoveBlob
  BY <1>6 DEF CompressRemoveBlob
<1>7. ASSUME NEW w \in Workers, WorkerStep(w) PROVE UNCHANGED files
  BY <1>7 DEF WorkerStep, Submit, Refused, Enqueue, Receive, WorkerFails
<1>8. Closing => UNCHANGED files
  BY DEF Closing, Close, CloseQueue, Finalize, FinalizeFails, CloseFailed,
     Return
<1>9. Dequeue \/ RollOver \/ RollOverFails \/ OpenFails \/ WriterExit
         => UNCHANGED files
  BY DEF Dequeue, RollOver, RollOverFails, OpenFails, WriterExit
<1>10. NewContainerManager \/ Crash \/ UNCHANGED vars => UNCHANGED files
  BY DEF NewContainerManager, Crash, vars
<1> QED
  BY <1>1, <1>2, <1>3, <1>4, <1>5, <1>6, <1>7, <1>8, <1>9, <1>10
     DEF Next, Writer, Compress, AllSessionsOver

(* What a reader finds in a container only grows, unless the container is  *)
(* opened anew where no .blob was left.                                    *)
LEMMA ContentsGrow ==
  ASSUME IInv, [Next]_vars, NEW i \in Containers, owner'[i] = owner[i]
  PROVE  Contents(i) \subseteq Contents(i)'
<1> USE DEF IInv, TypeOK, Phases, Compressing, CompressSteps, Contents, Resolve
<1> USE NilAssumption DEF NilAssumption
<1>1. CASE OpenContainer
  <2>1. owner'[containerIndex + 1] = session /\ running
    BY <1>1, BoundsAssumption DEF OpenContainer, Containers, BoundsAssumption
  <2>2. i # containerIndex + 1
    BY <2>1 DEF Tenancy, Containers
  <2> QED
    BY <1>1, <2>2 DEF OpenContainer
<1>2. CASE WriteChunk
  <2> DEFINE f == blob[containerIndex]
             g == [len |-> f.len + Size[arg[wreq]],
                   ext |-> f.ext \cup {<<f.len, arg[wreq]>>}]
  <2>1. f \in File /\ arg[wreq] \in Chunks /\ Size[arg[wreq]] \in Nat
    BY <1>2, WriteChunkFacts
  <2>2. g \in File /\ f.ext \subseteq g.ext
    BY <2>1 DEF File
  <2>3. blob' = [blob EXCEPT ![containerIndex] = g]
    BY <1>2 DEF WriteChunk
  <2> HIDE DEF g
  <2>4. zst' = zst
    BY <1>2 DEF WriteChunk
  <2>5. CASE i = containerIndex
    BY <2>1, <2>2, <2>3, <2>5
  <2>6. CASE i # containerIndex
    BY <2>3, <2>4, <2>6
  <2> QED
    BY <2>5, <2>6
<1>3. CASE ~OpenContainer /\ ~WriteChunk
  BY <1>3, ContentsStable
<1> QED
  BY <1>1, <1>2, <1>3

(* A container changes hands only when this session opens its next one, on *)
(* an index it has not used yet.                                           *)
LEMMA TenantChange ==
  ASSUME IInv, [Next]_vars, NEW i \in Containers
  PROVE  \/ /\ OpenContainer
            /\ i = containerIndex + 1
            /\ owner'[i] = session
            /\ owner[i] # session
         \/ owner'[i] = owner[i] /\ (i \in spoiled => i \in spoiled')
<1> USE DEF IInv, TypeOK
<1>1. CASE OpenContainer
  <2>1. session # 0 /\ containerIndex \in Nat
    BY <1>1 DEF OpenContainer, Tenancy, Containers
  <2>2. owner[i] = session => i <= containerIndex
    BY <2>1 DEF Tenancy
  <2>3. CASE i = containerIndex + 1
    BY <1>1, <2>1, <2>2, <2>3 DEF OpenContainer
  <2>4. CASE i # containerIndex + 1
    BY <1>1, <2>4 DEF OpenContainer
  <2> QED
    BY <2>3, <2>4
<1>2. CASE WriteFails
  BY <1>2 DEF WriteFails
<1>3. ASSUME NEW w \in Workers, WorkerStep(w) PROVE UNCHANGED <<owner, spoiled>>
  BY <1>3 DEF WorkerStep, Submit, Refused, Enqueue, Receive, WorkerFails,
     history
<1>4. Closing => UNCHANGED <<owner, spoiled>>
  BY DEF Closing, Close, CloseQueue, Finalize, FinalizeFails, CloseFailed,
     Return, history
<1>5. Compress => UNCHANGED <<owner, spoiled>>
  BY DEF Compress, CompressCopy, CompressRemoveOld, CompressRename,
         CompressRemoveBlob, CompressFails, history
<1>6. Dequeue \/ RollOver \/ RollOverFails \/ OpenFails \/ WriteChunk \/ WriterExit
        => UNCHANGED <<owner, spoiled>>
  BY DEF Dequeue, RollOver, RollOverFails, OpenFails, WriteChunk, WriterExit,
         history
<1>7. NewContainerManager \/ Crash \/ UNCHANGED vars => UNCHANGED <<owner, spoiled>>
  BY DEF NewContainerManager, Crash, vars, history
<1> QED
  BY <1>1, <1>2, <1>3, <1>4, <1>5, <1>6, <1>7 DEF Next, Writer, AllSessionsOver

(* Within a session the container index only grows.                        *)
LEMMA IndexGrows ==
  ASSUME IInv, [Next]_vars
  PROVE  \/ NewContainerManager
         \/ session' = session /\ containerIndex <= containerIndex'
<1> USE DEF IInv, TypeOK, Containers
<1>1. ASSUME NEW w \in Workers, WorkerStep(w)
      PROVE  session' = session /\ containerIndex' = containerIndex
  BY <1>1 DEF WorkerStep, Submit, Refused, Enqueue, Receive, WorkerFails,
     manager
<1>2. OpenContainer \/ OpenFails =>
        session' = session /\ containerIndex' = containerIndex + 1
  BY DEF OpenContainer, OpenFails
<1>3. Dequeue \/ RollOver \/ RollOverFails \/ WriteChunk \/ WriteFails \/ WriterExit
        => session' = session /\ containerIndex' = containerIndex
  BY DEF Dequeue, RollOver, RollOverFails, WriteChunk, WriteFails, WriterExit,
         manager
<1>4. Compress => session' = session /\ containerIndex' = containerIndex
  BY DEF Compress, CompressCopy, CompressRemoveOld, CompressRename,
         CompressRemoveBlob, CompressFails, manager
<1>5. Closing => session' = session /\ containerIndex' = containerIndex
  BY DEF Closing, Close, CloseQueue, Finalize, FinalizeFails, CloseFailed,
     Return, manager
<1>6. Crash \/ UNCHANGED vars =>
        session' = session /\ containerIndex' = containerIndex
  BY DEF Crash, vars, manager
<1> QED
  BY <1>1, <1>2, <1>3, <1>4, <1>5, <1>6 DEF Next, Writer, AllSessionsOver

(* A good address of the present tenant stays good, and no other becomes   *)
(* an address of the present tenant.                                       *)
LEMMA GoodKept ==
  ASSUME IInv, [Next]_vars, NEW a \in Ack,
         a.sess = session => a.cont <= containerIndex,
         a.sess = owner[a.cont] => Good(a)
  PROVE  a.sess = owner'[a.cont] => Good(a)'
<1>1. a.cont \in Containers /\ a.sess \in Nat
  BY DEF Ack, Sessions
<1>2. CASE owner'[a.cont] = owner[a.cont]
  BY <1>1, <1>2, ContentsGrow, TenantChange DEF Good, Readable
<1>3. CASE owner'[a.cont] # owner[a.cont]
  <2>1. a.cont = containerIndex + 1 /\ owner'[a.cont] = session
    BY <1>1, <1>3, TenantChange
  <2>2. containerIndex \in Nat
    BY DEF IInv, TypeOK, Containers
  <2> QED
    BY <2>1, <2>2
<1> QED
  BY <1>2, <1>3

(* A reply is in its channel already, or it is the one doWrite just sent.  *)
LEMMA ReplySource ==
  ASSUME IInv, [Next]_vars, NEW w \in Workers, reply'[w] \in Ack
  PROVE  \/ reply'[w] = reply[w] /\ ~NewContainerManager
         \/ WriteChunk /\ w = wreq /\ reply'[w] = Reply
<1> USE NilAssumption DEF IInv, TypeOK, NilAssumption
<1>1. ~NewContainerManager
  BY DEF NewContainerManager
<1>2. CASE WriteChunk
  BY <1>1, <1>2 DEF WriteChunk, Respond, Reply
<1>3. CASE Respond(Err)
  BY <1>1, <1>3 DEF Respond
<1>4. CASE UNCHANGED reply
  BY <1>4, <1>1
<1>5. ASSUME NEW v \in Workers, WorkerStep(v) PROVE UNCHANGED reply
  BY <1>5 DEF WorkerStep, Submit, Refused, Enqueue, Receive, WorkerFails
<1>6. Closing => UNCHANGED reply
  BY DEF Closing, Close, CloseQueue, Finalize, FinalizeFails, CloseFailed,
     Return, callers
<1>7. Compress => Respond(Err) \/ UNCHANGED reply
  BY DEF Compress, CompressCopy, CompressRemoveOld, CompressRename,
         CompressRemoveBlob, CompressFails, callers
<1>8. RollOverFails \/ OpenFails \/ WriteFails => Respond(Err)
  BY DEF RollOverFails, OpenFails, WriteFails
<1>9. Dequeue \/ RollOver \/ OpenContainer \/ WriterExit => UNCHANGED reply
  BY DEF Dequeue, RollOver, OpenContainer, WriterExit, callers
<1>10. Crash \/ UNCHANGED vars => UNCHANGED reply
  BY DEF Crash, vars, callers
<1> QED
  BY <1>1, <1>2, <1>3, <1>4, <1>5, <1>6, <1>7, <1>8, <1>9, <1>10
     DEF Next, Writer, AllSessionsOver

(* A metadata address is one that was there, or one a worker now receives. *)
LEMMA AckSource ==
  ASSUME [Next]_vars, NEW a \in acked'
  PROVE  \/ a \in acked
         \/ \E w \in Workers : a = reply[w] /\ reply[w] # Nil /\ reply[w] # Err
<1>1. ASSUME NEW w \in Workers, WorkerStep(w)
      PROVE  \/ a \in acked
             \/ a = reply[w] /\ reply[w] # Nil /\ reply[w] # Err
  BY <1>1 DEF WorkerStep, Submit, Refused, Enqueue, Receive, WorkerFails,
     history
<1>2. Writer => UNCHANGED acked
  BY DEF Writer, Dequeue, RollOver, RollOverFails, OpenContainer, OpenFails,
         WriteChunk, WriteFails, WriterExit, history
<1>3. Compress => UNCHANGED acked
  BY DEF Compress, CompressCopy, CompressRemoveOld, CompressRename,
         CompressRemoveBlob, CompressFails, history
<1>4. Closing => UNCHANGED acked
  BY DEF Closing, Close, CloseQueue, Finalize, FinalizeFails, CloseFailed,
     Return, history
<1>5. NewContainerManager \/ Crash \/ UNCHANGED vars => UNCHANGED acked
  BY DEF NewContainerManager, Crash, vars, history
<1> QED
  BY <1>1, <1>2, <1>3, <1>4, <1>5 DEF Next, AllSessionsOver

-----------------------------------------------------------------------------
(* Every address that is out, or on its way, stays good.                   *)
LEMMA AddressesStep == IInv /\ [Next]_vars => Addresses'
<1> SUFFICES ASSUME IInv, [Next]_vars
             PROVE  Addresses'
  OBVIOUS
<1> DEFINE Out(a) == /\ a.sess <= session
                     /\ a.sess = session => a.cont <= containerIndex
                     /\ a.sess = owner[a.cont] => Good(a)
<1>a. TypeOK /\ TypeOK'
  BY TypeStep DEF IInv
<1>b. session \in Nat /\ containerIndex \in Nat
  BY <1>a DEF TypeOK, Sessions, Containers
<1>c. session' \in Nat /\ containerIndex' \in Nat
  BY <1>a DEF TypeOK, Sessions, Containers
<1>1. TypeOK /\ TypeOK' /\ session \in Nat /\ session' \in Nat
      /\ containerIndex \in Nat /\ containerIndex' \in Nat
  BY <1>a, <1>b, <1>c
<1>2. ASSUME NEW a \in acked'
      PROVE  a \in Ack /\ Out(a)
  <2>1. CASE a \in acked
    BY <1>1, <2>1 DEF IInv, TypeOK, Addresses
  <2>2. ASSUME NEW w \in Workers, a = reply[w], reply[w] # Nil, reply[w] # Err
        PROVE  a \in Ack /\ Out(a)
    <3>1. a \in Ack
      BY <1>1, <2>2 DEF TypeOK
    <3>2. a.sess = session /\ a.cont <= containerIndex /\ Good(a)
      BY <2>2, <3>1 DEF IInv, Addresses
    <3> QED
      BY <1>1, <3>1, <3>2
  <2> QED
    BY <2>1, <2>2, AckSource
<1>3. ASSUME NEW a \in acked'
      PROVE  Out(a)'
  <2>1. a \in Ack /\ Out(a) /\ a.sess \in Nat /\ a.cont \in Nat
    BY <1>2 DEF Ack, Sessions, Containers
  <2>2. a.sess = owner'[a.cont] => Good(a)'
    BY <2>1, GoodKept
  <2>3. CASE NewContainerManager
    <3>1. session' = session + 1
      BY <2>3 DEF NewContainerManager
    <3> QED
      BY <1>1, <2>1, <2>2, <3>1
  <2>4. CASE session' = session /\ containerIndex <= containerIndex'
    BY <1>1, <2>1, <2>2, <2>4
  <2> QED
    BY <2>3, <2>4, IndexGrows
<1>4. ASSUME NEW w \in Workers, NEW a \in Ack, reply'[w] = a
      PROVE  /\ a.sess = session'
             /\ a.cont <= containerIndex'
             /\ a.sess = owner'[a.cont]
             /\ Good(a)'
  <2>1. CASE a = reply[w] /\ ~NewContainerManager
    <3>1. /\ a.cont \in Containers /\ a.cont \in Nat
          /\ a.sess = session /\ a.cont <= containerIndex
          /\ a.sess = owner[a.cont] /\ Good(a)
      BY <2>1 DEF IInv, Addresses, Ack, Containers
    <3>2. session' = session /\ containerIndex <= containerIndex'
      BY <2>1, IndexGrows
    <3>3. owner'[a.cont] = owner[a.cont]
      BY <1>1, <3>1, TenantChange
    <3>4. Good(a)'
      BY <3>1, <3>3, GoodKept
    <3>5. a.cont <= containerIndex'
      BY <1>1, <3>1, <3>2
    <3>6. a.sess = session' /\ a.sess = owner'[a.cont]
      BY <3>1, <3>2, <3>3
    <3> QED
      BY <3>4, <3>5, <3>6
  <2>2. CASE WriteChunk /\ a = Reply
    <3> DEFINE i == containerIndex
               f == blob[i]
               g == [len |-> f.len + Size[arg[wreq]],
                     ext |-> f.ext \cup {<<f.len, arg[wreq]>>}]
    <3>1. /\ a.sess = session /\ a.cont = i
          /\ a.off = currentOffset /\ a.chunk = arg[wreq]
      BY <2>2 DEF Reply
    <3>2. /\ arg[wreq] \in Chunks /\ Size[arg[wreq]] \in Nat
          /\ i \in Containers /\ f \in File
      BY <2>2, WriteChunkFacts
    <3>3. /\ blob' = [blob EXCEPT ![i] = g]
          /\ UNCHANGED <<owner, spoiled, session, containerIndex>>
      BY <2>2 DEF WriteChunk, history
    <3>4. owner[i] = session /\ (i \notin spoiled => f.len = currentOffset)
      BY <2>2 DEF WriteChunk, IInv, OpenFile
    <3>5. g \in File /\ g # Nil /\ <<f.len, arg[wreq]>> \in g.ext
      BY <3>2, NilAssumption DEF File, NilAssumption
    <3> HIDE DEF g
    <3>6. blob'[i] = g
      BY <1>1, <3>2, <3>3 DEF TypeOK
    <3>7. a.cont \notin spoiled => <<a.off, a.chunk>> \in Contents(a.cont)'
      BY <3>1, <3>4, <3>5, <3>6 DEF Contents, Resolve
    <3>8. Good(a)'
      BY <3>3, <3>7 DEF Good, Readable
    <3> QED
      BY <1>1, <3>1, <3>3, <3>4, <3>8
  <2> QED
    BY <1>4, <2>1, <2>2, ReplySource
<1> QED
  BY <1>3, <1>4 DEF Addresses, Good, Readable, Contents, Resolve

-----------------------------------------------------------------------------
(* NewContainerManager: no container is open and no address is out.         *)
LEMMA InitIInv == Init => IInv
<1> SUFFICES ASSUME Init
             PROVE  IInv
  OBVIOUS
<1> USE BoundsAssumption, SizeAssumption, NilAssumption
<1> USE DEF Init, BoundsAssumption, SizeAssumption, NilAssumption
<1>0. Booleans
  BY Zenon DEF Booleans
<1>1. TypeOK
  BY <1>0, SMT DEF TypeOK, Booleans, Containers, Sessions
<1>2. Requests /\ Phases /\ OpenFile /\ CompressSteps
  BY DEF Requests, Busy, Phases, OpenFile, Compressing, CompressSteps,
         NoSendOnClosedQueue
<1>3. Tenancy /\ SizeBound /\ Addresses
  BY DEF Tenancy, SizeBound, Addresses, Containers
<1> QED
  BY <1>1, <1>2, <1>3 DEF IInv

(* The conjuncts, each shown above, together.                              *)
LEMMA NextIInv == IInv /\ [Next]_vars => IInv'
BY TypeStep, RequestsStep, PhasesStep, OpenFileStep, CompressStepsStep,
   TenancyStep, SizeBoundStep, AddressesStep DEF IInv

(* The inductive invariant holds in every reachable state: this is what    *)
(* the single writer goroutine and the order of the steps of               *)
(* compressContainer are for.                                              *)
THEOREM Invariance == Spec => []IInv
<1>1. Init => IInv
  BY InitIInv
<1>2. IInv /\ [Next]_vars => IInv'
  BY NextIInv
<1> QED
  BY <1>1, <1>2, PTL DEF Spec

(* The variables keep their types; in particular currentOffset never       *)
(* exceeds MaxContainerSize.                                               *)
THEOREM TypeCorrect == Spec => []TypeOK
<1>1. IInv => TypeOK
  BY DEF IInv
<1> QED
  BY <1>1, Invariance, PTL

(* WriteChunkToContainer and ReadChunkFromContainer: the address a worker  *)
(* was given reads back its chunk, at any moment of any number of          *)
(* rollovers, compressions, failures and crashes.                          *)
THEOREM TenantsChunksSafe == Spec => []AcksReadable
<1>1. IInv => AcksReadable
  BY DEF IInv, Addresses, Good, AcksReadable
<1> QED
  BY <1>1, Invariance, PTL

(* compressContainer, createNewContainer and Close lose no chunk that      *)
(* could be read: only opening a container anew does.                      *)
THEOREM NothingElseLoses == Spec => OnlyReopeningLoses
<1> DEFINE Keeps == \A a \in acked :
                      Readable(a) /\ ~Readable(a)' => owner'[a.cont] # owner[a.cont]
<1>1. IInv /\ [Next]_vars => [Keeps]_vars
  <2> SUFFICES ASSUME IInv, [Next]_vars, NEW a \in acked,
                      Readable(a), owner'[a.cont] = owner[a.cont]
               PROVE  Readable(a)'
    OBVIOUS
  <2>1. a.cont \in Containers
    BY DEF IInv, TypeOK, Ack
  <2> QED
    BY <2>1, ContentsGrow DEF Readable
<1> QED
  BY <1>1, Invariance, PTL DEF Spec, OnlyReopeningLoses

(* acceptMu: no worker ever sends on the closed queue, so the send in      *)
(* WriteChunkToContainer cannot panic.                                     *)
THEOREM NoPanicOnSend == Spec => []NoSendOnClosedQueue
<1>1. IInv => NoSendOnClosedQueue
  BY DEF IInv, Phases
<1> QED
  BY <1>1, Invariance, PTL

(* Close: when the writer goroutine has gone, every call has its reply.    *)
THEOREM QueueDrained == Spec => []DrainedAtExit
<1>1. IInv => DrainedAtExit
  BY DEF IInv, TypeOK, Requests, Busy, Phases, DrainedAtExit
<1> QED
  BY <1>1, Invariance, PTL

(* createNewContainer: a container stays within MaxContainerSize.          *)
THEOREM ContainersBounded == Spec => []SizeBound
<1>1. IInv => SizeBound
  BY DEF IInv
<1> QED
  BY <1>1, Invariance, PTL

-----------------------------------------------------------------------------
(* Close leaves compressed containers behind.                              *)

Sealed(i) == blob[i] = Nil /\ zst[i] # Nil

(* The containers of a session are sealed, up to the one it is at; after a *)
(* failed compression the session stays at that one, with its file closed. *)
Sealing ==
  /\ cpc = "done" => wpc = "exited"
  /\ \A i \in Containers : owner[i] = session /\ session > 0 =>
       /\ currentFile # "none"
       /\ (i = containerIndex /\ wpc # "create") \/ Sealed(i)
       /\ cpc = "done" /\ ~closeErr => Sealed(i)

LEMMA OwnersKnown ==
  ASSUME IInv
  PROVE  \A i \in Containers : owner[i] <= session /\ owner[i] \in Nat
<1> SUFFICES ASSUME NEW i \in Containers
             PROVE  owner[i] <= session /\ owner[i] \in Nat
  OBVIOUS
<1>1. owner \in [Containers -> Sessions \cup {0}]
  BY DEF IInv, TypeOK
<1>2. owner[i] \in Sessions \/ owner[i] = 0
  BY <1>1, Zenon
<1>3. owner[i] \in Nat
  BY <1>2 DEF Sessions
<1>4. owner[i] <= session
  BY DEF IInv, Tenancy
<1> QED
  BY <1>3, <1>4

LEMMA SealingStep == IInv /\ Sealing /\ [Next]_vars => Sealing'
<1> SUFFICES ASSUME IInv, Sealing, [Next]_vars
             PROVE  Sealing'
  OBVIOUS
<1> USE DEF IInv, TypeOK, Phases, Compressing
<1>1. CASE NewContainerManager
  <2>1. /\ session' = session + 1 /\ owner' = owner /\ session \in Nat
        /\ cpc' = "open"
    BY <1>1 DEF NewContainerManager, history, Sessions
  <2>2. \A i \in Containers : owner[i] <= session /\ owner[i] \in Nat
    BY OwnersKnown
  <2> HIDE DEF IInv, TypeOK
  <2> QED
    BY <2>1, <2>2 DEF Sealing
<1>2. CASE Crash
  BY <1>2 DEF Crash, manager, history, files, Sealing, Sealed
<1>3. ASSUME NEW w \in Workers, WorkerStep(w) PROVE Sealing'
  BY <1>3 DEF WorkerStep, Submit, Refused, Enqueue, Receive, WorkerFails, files,
     manager, history, Sealing, Sealed
<1>4. CASE Dequeue \/ WriterExit
  BY <1>4 DEF Dequeue, WriterExit, files, manager, history, Sealing, Sealed
<1>5. CASE RollOver \/ RollOverFails
  BY <1>5 DEF RollOver, RollOverFails, Respond, files, history, Sealing, Sealed
<1>6. CASE OpenContainer
  <2>1. /\ wpc = "create" /\ wpc' = "write" /\ currentFile' = "open"
        /\ containerIndex' = containerIndex + 1 /\ cpc' = cpc /\ session' = session
        /\ zst' = zst
        /\ \A i \in Containers : i # containerIndex + 1 =>
             blob'[i] = blob[i] /\ owner'[i] = owner[i]
    BY <1>6 DEF OpenContainer
  <2> QED
    BY <2>1 DEF Sealing, Sealed
<1>7. CASE OpenFails
  <2>1. /\ wpc = "create" /\ wpc' = "recv" /\ containerIndex' = containerIndex + 1
        /\ UNCHANGED <<blob, zst, cpc, closeErr, currentFile, session, owner>>
    BY <1>7 DEF OpenFails, Respond, files, history
  <2> QED
    BY <2>1 DEF Sealing, Sealed
<1>8. CASE WriteChunk \/ WriteFails
  <2>1. /\ wpc = "write" /\ wpc' = "recv" /\ containerIndex' = containerIndex
        /\ UNCHANGED <<zst, cpc, closeErr, currentFile, session, owner>>
    BY <1>8 DEF WriteChunk, WriteFails, Respond, manager, history
  <2>2. \A i \in Containers : i # containerIndex => blob'[i] = blob[i]
    BY <1>8 DEF WriteChunk, WriteFails
  <2> QED
    BY <2>1, <2>2 DEF Sealing, Sealed
<1>9. CASE CompressCopy \/ CompressRemoveOld \/ CompressRename
  <2>1. /\ wpc \in {"compress", "exited"} /\ wpc' = wpc /\ containerIndex' = containerIndex
        /\ cpc # "done"
        /\ UNCHANGED <<blob, cpc, closeErr, currentFile, session, owner>>
    BY <1>9 DEF CompressCopy, CompressRemoveOld, CompressRename, manager, history,
       Sealing
  <2>2. \A i \in Containers : i # containerIndex => zst'[i] = zst[i]
    BY <1>9 DEF CompressCopy, CompressRemoveOld, CompressRename
  <2> QED
    BY <2>1, <2>2 DEF Sealing, Sealed
<1>10. CASE CompressRemoveBlob
  <2>1. /\ zst[containerIndex] # Nil /\ containerIndex \in Containers
        /\ wpc \in {"compress", "exited"}
    BY <1>10 DEF CompressRemoveBlob, CompressSteps
  <2>2. /\ blob'[containerIndex] = Nil
        /\ \A i \in Containers : i # containerIndex => blob'[i] = blob[i]
        /\ UNCHANGED <<zst, closeErr, currentFile, containerIndex, session, owner>>
    BY <1>10, <2>1 DEF CompressRemoveBlob, manager, history
  <2>3. \A i \in Containers : owner[i] = session /\ session > 0 =>
          currentFile # "none" /\ Sealed(i)'
    BY <2>1, <2>2 DEF Sealing, Sealed
  <2>4. cpc' = "done" => wpc' = "exited"
    BY <1>10 DEF CompressRemoveBlob, Sealing
  <2> QED
    BY <2>2, <2>3, <2>4 DEF Sealing
<1>11. CASE CompressFails
  <2>1. /\ wpc \in {"compress", "exited"} /\ wpc' # "create"
        /\ IF wpc = "compress" THEN cpc' = cpc ELSE cpc' = "done" /\ closeErr' /\ wpc' = wpc
        /\ UNCHANGED <<blob, zst, currentFile, containerIndex, session, owner>>
    BY <1>11 DEF CompressFails, Respond, CloseFailed, manager, history
  <2> QED
    BY <2>1 DEF Sealing, Sealed
<1>12. CASE Close \/ CloseQueue \/ Return
  BY <1>12 DEF Close, CloseQueue, Return, files, manager, history, Sealing, Sealed
<1>13. CASE Finalize
  <2>1. /\ wpc = "exited" /\ cpc' = IF currentFile = "none" THEN "done" ELSE "compress"
        /\ currentFile = "none" \/ currentFile' # "none"
        /\ UNCHANGED <<blob, zst, wpc, containerIndex, session, owner>>
    BY <1>13 DEF Finalize, files, history
  <2> QED
    BY <2>1 DEF Sealing, Sealed
<1>14. CASE FinalizeFails
  <2>1. /\ wpc = "exited" /\ closeErr' /\ UNCHANGED <<files, manager, wpc, session, history>>
    BY <1>14 DEF FinalizeFails, CloseFailed
  <2> QED
    BY <2>1 DEF files, manager, history, Sealing, Sealed
<1>15. CASE UNCHANGED vars
  BY <1>15 DEF vars, manager, files, history, Sealing, Sealed
<1> QED
  BY <1>1, <1>2, <1>3, <1>4, <1>5, <1>6, <1>7, <1>8, <1>9, <1>10, <1>11, <1>12,
     <1>13, <1>14, <1>15
     DEF Next, Writer, Compress, Closing, AllSessionsOver

(* Close reports an error unless every container that its session opened   *)
(* has been compressed and its .blob removed: a failed rollover leaves the *)
(* manager with a closed file, which Close cannot sync.                    *)
THEOREM CloseCompresses == Spec => []CleanCloseCompresses
<1>1. Init => Sealing
  <2> SUFFICES ASSUME Init PROVE Sealing
    OBVIOUS
  <2>1. cpc = "open" /\ session = 0
    BY DEF Init
  <2> QED
    BY <2>1 DEF Sealing
<1>2. IInv /\ Sealing /\ [Next]_vars => Sealing'
  BY SealingStep
<1>3. Sealing => CleanCloseCompresses
  BY DEF Sealing, Sealed, CleanCloseCompresses
<1> QED
  BY <1>1, <1>2, <1>3, Invariance, PTL DEF Spec

-----------------------------------------------------------------------------
(* The detailed manager implements ChunkLog.                               *)

AllContents == [i \in Containers |-> Contents(i)]

(* doWrite appends one extent to what readers find in the open container.  *)
LEMMA WriteChunkAppends ==
  ASSUME IInv, WriteChunk
  PROVE  \E e \in Nat \X Chunks :
           /\ AllContents' = [AllContents EXCEPT ![containerIndex] = @ \cup {e}]
           /\ e \in AllContents'[containerIndex]
<1> DEFINE i == containerIndex
           f == blob[i]
           e == <<f.len, arg[wreq]>>
           g == [len |-> f.len + Size[arg[wreq]], ext |-> f.ext \cup {e}]
<1>1. /\ arg[wreq] \in Chunks /\ Size[arg[wreq]] \in Nat
      /\ i \in Containers /\ f \in File
  BY WriteChunkFacts
<1>2. g \in File /\ g # Nil /\ g.ext = f.ext \cup {e} /\ e \in Nat \X Chunks
  BY <1>1, NilAssumption DEF File, NilAssumption
<1>3. blob' = [blob EXCEPT ![i] = g] /\ zst' = zst
  BY DEF WriteChunk
<1>4. blob \in [Containers -> File \cup {Nil}] /\ f # Nil
  BY <1>1, NilAssumption DEF IInv, TypeOK, NilAssumption
<1> HIDE DEF g, e
<1>5. \A j \in Containers :
        Contents(j)' = IF j = i THEN Contents(i) \cup {e} ELSE Contents(j)
  BY <1>1, <1>2, <1>3, <1>4 DEF Contents, Resolve
<1>6. AllContents' = [AllContents EXCEPT ![i] = @ \cup {e}]
  BY <1>1, <1>5 DEF AllContents
<1>7. e \in AllContents'[i]
  BY <1>1, <1>5 DEF AllContents
<1> QED
  BY <1>2, <1>6, <1>7

(* createNewContainer adopts what a .blob holds, or hides what a compressed *)
(* file of that name held.                                                 *)
LEMMA OpenContainerTakesOver ==
  ASSUME IInv, OpenContainer
  PROVE  LET i == containerIndex + 1 IN
           /\ i \in Containers /\ session \in Sessions /\ owner[i] < session
           /\ owner' = [owner EXCEPT ![i] = session]
           /\ acked' = acked
           /\ \/ /\ AllContents' = [AllContents EXCEPT ![i] = {}]
                 /\ spoiled' = spoiled \ {i}
              \/ /\ AllContents' = AllContents
                 /\ spoiled' = spoiled \cup {i}
<1> DEFINE i == containerIndex + 1
<1> USE DEF IInv, TypeOK
<1>1. /\ i \in Containers /\ containerIndex \in Nat
      /\ session \in Sessions /\ session \in Nat /\ session # 0
  BY BoundsAssumption
     DEF OpenContainer, Tenancy, Containers, Sessions, BoundsAssumption
<1>2. owner[i] < session
  BY <1>1 DEF Tenancy, Sessions
<1>3. owner' = [owner EXCEPT ![i] = session] /\ acked' = acked /\ zst' = zst
  BY DEF OpenContainer
<1>4. EmptyFile \in File /\ EmptyFile # Nil /\ EmptyFile.ext = {}
  BY NilAssumption DEF EmptyFile, File, NilAssumption
<1>5. CASE blob[i] = Nil
  <2>1. blob' = [blob EXCEPT ![i] = EmptyFile] /\ spoiled' = spoiled \ {i}
    BY <1>5 DEF OpenContainer
  <2>2. \A j \in Containers : Contents(j)' = IF j = i THEN {} ELSE Contents(j)
    BY <1>1, <1>3, <1>4, <2>1 DEF Contents, Resolve
  <2>3. AllContents' = [AllContents EXCEPT ![i] = {}]
    BY <1>1, <2>2 DEF AllContents
  <2> QED
    BY <1>1, <1>2, <1>3, <2>1, <2>3
<1>6. CASE blob[i] # Nil
  <2>1. blob' = blob /\ spoiled' = spoiled \cup {i}
    BY <1>1, <1>6 DEF OpenContainer
  <2>2. AllContents' = AllContents
    BY <1>3, <2>1 DEF AllContents, Contents, Resolve
  <2> QED
    BY <1>1, <1>2, <1>3, <2>1, <2>2
<1> QED
  BY <1>5, <1>6

(* Sessions are numbers.                                                   *)
LEMMA SessionsNat == \A s \in Sessions : s \in Nat
BY BoundsAssumption DEF Sessions, BoundsAssumption

(* An address of the manager is one of the log.                            *)
LEMMA AckLogged == Ack \subseteq Log!Ack
BY SessionsNat DEF Ack, Log!Ack

(* A step of the manager is a step of the log, or invisible in it.         *)
LEMMA LogStep == IInv /\ IInv' /\ [Next]_vars => [Log!Next]_(Log!vars)
<1> SUFFICES ASSUME IInv, IInv', [Next]_vars
             PROVE  Log!Next \/ UNCHANGED Log!vars
  OBVIOUS
<1> USE DEF IInv, TypeOK
<1>1. CASE WriteChunk
  <2>1. PICK e \in Nat \X Chunks :
          /\ AllContents' = [AllContents EXCEPT ![containerIndex] = @ \cup {e}]
          /\ e \in AllContents'[containerIndex]
    BY <1>1, WriteChunkAppends
  <2>2. containerIndex \in Containers /\ UNCHANGED <<acked, owner, spoiled>>
    BY <1>1, WriteChunkFacts DEF WriteChunk, history
  <2>3. Log!AppendChunk(containerIndex, e)
    BY <2>1, <2>2 DEF Log!AppendChunk, AllContents
  <2> QED
    BY <2>1, <2>2, <2>3 DEF Log!Next, AllContents
<1>2. CASE OpenContainer
  <2> DEFINE i == containerIndex + 1
  <2>1. Log!TakeOver(i, session) \/ Log!Adopt(i, session)
    BY <1>2, OpenContainerTakesOver, SessionsNat
       DEF Log!TakeOver, Log!Adopt, AllContents
  <2>2. i \in Containers /\ owner'[i] = session
    BY <1>2, OpenContainerTakesOver
  <2> QED
    BY <2>1, <2>2 DEF Log!Next
<1>3. CASE ~WriteChunk /\ ~OpenContainer
  <2>1. AllContents' = AllContents
    BY <1>3, ContentsStable DEF AllContents
  <2>2. CASE WriteFails
    <3>1. UNCHANGED <<acked, owner>>
      BY <2>2 DEF WriteFails
    <3>2. CASE spoiled' = spoiled
      BY <2>1, <3>1, <3>2 DEF Log!vars, AllContents
    <3>3. CASE spoiled' # spoiled
      <4>1. spoiled' = spoiled \cup {containerIndex} /\ containerIndex \in Containers
        BY <2>2, <3>3 DEF WriteFails, Phases
      <4>2. Log!Spoil(containerIndex)
        BY <2>1, <3>1, <4>1 DEF Log!Spoil, AllContents
      <4> QED
        BY <4>1, <4>2 DEF Log!Next
    <3> QED
      BY <3>2, <3>3
  <2>3. ASSUME NEW w \in Workers, Receive(w)
        PROVE  Log!Next \/ UNCHANGED Log!vars
    <3>1. UNCHANGED <<owner, spoiled>>
      BY <2>3 DEF Receive
    <3>2. CASE reply[w] = Err
      BY <2>1, <2>3, <3>1, <3>2 DEF Receive, Log!vars, AllContents
    <3>3. CASE reply[w] # Err
      <4>1. reply[w] \in Ack /\ acked' = acked \cup {reply[w]}
        BY <2>3, <3>3 DEF Receive
      <4>2. /\ reply[w].sess = owner[reply[w].cont]
            /\ reply[w].cont \in Containers
            /\ \/ reply[w].cont \in spoiled
               \/ <<reply[w].off, reply[w].chunk>> \in Contents(reply[w].cont)
        BY <4>1 DEF Addresses, Good, Readable, Ack
      <4>3. Log!Acknowledge(reply[w])
        BY <2>1, <3>1, <4>1, <4>2, AckLogged DEF Log!Acknowledge, AllContents
      <4> QED
        BY <4>1, <4>3 DEF Log!Next
    <3> QED
      BY <3>2, <3>3
  <2>4. CASE UNCHANGED history
    BY <2>1, <2>4 DEF history, Log!vars, AllContents
  <2>5. ASSUME NEW w \in Workers, WorkerStep(w), ~Receive(w) PROVE UNCHANGED history
    BY <2>5 DEF WorkerStep, Submit, Refused, Enqueue, WorkerFails
  <2>6. Dequeue \/ RollOver \/ RollOverFails \/ OpenFails \/ WriterExit
          => UNCHANGED history
    BY DEF Dequeue, RollOver, RollOverFails, OpenFails, WriterExit
  <2>7. Compress => UNCHANGED history
    BY DEF Compress, CompressCopy, CompressRemoveOld, CompressRename,
           CompressRemoveBlob, CompressFails
  <2>8. Closing => UNCHANGED history
    BY DEF Closing, Close, CloseQueue, Finalize, FinalizeFails, CloseFailed,
       Return
  <2>9. NewContainerManager \/ Crash \/ UNCHANGED vars => UNCHANGED history
    BY DEF NewContainerManager, Crash, vars
  <2> QED
    BY <1>3, <2>2, <2>3, <2>4, <2>5, <2>6, <2>7, <2>8, <2>9
       DEF Next, Writer, AllSessionsOver
<1> QED
  BY <1>1, <1>2, <1>3

(* To whoever reads the containers through resolveContainerPath, the       *)
(* manager with its queue, its goroutines, its compression, its failures   *)
(* and crashes is the plain log of ChunkLog.                               *)
THEOREM Refinement == Spec => ImplementsLog
<1>1. Init => Log!Init
  BY DEF Init, Log!Init, Contents, Resolve
<1>2. IInv /\ IInv' /\ [Next]_vars => [Log!Next]_(Log!vars)
  BY LogStep
<1> QED
  BY <1>1, <1>2, Invariance, PTL DEF Spec, ImplementsLog, Log!Spec

-----------------------------------------------------------------------------
(* What ChunkLog promises, whoever implements it.                          *)

(* Nobody was told an address on behalf of a session still to come.        *)
NoAckAhead == \A a \in acked : a.sess <= owner[a.cont]

LogInv == Log!TypeOK /\ NoAckAhead /\ Log!TenantsChunksHeld

(* Nothing has been written or acknowledged at first.                      *)
LEMMA LogInit == Log!Init => LogInv
BY DEF Log!Init, LogInv, Log!TypeOK, NoAckAhead, Log!TenantsChunksHeld

(* An append takes no chunk away.                                          *)
LEMMA LogAppend ==
  ASSUME LogInv, NEW i \in Containers, NEW e, Log!AppendChunk(i, e)
  PROVE  LogInv'
<1>1. /\ e \in Nat \X Chunks
      /\ AllContents' = [AllContents EXCEPT ![i] = AllContents[i] \cup {e}]
      /\ acked' = acked /\ owner' = owner /\ spoiled' = spoiled
  BY DEF Log!AppendChunk, AllContents
<1>2. AllContents \in [Containers -> SUBSET (Nat \X Chunks)]
  BY DEF LogInv, Log!TypeOK, AllContents
<1>3. /\ AllContents' \in [Containers -> SUBSET (Nat \X Chunks)]
      /\ \A j \in Containers : AllContents[j] \subseteq AllContents'[j]
  BY <1>1, <1>2
<1>4. Log!TypeOK' /\ NoAckAhead'
  BY <1>1, <1>3 DEF LogInv, Log!TypeOK, NoAckAhead, AllContents
<1>5. Log!TenantsChunksHeld'
  <2> SUFFICES ASSUME NEW a \in acked, a.sess = owner[a.cont],
                      a.cont \notin spoiled
               PROVE  Log!Held(a)'
    BY <1>1 DEF Log!TenantsChunksHeld
  <2>1. a.cont \in Containers
    BY DEF LogInv, Log!TypeOK, Log!Ack
  <2>2. <<a.off, a.chunk>> \in AllContents[a.cont]
    BY DEF LogInv, Log!TenantsChunksHeld, Log!Held, AllContents
  <2>3. <<a.off, a.chunk>> \in AllContents'[a.cont]
    BY <1>3, <2>1, <2>2
  <2> QED BY <2>3 DEF Log!Held, AllContents
<1> QED BY <1>4, <1>5 DEF LogInv

(* What is acknowledged in an unspoiled container is there.                *)
LEMMA LogAcknowledge ==
  ASSUME LogInv, NEW a, Log!Acknowledge(a)
  PROVE  LogInv'
<1>1. /\ a \in Log!Ack /\ a.sess = owner[a.cont]
      /\ a.cont \in spoiled \/ Log!Held(a)
      /\ acked' = acked \cup {a}
      /\ AllContents' = AllContents /\ owner' = owner /\ spoiled' = spoiled
  BY DEF Log!Acknowledge, Log!Held, AllContents
<1>2. a.sess \in Int
  BY <1>1 DEF Log!Ack
<1>3. \A b : Log!Held(b)' <=> Log!Held(b)
  BY <1>1 DEF Log!Held, AllContents
<1>4. Log!TypeOK' /\ NoAckAhead'
  BY <1>1, <1>2 DEF LogInv, Log!TypeOK, NoAckAhead, AllContents
<1>5. Log!TenantsChunksHeld'
  BY <1>1, <1>3 DEF LogInv, Log!TenantsChunksHeld
<1> QED BY <1>4, <1>5 DEF LogInv

(* A session that opens a container, whatever it finds there, is a new     *)
(* tenant, to whom no address was told yet.                                *)
LEMMA LogOpen ==
  ASSUME LogInv, NEW i \in Containers, NEW s,
         Log!TakeOver(i, s) \/ Log!Adopt(i, s)
  PROVE  LogInv'
<1>1. /\ AllContents \in [Containers -> SUBSET (Nat \X Chunks)]
      /\ owner \in [Containers -> Nat] /\ spoiled \subseteq Containers
      /\ acked \subseteq Log!Ack
  BY DEF LogInv, Log!TypeOK, AllContents
<1>2. /\ s \in Nat /\ owner[i] < s /\ acked' = acked
      /\ owner' = [owner EXCEPT ![i] = s]
      /\ \/ /\ AllContents' = [AllContents EXCEPT ![i] = {}]
            /\ spoiled' = spoiled \ {i}
         \/ /\ AllContents' = AllContents
            /\ spoiled' = spoiled \cup {i}
  BY DEF Log!TakeOver, Log!Adopt, AllContents
<1>3. /\ AllContents' \in [Containers -> SUBSET (Nat \X Chunks)]
      /\ owner' \in [Containers -> Nat] /\ spoiled' \subseteq Containers
      /\ \A j \in Containers \ {i} :
           /\ AllContents'[j] = AllContents[j] /\ owner'[j] = owner[j]
           /\ j \in spoiled' <=> j \in spoiled
  BY <1>1, <1>2
<1>4. \A a \in acked : a.cont \in Containers /\ a.sess \in Int
  BY <1>1 DEF Log!Ack
<1>5. Log!TypeOK'
  BY <1>1, <1>2, <1>3 DEF Log!TypeOK, AllContents
<1>6. \A a \in acked : a.sess <= owner[a.cont]
  BY DEF LogInv, NoAckAhead
<1>7. NoAckAhead'
  <2> SUFFICES ASSUME NEW a \in acked PROVE a.sess <= owner'[a.cont]
    BY <1>2 DEF NoAckAhead
  <2>1. CASE a.cont = i
    BY <1>1, <1>2, <1>4, <1>6, <2>1
  <2>2. CASE a.cont # i
    BY <1>3, <1>4, <1>6, <2>2
  <2> QED BY <2>1, <2>2
<1>8. Log!TenantsChunksHeld'
  <2> SUFFICES ASSUME NEW a \in acked, a.sess = owner'[a.cont],
                      a.cont \notin spoiled'
               PROVE  Log!Held(a)'
    BY <1>2 DEF Log!TenantsChunksHeld
  <2>1. a.cont # i
    BY <1>1, <1>2, <1>4, <1>6
  <2>2. /\ a.sess = owner[a.cont] /\ a.cont \notin spoiled
        /\ AllContents'[a.cont] = AllContents[a.cont]
    BY <1>3, <1>4, <2>1
  <2>3. Log!Held(a)
    BY <2>2 DEF LogInv, Log!TenantsChunksHeld
  <2> QED BY <2>2, <2>3 DEF Log!Held, AllContents
<1> QED BY <1>5, <1>7, <1>8 DEF LogInv

(* A write that is cut short, or nothing at all.                           *)
LEMMA LogSame ==
  ASSUME LogInv, AllContents' = AllContents, UNCHANGED <<acked, owner>>,
         spoiled \subseteq spoiled', spoiled' \subseteq Containers
  PROVE  LogInv'
<1>1. AllContents \in [Containers -> SUBSET (Nat \X Chunks)]
  BY DEF LogInv, Log!TypeOK, AllContents
<1>2. AllContents' \in [Containers -> SUBSET (Nat \X Chunks)]
  BY <1>1
<1>3. Log!TypeOK'
  BY <1>2 DEF LogInv, Log!TypeOK, AllContents
<1>4. NoAckAhead'
  BY DEF LogInv, NoAckAhead
<1>5. \A b : Log!Held(b)' <=> Log!Held(b)
  BY DEF Log!Held, AllContents
<1>6. Log!TenantsChunksHeld'
  BY <1>5 DEF LogInv, Log!TenantsChunksHeld
<1> QED BY <1>3, <1>4, <1>6 DEF LogInv

(* Of any log, an address told by the present tenant of an unspoiled       *)
(* container is that of its chunk.                                         *)
THEOREM LogKeeps == Log!Spec => []Log!TenantsChunksHeld
<1>1. ASSUME LogInv, [Log!Next]_(Log!vars) PROVE LogInv'
  <2>0. spoiled \subseteq Containers
    BY <1>1 DEF LogInv, Log!TypeOK
  <2>1. ASSUME NEW i \in Containers, Log!Spoil(i) PROVE LogInv'
    BY <1>1, <2>0, <2>1, LogSame DEF Log!Spoil, AllContents
  <2>2. CASE UNCHANGED Log!vars
    BY <1>1, <2>0, <2>2, LogSame DEF Log!vars, AllContents
  <2> QED
    BY <1>1, <2>1, <2>2, LogAppend, LogAcknowledge, LogOpen DEF Log!Next
<1>2. LogInv => Log!TenantsChunksHeld
  BY DEF LogInv
<1> QED BY <1>1, <1>2, LogInit, PTL DEF Log!Spec
=============================================================================
