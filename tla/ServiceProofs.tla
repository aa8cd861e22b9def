---------------------------- MODULE ServiceProofs ----------------------------
(***************************************************************************)
(* Proofs about the server, for any number of requests, hashes, failures   *)
(* and restarts: types, that what counts as completed is stored            *)
(* (CompletedStored), that a stop in time cuts off nobody it knows         *)
(* (StopSpares), that what a client was told stays true and that an error  *)
(* has a cause (ToldStaysTrue, ErrorsHaveCause).                           *)
(***************************************************************************)
EXTENDS Service, TLAPS

(* What a request knows at each of its steps: its call, and of the node it *)
(* has read.                                                               *)
CallGiven(r) == pc[r] # "idle" => call[r] \in Calls

(* Where a request is that has something to store.                         *)
Storing == {"open", "receive", "check", "name", "preflight", "preflightName",
            "create", "data", "store", "finish", "complete", "setType", "remove"}

Streams(r) == pc[r] \in Storing => call[r].kind = "stream"

(* Nodes do not vanish: one that was seen or created is there.             *)
NodeThere(r) ==
  pc[r] \in {"name", "preflightName", "data", "store", "finish", "complete"} =>
    node[call[r].content] # None

(* A request holds a node to write back only if it is there, and a         *)
(* completed one only if the file is stored.                               *)
ViewGood(r) ==
  /\ pc[r] \in {"name", "preflightName"} =>
       view[r] \in Node /\ call[r].content \in stored
  /\ pc[r] = "finish" => call[r].content \in stored
  /\ pc[r] = "complete" => view[r] \in Node /\ call[r].content \in stored
  /\ pc[r] \in {"setType", "append"} =>
       view[r] \in Node /\ call[r].claims \in stored

RequestGood(r) == CallGiven(r) /\ Streams(r) /\ NodeThere(r) /\ ViewGood(r)

AllGood == \A r \in Requests : RequestGood(r)

IInv == TypeOK /\ AllGood /\ CompletedStored

LEMMA CallFields ==
  ASSUME NEW c \in Calls
  PROVE  /\ c.kind \in {"stream", "append"} /\ c.http2 \in BOOLEAN
         /\ c.content \in Hashes /\ c.claims \in Hashes
         /\ c.path \in Paths /\ c.type \in Types
BY CallsAssumption DEF Call

LEMMA InitInvariant == Init => IInv
<1> SUFFICES ASSUME Init PROVE IInv
  OBVIOUS
<1>1. node \in [Hashes -> Node \cup {None}]
  BY EarlierAssumption DEF Init
<1>2. TypeOK
  <2>1. starts \in 0 .. MaxStarts /\ faults \in 0 .. MaxFaults
    BY BoundsAssumption DEF Init
  <2>2. abrupt \in BOOLEAN
    BY Zenon DEF Init
  <2>3. atRisk \subseteq Hashes
    BY CommonAssumption DEF Init
  <2> QED
    BY <1>1, <2>1, <2>2, <2>3, Zenon DEF Init, TypeOK, Over, DbSteps
<1>3. AllGood
  BY DEF Init, AllGood, RequestGood, CallGiven, Streams, Storing, NodeThere,
     ViewGood
<1>4. CompletedStored
  BY DEF Init, CompletedStored
<1> QED
  BY <1>2, <1>3, <1>4 DEF IInv

-----------------------------------------------------------------------------
(* Types.                                                                  *)

LEMMA TypeStep == TypeOK /\ AllGood /\ [Next]_vars => TypeOK'
<1> SUFFICES ASSUME TypeOK, AllGood, [Next]_vars PROVE TypeOK'
  OBVIOUS
<1> USE BoundsAssumption DEF TypeOK, Answers, process, bytes, database, history, RequestState
<1>1. CASE ServerStep
  <2>1. CASE Start
    BY <2>1 DEF Start
  <2>2. CASE Boot \/ BootFails \/ Signal \/ Shutdown
    BY <2>2 DEF Boot, BootFails, Signal, Shutdown, Fault
  <2>3. CASE ShutdownTimesOut
    BY <2>3 DEF ShutdownTimesOut
  <2>4. CASE CloseDatabase
    <3>1. abrupt' \in BOOLEAN
      BY <2>4, Zenon DEF CloseDatabase
    <3>2. /\ UNCHANGED <<starts, uploads, RequestState, hit, overlapped>>
          /\ server' = "closed" /\ cutOff' \subseteq Requests
          /\ faults' \in 0 .. MaxFaults
      BY <2>4 DEF CloseDatabase, Fault
    <3> QED
      BY <3>1, <3>2
  <2>5. CASE Exit \/ Crash
    BY <2>5, CommonAssumption DEF Exit, Crash, Die, Over, Running
  <2> QED
    BY <1>1, <2>1, <2>2, <2>3, <2>4, <2>5 DEF ServerStep, StopStep
<1>2. ASSUME NEW r \in Requests, RequestStep(r) PROVE TypeOK'
  <2> USE DEF At, Db, Goto, Answer, DbSteps, Over, Look
  <2>1. ASSUME NEW c \in Calls, Request(r, c) PROVE TypeOK'
    BY <2>1, CallFields, CallsAssumption DEF Request, Touched
  <2>2. CASE OpenUpload(r) \/ OpenDenied(r) \/ Receive(r)
    BY <2>2 DEF OpenUpload, OpenDenied, Receive
  <2>3. ASSUME StoreStep(r) PROVE TypeOK'
    <3> USE DEF Set
    <3>1. CASE StoreCheck(r) \/ Preflight(r)
      BY <3>1, CallFields DEF StoreCheck, Preflight, AllGood, RequestGood,
         CallGiven
    <3>2. CASE StoreName(r) \/ PreflightName(r)
      <4>1. call[r] \in Calls /\ view[r] \in Node
        BY <3>2 DEF StoreName, PreflightName, AllGood, RequestGood, CallGiven,
           ViewGood
      <4>2. [view[r] EXCEPT !.names = @ \cup {r}] \in Node
        BY <4>1 DEF Node
      <4> QED
        BY <3>2, <4>1, <4>2, CallFields DEF StoreName, PreflightName
    <3>3. CASE CreateNode(r)
      <4>1. call[r] \in Calls
        BY <3>3 DEF CreateNode, AllGood, RequestGood, CallGiven
      <4>2. [names |-> {r}, completed |-> FALSE, type |-> None] \in Node
        BY DEF Node
      <4> QED
        BY <3>3, <4>1, <4>2, CallFields DEF CreateNode
    <3>4. CASE StartChunks(r) \/ StoreChunks(r)
      <4>1. call[r].content \in Hashes
        BY <3>4, CallFields DEF StartChunks, StoreChunks, AllGood, RequestGood,
           CallGiven
      <4> QED
        BY <3>4, <4>1, CommonAssumption DEF StartChunks, StoreChunks, Entangled
    <3>5. CASE FinishRead(r)
      BY <3>5, CallFields DEF FinishRead, AllGood, RequestGood, CallGiven
    <3>6. CASE FinishWrite(r)
      <4>1. call[r] \in Calls /\ view[r] \in Node
        BY <3>6 DEF FinishWrite, AllGood, RequestGood, CallGiven, ViewGood
      <4>2. [view[r] EXCEPT !.completed = TRUE] \in Node
        BY <4>1 DEF Node
      <4> QED
        BY <3>6, <4>1, <4>2, CallFields DEF FinishWrite
    <3> QED
      BY <2>3, <3>1, <3>2, <3>3, <3>4, <3>5, <3>6 DEF StoreStep
  <2>4. CASE Find(r)
    BY <2>4, CallFields DEF Find, AllGood, RequestGood, CallGiven
  <2>5. CASE SetType(r)
    <3>1. call[r] \in Calls /\ view[r] \in Node
      BY <2>5 DEF SetType, AllGood, RequestGood, CallGiven, ViewGood
    <3>2. [view[r] EXCEPT !.type = call[r].type] \in Node
      BY <3>1, CallFields DEF Node
    <3> QED
      BY <2>5, <3>1, <3>2, CallFields DEF SetType, Set
  <2>6. CASE AppendName(r)
    <3>1. call[r] \in Calls /\ view[r] \in Node
      BY <2>6 DEF AppendName, AllGood, RequestGood, CallGiven, ViewGood
    <3>2. [view[r] EXCEPT !.names = @ \cup {call[r].path}] \in Node
      BY <3>1, CallFields DEF Node
    <3> QED
      BY <2>6, <3>1, <3>2, CallFields DEF AppendName, Set
  <2>7. CASE MapChunks(r)
    BY <2>7 DEF MapChunks
  <2>8. CASE RemoveUpload(r)
    BY <2>8 DEF RemoveUpload, Removed, Fault
  <2>9. CASE RequestFails(r) \/ DatabaseGone(r)
    <3>1. pc[r] = "store" => call[r].content \in Hashes
      BY CallFields DEF AllGood, RequestGood, CallGiven
    <3> QED
      BY <2>9, <3>1, CommonAssumption DEF RequestFails, DatabaseGone,
         LeaveWorkers, Entangled, Fault
  <2> QED
    BY <1>2, <2>1, <2>2, <2>3, <2>4, <2>5, <2>6, <2>7, <2>8, <2>9
       DEF RequestStep
<1>3. CASE UNCHANGED vars
  BY <1>3 DEF vars
<1> QED
  BY <1>1, <1>2, <1>3 DEF Next

-----------------------------------------------------------------------------
(* Nothing stored is lost, no node vanishes, no call changes.              *)
Frame ==
  /\ stored \subseteq stored' /\ atRisk \subseteq atRisk'
  /\ \A h \in Hashes : node[h] # None => node'[h] # None
  /\ \A q \in Requests : pc[q] # "idle" => call'[q] = call[q]

LEMMA SetFrame ==
  ASSUME TypeOK, NEW r \in Requests, NEW h \in Hashes, NEW n \in Node,
         Set(r, h, n), UNCHANGED <<stored, bytes, call>>
  PROVE  Frame
BY NoneAssumption DEF TypeOK, Set, Frame, bytes

LEMMA FrameStep == TypeOK /\ AllGood /\ [Next]_vars => Frame
<1> SUFFICES ASSUME TypeOK, AllGood, [Next]_vars PROVE Frame
  OBVIOUS
<1> USE DEF process, bytes, database, history, RequestState, Frame
<1>1. CASE ServerStep
  BY <1>1 DEF ServerStep, StopStep, Start, Boot, BootFails, Signal, Shutdown,
              ShutdownTimesOut, CloseDatabase, Exit, Crash, Die
<1>2. ASSUME NEW r \in Requests, RequestStep(r) PROVE Frame
  <2> USE DEF Db
  <2>1. ASSUME NEW c \in Calls, Request(r, c) PROVE Frame
    BY <2>1 DEF Request, TypeOK
  <2>2. CASE OpenUpload(r) \/ OpenDenied(r) \/ Receive(r)
    BY <2>2 DEF OpenUpload, OpenDenied, Receive
  <2>3. CASE StoreStep(r)
    <3>1. CASE StoreCheck(r) \/ Preflight(r)
      BY <3>1 DEF StoreCheck, Preflight
    <3>2. CASE StoreName(r) \/ PreflightName(r)
      <4>1. call[r].content \in Hashes /\ view[r] \in Node
        BY <3>2, CallFields DEF StoreName, PreflightName, AllGood, RequestGood,
           CallGiven, ViewGood
      <4>2. [view[r] EXCEPT !.names = @ \cup {r}] \in Node
        BY <4>1 DEF Node
      <4> QED
        BY <3>2, <4>1, <4>2, SetFrame, Zenon DEF StoreName, PreflightName
    <3>3. CASE CreateNode(r)
      <4>1. call[r].content \in Hashes
        BY <3>3, CallFields DEF CreateNode, AllGood, RequestGood, CallGiven
      <4>2. [names |-> {r}, completed |-> FALSE, type |-> None] \in Node
        BY DEF Node
      <4> QED
        BY <3>3, <4>1, <4>2, SetFrame, Zenon DEF CreateNode
    <3>4. CASE StartChunks(r) \/ StoreChunks(r) \/ FinishRead(r)
      BY <3>4 DEF StartChunks, StoreChunks, FinishRead, TypeOK
    <3>5. CASE FinishWrite(r)
      <4>1. call[r].content \in Hashes /\ view[r] \in Node
        BY <3>5, CallFields DEF FinishWrite, AllGood, RequestGood, CallGiven,
           ViewGood
      <4>2. [view[r] EXCEPT !.completed = TRUE] \in Node
        BY <4>1 DEF Node
      <4> QED
        BY <3>5, <4>1, <4>2, SetFrame, Zenon DEF FinishWrite
    <3> QED
      BY <2>3, <3>1, <3>2, <3>3, <3>4, <3>5 DEF StoreStep
  <2>4. CASE Find(r) \/ MapChunks(r)
    BY <2>4 DEF Find, MapChunks
  <2>5. CASE SetType(r)
    <3>1. call[r].claims \in Hashes /\ call[r].type \in Types /\ view[r] \in Node
      BY <2>5, CallFields DEF SetType, AllGood, RequestGood, CallGiven,
         ViewGood
    <3>2. [view[r] EXCEPT !.type = call[r].type] \in Node
      BY <3>1 DEF Node
    <3> QED
      BY <2>5, <3>1, <3>2, SetFrame, Zenon DEF SetType
  <2>6. CASE AppendName(r)
    <3>1. call[r].claims \in Hashes /\ call[r].path \in Paths /\ view[r] \in Node
      BY <2>6, CallFields DEF AppendName, AllGood, RequestGood, CallGiven,
         ViewGood
    <3>2. [view[r] EXCEPT !.names = @ \cup {call[r].path}] \in Node
      BY <3>1 DEF Node
    <3> QED
      BY <2>6, <3>1, <3>2, SetFrame, Zenon DEF AppendName
  <2>7. CASE RemoveUpload(r) \/ RequestFails(r) \/ DatabaseGone(r)
    BY <2>7 DEF RemoveUpload, RequestFails, DatabaseGone, LeaveWorkers
  <2> QED
    BY <1>2, <2>1, <2>2, <2>3, <2>4, <2>5, <2>6, <2>7 DEF RequestStep
<1>3. CASE UNCHANGED vars
  BY <1>3 DEF vars
<1> QED
  BY <1>1, <1>2, <1>3 DEF Next

(* A step of the server leaves a request where it is or ends it.           *)
LEMMA ServerLeaves ==
  ASSUME TypeOK, ServerStep \/ UNCHANGED vars, NEW q \in Requests
  PROVE  /\ view' = view
         /\ pc'[q] \in {pc[q], "dead"}
         /\ pc'[q] # "idle" => pc[q] # "idle"
BY DEF ServerStep, StopStep, Start, Boot, BootFails, Signal, Shutdown, vars,
       ShutdownTimesOut, CloseDatabase, Exit, Crash, Die, TypeOK, Over, Running,
       process, database, history, RequestState

(* A step of a request leaves the others alone.                            *)
LEMMA RequestLeaves ==
  ASSUME TypeOK, NEW r \in Requests, RequestStep(r), NEW q \in Requests, q # r
  PROVE  pc'[q] = pc[q] /\ view'[q] = view[q]
<1> USE DEF At, Db, Goto, Answer, Look, Set, TypeOK
<1>1. ASSUME NEW c \in Calls, Request(r, c) PROVE pc'[q] = pc[q] /\ view'[q] = view[q]
  BY <1>1 DEF Request
<1>2. CASE StoreStep(r)
  BY <1>2 DEF StoreStep, StoreCheck, StoreName, Preflight, PreflightName,
              CreateNode, StartChunks, StoreChunks, FinishRead, FinishWrite
<1> QED
  BY <1>1, <1>2 DEF RequestStep, OpenUpload, OpenDenied, Receive, Find,
     SetType,
              AppendName, MapChunks, RemoveUpload, RequestFails, DatabaseGone, LeaveWorkers

LEMMA OtherGood ==
  ASSUME TypeOK, AllGood, Frame, NEW q \in Requests,
         pc'[q] \in {pc[q], "dead"}, view'[q] = view[q],
         pc'[q] # "idle" => pc[q] # "idle"
  PROVE  RequestGood(q)'
<1>1. CASE pc[q] = "idle" \/ pc'[q] = "dead"
  <2>1. pc'[q] \in {"idle", "dead"}
    BY <1>1
  <2>2. pc'[q] # "idle" => call'[q] \in Calls
    BY <1>1, <2>1 DEF AllGood, RequestGood, CallGiven, Frame
  <2> QED
    BY <2>1, <2>2 DEF RequestGood, CallGiven, Streams, Storing, NodeThere,
       ViewGood
<1>2. CASE pc[q] # "idle" /\ pc'[q] = pc[q]
  <2>1. call'[q] = call[q] /\ call[q] \in Calls
    BY <1>2 DEF Frame, AllGood, RequestGood, CallGiven
  <2>2. call[q].content \in Hashes /\ call[q].claims \in Hashes
    BY <2>1, CallFields
  <2> QED
    BY <1>2, <2>1, <2>2 DEF AllGood, RequestGood, RequestGood, Frame,
       CallGiven, Streams, NodeThere,
                       ViewGood
<1> QED
  BY <1>1, <1>2

LEMMA OwnGood ==
  ASSUME IInv, Frame, NEW r \in Requests, RequestStep(r)
  PROVE  RequestGood(r)'
<1> USE DEF IInv, TypeOK, At, Db, Goto, Answer, Look, RequestGood, CallGiven, Streams,
            Storing, NodeThere, ViewGood
<1>1. ASSUME NEW c \in Calls, Request(r, c) PROVE RequestGood(r)'
  BY <1>1 DEF Request
<1>2. CASE OpenUpload(r) \/ OpenDenied(r) \/ Receive(r)
  BY <1>2 DEF OpenUpload, OpenDenied, Receive, AllGood, RequestGood
<1>3. CASE StoreStep(r)
  <2>1. pc[r] \in Storing /\ call[r] \in Calls /\ call'[r] = call[r]
    BY <1>3 DEF StoreStep, StoreCheck, StoreName, Preflight, PreflightName,
                CreateNode, StartChunks, StoreChunks, FinishRead, FinishWrite, AllGood, RequestGood, Frame
  <2>2. call[r].kind = "stream" /\ call[r].content \in Hashes
    BY <2>1, CallFields DEF AllGood, RequestGood
  <2>3. CASE StoreCheck(r)
    <3>1. view'[r] = node[call[r].content] /\ UNCHANGED <<node, stored, call>>
      BY <2>2, <2>3 DEF StoreCheck, database
    <3>2. pc'[r] = IF Completed(call[r].content) THEN "name" ELSE "preflight"
      BY <2>3 DEF StoreCheck
    <3> QED
      BY <2>1, <2>2, <3>1, <3>2 DEF Completed, CompletedStored
  <2>4. CASE Preflight(r)
    <3>1. view'[r] = node[call[r].content] /\ UNCHANGED <<node, stored, call>>
      BY <2>2, <2>4 DEF Preflight, database
    <3>2. pc'[r] = IF node[call[r].content] = None THEN "create"
                   ELSE IF Completed(call[r].content) THEN "preflightName" ELSE "data"
      BY <2>4 DEF Preflight
    <3> QED
      BY <2>1, <2>2, <3>1, <3>2 DEF Completed, CompletedStored
  <2>5. CASE StoreName(r) \/ PreflightName(r)
    BY <2>1, <2>2, <2>5 DEF StoreName, PreflightName, AllGood, RequestGood,
       Set, Frame
  <2>9. CASE CreateNode(r)
    <3>1. [names |-> {r}, completed |-> FALSE, type |-> None] \in Node
      BY DEF Node
    <3>2. node'[call[r].content] # None /\ pc'[r] = "data"
      BY <2>2, <2>9, <3>1, NoneAssumption DEF CreateNode, Set
    <3> QED
      BY <2>1, <2>2, <3>2
  <2>6. CASE StartChunks(r) \/ StoreChunks(r)
    BY <2>1, <2>2, <2>6 DEF StartChunks, StoreChunks, AllGood, RequestGood, Frame
  <2>7. CASE FinishRead(r)
    BY <2>1, <2>2, <2>7 DEF FinishRead, AllGood, RequestGood, database
  <2>8. CASE FinishWrite(r)
    BY <2>1, <2>2, <2>8 DEF FinishWrite
  <2> QED
    BY <1>3, <2>3, <2>4, <2>5, <2>6, <2>7, <2>8, <2>9 DEF StoreStep
<1>4. CASE Find(r)
  <2>1. call[r] \in Calls /\ call'[r] = call[r]
    BY <1>4 DEF Find, AllGood, RequestGood, Frame
  <2>2. call[r].kind \in {"stream", "append"} /\ call[r].claims \in Hashes
    BY <2>1, CallFields
  <2>3. view'[r] = node[call[r].claims] /\ UNCHANGED <<node, stored>>
    BY <1>4, <2>2 DEF Find, database
  <2>4. CASE Completed(call[r].claims)
    <3>1. pc'[r] \in {"map", "append"} \/ (pc'[r] = "setType" /\ call[r].kind = "stream")
      BY <1>4, <2>4 DEF Find, UsableNode
    <3> QED
      BY <2>1, <2>2, <2>3, <2>4, <3>1 DEF Completed, CompletedStored
  <2>5. CASE ~Completed(call[r].claims)
    <3>1. pc'[r] = "over"
      BY <1>4, <2>5 DEF Find, UsableNode
    <3> QED
      BY <2>1, <3>1
  <2> QED
    BY <2>4, <2>5
<1>5. CASE SetType(r) \/ AppendName(r) \/ MapChunks(r)
  BY <1>5 DEF SetType, AppendName, MapChunks, AllGood, RequestGood, Set
<1>6. CASE RemoveUpload(r) \/ RequestFails(r) \/ DatabaseGone(r)
  BY <1>6 DEF RemoveUpload, RequestFails, DatabaseGone, LeaveWorkers, AllGood, RequestGood,
     Frame, Running,
              Over, DbSteps
<1> QED
  BY <1>1, <1>2, <1>3, <1>4, <1>5, <1>6 DEF RequestStep

(* Only FinishWrite completes a node; every other write keeps what the     *)
(* request has seen.                                                       *)
SetCompleted(h) == Completed(h)' => Completed(h) \/ h \in stored

LEMMA SetKeepsCompleted ==
  ASSUME TypeOK, NEW r \in Requests, NEW h \in Hashes, NEW n \in Node,
         Set(r, h, n), n.completed => h \in stored
  PROVE  \A g \in Hashes : SetCompleted(g)
BY NoneAssumption DEF TypeOK, Set, SetCompleted, Completed

LEMMA CompletedStep == IInv /\ [Next]_vars => \A h \in Hashes : SetCompleted(h)
<1> SUFFICES ASSUME IInv, [Next]_vars PROVE \A h \in Hashes : SetCompleted(h)
  OBVIOUS
<1> USE DEF process, database, history, RequestState, IInv, Db
<1>1. CASE UNCHANGED node
  BY <1>1 DEF SetCompleted, Completed
<1>2. ASSUME NEW r \in Requests, StoreName(r) \/ PreflightName(r)
      PROVE  \A h \in Hashes : SetCompleted(h)
  <2>1. call[r].content \in stored /\ view[r] \in Node
    BY <1>2 DEF StoreName, PreflightName, AllGood, RequestGood, ViewGood
  <2>2. [view[r] EXCEPT !.names = @ \cup {r}] \in Node
    BY <2>1 DEF Node
  <2>3. call[r].content \in Hashes
    BY <2>1 DEF TypeOK
  <2> QED
    BY <1>2, <2>1, <2>2, <2>3, SetKeepsCompleted DEF StoreName, PreflightName
<1>3. ASSUME NEW r \in Requests, CreateNode(r)
      PROVE  \A h \in Hashes : SetCompleted(h)
  <2>1. call[r].content \in Hashes
    BY <1>3, CallFields DEF CreateNode, AllGood, RequestGood, CallGiven
  <2>2. [names |-> {r}, completed |-> FALSE, type |-> None] \in Node
    BY DEF Node
  <2> QED
    BY <1>3, <2>1, <2>2, SetKeepsCompleted DEF CreateNode
<1>4. ASSUME NEW r \in Requests, FinishWrite(r)
      PROVE  \A h \in Hashes : SetCompleted(h)
  <2>1. call[r].content \in stored /\ view[r] \in Node
    BY <1>4 DEF FinishWrite, AllGood, RequestGood, ViewGood
  <2>2. [view[r] EXCEPT !.completed = TRUE] \in Node
    BY <2>1 DEF Node
  <2>3. call[r].content \in Hashes
    BY <2>1 DEF TypeOK
  <2> QED
    BY <1>4, <2>1, <2>2, <2>3, SetKeepsCompleted DEF FinishWrite
<1>5. ASSUME NEW r \in Requests, SetType(r)
      PROVE  \A h \in Hashes : SetCompleted(h)
  <2>1. /\ call[r].claims \in stored /\ call[r].type \in Types
        /\ view[r] \in Node
    BY <1>5, CallFields DEF SetType, AllGood, RequestGood, CallGiven, ViewGood
  <2>2. [view[r] EXCEPT !.type = call[r].type] \in Node
    BY <2>1 DEF Node
  <2>3. call[r].claims \in Hashes
    BY <2>1 DEF TypeOK
  <2> QED
    BY <1>5, <2>1, <2>2, <2>3, SetKeepsCompleted DEF SetType
<1>6. ASSUME NEW r \in Requests, AppendName(r)
      PROVE  \A h \in Hashes : SetCompleted(h)
  <2>1. /\ call[r].claims \in stored /\ call[r].path \in Paths
        /\ view[r] \in Node
    BY <1>6, CallFields DEF AppendName, AllGood, RequestGood, CallGiven,
       ViewGood
  <2>2. [view[r] EXCEPT !.names = @ \cup {call[r].path}] \in Node
    BY <2>1 DEF Node
  <2>3. call[r].claims \in Hashes
    BY <2>1 DEF TypeOK
  <2> QED
    BY <1>6, <2>1, <2>2, <2>3, SetKeepsCompleted DEF AppendName
<1>7. ServerStep \/ UNCHANGED vars => UNCHANGED node
  BY DEF ServerStep, StopStep, Start, Boot, BootFails, Signal, Shutdown, vars,
         ShutdownTimesOut, CloseDatabase, Exit, Crash, Die
<1>8. ASSUME NEW r \in Requests, RequestStep(r)
      PROVE  \/ UNCHANGED node
             \/ StoreName(r) \/ PreflightName(r) \/ CreateNode(r)
             \/ FinishWrite(r) \/ SetType(r) \/ AppendName(r)
  BY <1>8 DEF RequestStep, StoreStep, Request, OpenUpload, OpenDenied, Receive,
              StoreCheck, Preflight, StartChunks, StoreChunks, FinishRead, Find, MapChunks,
              RemoveUpload, RequestFails, DatabaseGone, LeaveWorkers
<1> QED
  BY <1>1, <1>2, <1>3, <1>4, <1>5, <1>6, <1>7, <1>8 DEF Next

LEMMA StepInvariant == IInv /\ [Next]_vars => IInv'
<1> SUFFICES ASSUME IInv, [Next]_vars PROVE IInv'
  OBVIOUS
<1>1. TypeOK' /\ Frame
  BY TypeStep, FrameStep DEF IInv
<1>2. ASSUME NEW q \in Requests PROVE RequestGood(q)'
  <2>1. CASE ServerStep \/ UNCHANGED vars
    BY <1>1, <2>1, ServerLeaves, OtherGood DEF IInv
  <2>2. ASSUME NEW r \in Requests, RequestStep(r), r # q PROVE RequestGood(q)'
    BY <1>1, <2>2, RequestLeaves, OtherGood DEF IInv
  <2>3. CASE RequestStep(q)
    BY <1>1, <2>3, OwnGood
  <2> QED
    BY <2>1, <2>2, <2>3 DEF Next
<1>3. CompletedStored'
  BY <1>1, CompletedStep DEF IInv, SetCompleted, CompletedStored, Frame
<1> QED
  BY <1>1, <1>2, <1>3 DEF IInv, AllGood

(* What a request knows of the node it holds, and of the chunks behind a   *)
(* completed one, is true through every interleaving, failure and stop.    *)
THEOREM Invariance == Spec => []IInv
BY InitInvariant, StepInvariant, PTL DEF Spec

(* Every variable keeps its type.                                          *)
THEOREM TypeCorrect == Spec => []TypeOK
<1>1. IInv => TypeOK
  BY DEF IInv
<1> QED
  BY <1>1, Invariance, PTL

(* A node that servestore.go marks completed has its chunks stored, though *)
(* requests on one hash overwrite each other's node.                       *)
THEOREM CompletedIsStored == Spec => []CompletedStored
<1>1. IInv => CompletedStored
  BY DEF IInv
<1> QED
  BY <1>1, Invariance, PTL

-----------------------------------------------------------------------------
(* Stops: who waits and who is cut off.                                    *)

Stops ==
  /\ server = "returning" => abrupt
  /\ server = "released" =>
       abrupt \/ \A r \in Requests : Running(r) => call[r].http2
  /\ \A r \in cutOff : pc[r] # "idle" /\ (abrupt \/ call[r].http2)

(* Uploads: only StreamFile requests that have begun have one.             *)
Uploads ==
  \A r \in temp : /\ pc[r] # "idle" /\ call[r].kind = "stream"
                  /\ \/ Running(r) \/ pc[r] = "dead"
                     \/ answer[r] = "error" \/ r \in hit

-----------------------------------------------------------------------------
(* Nodes: what a request is told stays true, because as long as a hash has *)
(* not been used by two requests at the same time, a request writes back   *)
(* the node as it is.                                                      *)

Holding == {"name", "preflightName", "create", "complete", "setType", "append"}
Held(r) ==
  IF pc[r] \in {"setType", "append"} THEN call[r].claims ELSE call[r].content

Alone ==
  \A q, r \in Requests :
    q # r /\ Running(q) /\ Running(r) =>
      Touched(call[q]) \cap Touched(call[r]) \subseteq overlapped

ViewFresh(r) ==
  pc[r] \in Holding /\ Held(r) \notin overlapped => view[r] = node[Held(r)]

ViewCompleted(r) ==
  /\ pc[r] \in {"name", "preflightName", "setType", "append"} => view[r].completed
  /\ pc[r] = "create" => view[r] = None

AnswerGood(r) ==
  /\ pc[r] = "append" => call[r].kind = "append"
  /\ pc[r] \notin {"over", "dead"} =>
       \/ answer[r] = None
       \/ /\ pc[r] = "map" /\ call[r].kind = "append"
          /\ answer[r] \in {"appended", "exists"}

Promised(r) ==
  /\ pc[r] = "find" /\ call[r].kind = "stream" => Completed(call[r].content)
  /\ pc[r] \in {"setType", "append", "map", "remove"} => Completed(call[r].claims)
  /\ Told(r, {"done", "appended", "exists"}) => Completed(call[r].claims)
  /\ pc[r] \in {"map", "over"} /\ answer[r] \in {"appended", "exists"} =>
       call[r].path \in node[call[r].claims].names
  /\ Told(r, {"error"}) /\ r \notin hit =>
       \/ uploads = "locked" \/ call[r].claims # call[r].content
       \/ call[r].claims \in atRisk

ToldGood(r) ==
  /\ ViewFresh(r) /\ ViewCompleted(r) /\ AnswerGood(r)
  /\ pc[r] # "idle" /\ Apart(r) => Promised(r)

TellGood == Alone /\ \A r \in Requests : ToldGood(r)

LEMMA InitHistory == Init => Stops /\ Uploads /\ TellGood
BY Zenon DEF Init, Stops, Uploads, TellGood, ToldGood, Alone, ViewFresh,
   ViewCompleted, AnswerGood,
       Promised, Running, Over, Holding, Apart

(* What has not ended yet has begun.                                       *)
LEMMA RunningBegun ==
  ASSUME NEW r \in Requests, Running(r)
  PROVE  pc[r] \notin {"idle", "over", "dead"}
BY DEF Running, Over

LEMMA ServerFrame ==
  ASSUME TypeOK, ServerStep \/ UNCHANGED vars
  PROVE  /\ UNCHANGED <<temp, node, stored, call, view, answer, hit, overlapped>>
         /\ cutOff # cutOff' => CloseDatabase
         /\ uploads = "locked" => uploads' = "locked"
BY DEF ServerStep, StopStep, Start, Boot, BootFails, Signal, Shutdown, vars,
       ShutdownTimesOut, CloseDatabase, Exit, Crash, Die, TypeOK,
       process, database, history, RequestState

RequestKeeps(r) ==
  /\ UNCHANGED <<process, cutOff, abrupt>>
  /\ hit \subseteq hit' /\ overlapped \subseteq overlapped'
  /\ pc'[r] \notin {"idle", "dead"}
  /\ \A q \in Requests \ {r} : answer'[q] = answer[q]
  /\ IF pc[r] = "idle" THEN server \in {"up", "stopping"}
     ELSE Running(r) /\ overlapped' = overlapped

LEMMA RequestFrame ==
  ASSUME TypeOK, NEW r \in Requests, RequestStep(r)
  PROVE  RequestKeeps(r)
<1> USE DEF RequestKeeps, At, Db, Goto, Answer, TypeOK, history, Over, Running, process
<1>1. ASSUME NEW c \in Calls, Request(r, c) PROVE RequestKeeps(r)
  BY <1>1 DEF Request
<1>2. CASE StoreStep(r)
  BY <1>2 DEF StoreStep, StoreCheck, StoreName, Preflight, PreflightName,
              CreateNode, StartChunks, StoreChunks, FinishRead, FinishWrite
<1>3. CASE Find(r) \/ SetType(r) \/ AppendName(r) \/ MapChunks(r)
  BY <1>3 DEF Find, SetType, AppendName, MapChunks
<1>4. CASE RemoveUpload(r) \/ RequestFails(r) \/ DatabaseGone(r)
  BY <1>4 DEF RemoveUpload, RequestFails, DatabaseGone, LeaveWorkers, DbSteps
<1>5. CASE OpenUpload(r) \/ OpenDenied(r) \/ Receive(r)
  BY <1>5 DEF OpenUpload, OpenDenied, Receive
<1> HIDE DEF RequestKeeps
<1> QED
  BY <1>1, <1>2, <1>3, <1>4, <1>5, Zenon DEF RequestStep

LEMMA StopsStep == IInv /\ Stops /\ [Next]_vars => Stops'
<1> SUFFICES ASSUME IInv, Stops, [Next]_vars PROVE Stops'
  OBVIOUS
<1>1. Frame /\ TypeOK
  BY FrameStep DEF IInv
<1>2. CASE ServerStep \/ UNCHANGED vars
  <2>1. UNCHANGED call /\ (cutOff # cutOff' => CloseDatabase)
    BY <1>1, <1>2, ServerFrame DEF IInv
  <2>2. \A q \in Requests : /\ pc'[q] \in {pc[q], "dead"}
                            /\ (pc'[q] # "idle" <=> pc[q] # "idle")
    BY <1>2, ServerLeaves DEF IInv
  <2>3. (server' = "returning" => abrupt') /\ (abrupt => abrupt')
    BY <1>2 DEF ServerStep, StopStep, Start, Boot, BootFails, Signal, Shutdown,
       vars,
       ShutdownTimesOut, CloseDatabase, Exit, Crash, Die, Stops,
       process, database, history, RequestState
  <2>4. server' = "released" =>
          abrupt' \/ \A r \in Requests : Running(r)' => call'[r].http2
    <3>1. \A r \in Requests : Running(r)' => Running(r)
      <4>1. SUFFICES ASSUME NEW r \in Requests, ~Running(r) PROVE ~Running(r)'
        OBVIOUS
      <4>2. pc'[r] \in {pc[r], "dead"}
        BY <2>2
      <4> QED
        BY <4>1, <4>2 DEF Running, Over
    <3>2. CASE Shutdown
      <4>1. Known = {} /\ UNCHANGED call
        BY <2>1, <3>2 DEF Shutdown
      <4>2. \A r \in Requests : Running(r) => call[r].http2
        BY <4>1 DEF Known
      <4> QED
        BY <3>1, <4>1, <4>2
    <3>3. CASE ~Shutdown
      <4>1. server' = "released" => server = "released"
        BY <1>2, <3>3 DEF ServerStep, StopStep, Start, Boot, BootFails, Signal,
           vars,
           ShutdownTimesOut, CloseDatabase, Exit, Crash, Die, process, history
      <4> QED
        BY <2>1, <2>3, <3>1, <4>1 DEF Stops
    <3> QED
      BY <3>2, <3>3
  <2>5. \A r \in cutOff' : pc'[r] # "idle" /\ (abrupt' \/ call'[r].http2)
    <3>1. CASE cutOff' = cutOff
      BY <2>1, <2>2, <2>3, <3>1 DEF Stops, IInv, TypeOK
    <3>2. CASE CloseDatabase
      <4>1. /\ cutOff' = cutOff \cup {r \in Requests : Running(r)} /\ cutOff \subseteq Requests
            /\ server \in {"released", "returning"} \/ abrupt'
        BY <3>2 DEF CloseDatabase, IInv, TypeOK
      <4> QED
        BY <2>1, <2>2, <2>3, <4>1, RunningBegun DEF Stops
    <3> QED
      BY <2>1, <3>1, <3>2
  <2> QED
    BY <2>3, <2>4, <2>5 DEF Stops
<1>3. ASSUME NEW r \in Requests, RequestStep(r) PROVE Stops'
  <2>1. /\ UNCHANGED <<server, cutOff, abrupt>> /\ pc'[r] # "idle"
        /\ server = "released" => Running(r)
    BY <1>3, RequestFrame DEF process, IInv, RequestKeeps
  <2>2. \A q \in Requests \ {r} : pc'[q] = pc[q]
    BY <1>3, RequestLeaves DEF IInv
  <2>3. \A q \in Requests : Running(q) => call'[q] = call[q]
    BY <1>1, RunningBegun DEF Frame
  <2>4. \A q \in Requests \ {r} : Running(q)' <=> Running(q)
    BY <2>2 DEF Running
  <2>5. cutOff \subseteq Requests
    BY DEF IInv, TypeOK
  <2>6. \A q \in cutOff : pc'[q] # "idle" /\ call'[q] = call[q]
    BY <1>1, <2>1, <2>2, <2>5 DEF Stops, Frame
  <2> QED
    BY <2>1, <2>3, <2>4, <2>6 DEF Stops
<1> QED
  BY <1>2, <1>3 DEF Next

(* A stop cuts off a request only if it has taken too long, or came over   *)
(* HTTP/2.                                                                 *)
THEOREM StopsSpare == Spec => []StopSpares
<1>1. Init => Stops
  BY InitHistory
<1>2. Stops => StopSpares
  BY DEF Stops, StopSpares
<1> QED
  BY <1>1, <1>2, StopsStep, Invariance, PTL DEF Spec

LEMMA UploadsStep == IInv /\ Uploads /\ [Next]_vars => Uploads'
<1> SUFFICES ASSUME IInv, Uploads, [Next]_vars PROVE Uploads'
  OBVIOUS
<1> USE DEF Uploads
<1>1. Frame /\ TypeOK /\ temp \subseteq Requests
  BY FrameStep DEF IInv, TypeOK
<1>2. CASE ServerStep \/ UNCHANGED vars
  <2>1. UNCHANGED <<temp, call, answer, hit>>
    BY <1>1, <1>2, ServerFrame
  <2>2. \A q \in Requests : /\ pc'[q] \in {pc[q], "dead"}
                            /\ (pc'[q] # "idle" <=> pc[q] # "idle")
    BY <1>1, <1>2, ServerLeaves
  <2> QED
    BY <1>1, <2>1, <2>2 DEF Running
<1>3. ASSUME NEW r \in Requests, RequestStep(r) PROVE Uploads'
  <2> DEFINE Fine(q) == /\ pc[q] # "idle" /\ call[q].kind = "stream"
                        /\ \/ Running(q) \/ pc[q] = "dead"
                           \/ answer[q] = "error" \/ q \in hit
  <2>1. ASSUME NEW q \in temp', q # r PROVE Fine(q)'
    <3>1. q \in temp
      BY <1>3, <2>1 DEF RequestStep, Request, StoreStep, StoreCheck, StoreName,
         Preflight, PreflightName,
              CreateNode, StartChunks, StoreChunks, FinishRead, FinishWrite, Find, SetType,
              AppendName, MapChunks, RemoveUpload, Removed, RequestFails, DatabaseGone, LeaveWorkers, OpenUpload, OpenDenied, Receive
    <3> QED
      BY <1>1, <1>3, <2>1, <3>1, RequestLeaves, RequestFrame DEF Frame,
         RequestKeeps, Running
  <2>2. ASSUME r \in temp' PROVE Fine(r)'
    <3>1. pc'[r] # "idle" /\ pc'[r] # "dead"
      BY <1>3, RequestFrame DEF IInv, RequestKeeps
    <3>2. ASSUME NEW c \in Calls, Request(r, c) PROVE FALSE
      <4>1. r \in temp /\ pc[r] = "idle"
        BY <2>2, <3>2 DEF Request
      <4> QED
        BY <4>1
    <3>3. call'[r].kind = "stream"
      <4>1. pc[r] # "idle" /\ (r \in temp \/ OpenUpload(r))
        BY <1>3, <2>2, <3>2, <1>1 DEF RequestStep, StoreStep, StoreCheck,
           StoreName, Preflight, PreflightName,
              CreateNode, StartChunks, StoreChunks, FinishRead, FinishWrite, Find, SetType,
              AppendName, MapChunks, RemoveUpload, Removed, RequestFails, DatabaseGone, LeaveWorkers, OpenUpload, OpenDenied, Receive,
              At, Db, Running, Over, DbSteps
      <4>2. call'[r] = call[r]
        BY <4>1, <1>1 DEF Frame
      <4> QED
        BY <4>1, <4>2 DEF OpenUpload, At, IInv, AllGood, RequestGood, Streams,
           Storing
    <3>4. Running(r)' \/ answer'[r] = "error" \/ r \in hit'
      <4> USE <1>1 DEF TypeOK, Goto, Answer, Running, Over
      <4>1. CASE RemoveUpload(r)
        BY <2>2, <4>1 DEF RemoveUpload, Removed
      <4>2. CASE OpenUpload(r) \/ OpenDenied(r) \/ Receive(r)
        BY <4>2 DEF OpenUpload, OpenDenied, Receive
      <4>3. CASE StoreStep(r)
        BY <4>3 DEF StoreStep, StoreCheck, StoreName, Preflight, PreflightName,
              CreateNode, StartChunks, StoreChunks, FinishRead, FinishWrite
      <4>4. CASE Find(r) \/ MapChunks(r)
        BY <3>3, <4>4 DEF Find, MapChunks
      <4>5. CASE SetType(r) \/ AppendName(r) \/ RequestFails(r) \/ DatabaseGone(r)
        BY <4>5 DEF SetType, AppendName, RequestFails, DatabaseGone, LeaveWorkers
      <4> QED
        BY <1>3, <3>2, <4>1, <4>2, <4>3, <4>4, <4>5, Zenon DEF RequestStep
    <3> QED
      BY <3>1, <3>3, <3>4
  <2> QED
    BY <1>1, <2>1, <2>2
<1> QED
  BY <1>2, <1>3 DEF Next

(* The server keeps no upload of a request that was answered with success. *)
THEOREM UploadsRemoved == Spec => []UploadsGone
<1>1. Init => Uploads
  BY InitHistory
<1>2. Uploads => UploadsGone
  BY DEF Uploads, UploadsGone
<1> QED
  BY <1>1, <1>2, UploadsStep, Invariance, PTL DEF Spec

-----------------------------------------------------------------------------
(* Where a request writes, and what.                                       *)
Writes(r) ==
  \/ UNCHANGED node
  \/ /\ pc[r] \in Holding
     /\ \E n \in Node :
          /\ node' = [node EXCEPT ![Held(r)] = n]
          /\ pc[r] # "create" =>
               view[r].names \subseteq n.names /\ (view[r].completed => n.completed)

LEMMA RequestWrites ==
  ASSUME IInv, NEW r \in Requests, RequestStep(r)
  PROVE  Writes(r)
<1> USE DEF Db, Writes, Holding, Held
<1>1. CASE UNCHANGED node
  BY <1>1
<1>2. CASE StoreName(r) \/ PreflightName(r)
  <2>1. view[r] \in Node
    BY <1>2 DEF StoreName, PreflightName, IInv, AllGood, RequestGood, ViewGood
  <2> DEFINE n == [view[r] EXCEPT !.names = @ \cup {r}]
  <2>2. n \in Node /\ view[r].names \subseteq n.names /\ n.completed = view[r].completed
    BY <2>1 DEF Node
  <2>3. node' = [node EXCEPT ![Held(r)] = n] /\ pc[r] \in {"name", "preflightName"}
    BY <1>2 DEF StoreName, PreflightName, Set
  <2> HIDE DEF n
  <2> QED
    BY <2>2, <2>3
<1>3. CASE CreateNode(r)
  <2>1. [names |-> {r}, completed |-> FALSE, type |-> None] \in Node
    BY DEF Node
  <2> QED
    BY <1>3, <2>1 DEF CreateNode, Set
<1>4. CASE FinishWrite(r)
  <2>1. view[r] \in Node
    BY <1>4 DEF FinishWrite, IInv, AllGood, RequestGood, ViewGood
  <2> DEFINE n == [view[r] EXCEPT !.completed = TRUE]
  <2>2. n \in Node /\ n.names = view[r].names /\ n.completed
    BY <2>1 DEF Node
  <2>3. node' = [node EXCEPT ![Held(r)] = n] /\ pc[r] = "complete"
    BY <1>4 DEF FinishWrite, Set
  <2> HIDE DEF n
  <2> QED
    BY <2>2, <2>3
<1>5. CASE SetType(r)
  <2>1. view[r] \in Node /\ call[r].type \in Types
    BY <1>5, CallFields DEF SetType, IInv, AllGood, RequestGood, ViewGood,
       CallGiven
  <2> DEFINE n == [view[r] EXCEPT !.type = call[r].type]
  <2>2. n \in Node /\ n.names = view[r].names /\ n.completed = view[r].completed
    BY <2>1 DEF Node
  <2>3. node' = [node EXCEPT ![Held(r)] = n] /\ pc[r] = "setType"
    BY <1>5 DEF SetType, Set
  <2> HIDE DEF n
  <2> QED
    BY <2>2, <2>3
<1>6. CASE AppendName(r)
  <2>1. view[r] \in Node /\ call[r].path \in Paths
    BY <1>6, CallFields DEF AppendName, IInv, AllGood, RequestGood, ViewGood,
       CallGiven
  <2> DEFINE n == [view[r] EXCEPT !.names = @ \cup {call[r].path}]
  <2>2. n \in Node /\ view[r].names \subseteq n.names /\ n.completed = view[r].completed
    BY <2>1 DEF Node
  <2>3. node' = [node EXCEPT ![Held(r)] = n] /\ pc[r] = "append"
    BY <1>6 DEF AppendName, Set
  <2> HIDE DEF n
  <2> QED
    BY <2>2, <2>3
<1>7. CASE UNCHANGED database
  BY <1>7 DEF database
<1> HIDE DEF Writes
<1> QED
  BY <1>1, <1>2, <1>3, <1>4, <1>5, <1>6, <1>7, Zenon
     DEF RequestStep, StoreStep, Request, OpenUpload, OpenDenied, Receive,
         StoreCheck, Preflight, StartChunks, StoreChunks, FinishRead, Find, MapChunks,
         RemoveUpload, RequestFails, DatabaseGone, LeaveWorkers

(* A node no two requests have used at the same time only grows.           *)
Grows(h) ==
  node[h] # None =>
    /\ node'[h] # None /\ node[h].names \subseteq node'[h].names
    /\ node[h].completed => node'[h].completed

LEMMA HeldTouched ==
  ASSUME IInv, NEW q \in Requests, pc[q] \in Holding
  PROVE  /\ call[q] \in Calls /\ Running(q)
         /\ Held(q) \in Touched(call[q]) /\ Held(q) \in Hashes
<1>1. call[q] \in Calls
  BY DEF IInv, AllGood, RequestGood, CallGiven, Holding
<1>2. pc[q] # "append" => call[q].kind = "stream"
  BY DEF IInv, AllGood, RequestGood, Streams, Storing, Holding
<1> QED
  BY <1>1, <1>2, CallFields DEF Held, Touched, Holding, Running, Over

LEMMA NodesGrow ==
  ASSUME IInv, TellGood, [Next]_vars, NEW h \in Hashes, h \notin overlapped
  PROVE  Grows(h)
<1>1. CASE ServerStep \/ UNCHANGED vars
  BY <1>1, ServerFrame DEF IInv, database, Grows
<1>2. ASSUME NEW r \in Requests, RequestStep(r) PROVE Grows(h)
  <2>1. CASE UNCHANGED node
    BY <2>1 DEF Grows
  <2>2. CASE ~UNCHANGED node
    <3>1. Writes(r)
      BY <1>2, RequestWrites
    <3>2. PICK n \in Node : /\ pc[r] \in Holding
                            /\ node' = [node EXCEPT ![Held(r)] = n]
                            /\ pc[r] # "create" =>
                                 /\ view[r].names \subseteq n.names
                                 /\ view[r].completed => n.completed
      BY <2>2, <3>1, Zenon DEF Writes
    <3>3. node \in [Hashes -> Node \cup {None}] /\ n # None
      BY NoneAssumption DEF IInv, TypeOK
    <3>4. CASE Held(r) = h
      <4>1. view[r] = node[h] /\ (pc[r] = "create" => view[r] = None)
        BY <3>2, <3>4 DEF TellGood, ToldGood, ViewFresh, ViewCompleted
      <4>2. node'[h] = n
        BY <3>2, <3>3, <3>4
      <4> QED
        BY <3>2, <3>3, <4>1, <4>2 DEF Grows
    <3>5. CASE Held(r) # h
      BY <3>2, <3>3, <3>5 DEF Grows
    <3> QED
      BY <3>4, <3>5
  <2> QED
    BY <2>1, <2>2
<1> QED
  BY <1>1, <1>2 DEF Next

(* A node that a request holds for itself is written by nobody else.       *)
LEMMA HeldStays ==
  ASSUME IInv, Alone, NEW r \in Requests, RequestStep(r), NEW q \in Requests,
         q # r, pc[q] \in Holding, Held(q) \notin overlapped
  PROVE  node'[Held(q)] = node[Held(q)]
<1>1. CASE UNCHANGED node
  BY <1>1
<1>2. CASE ~UNCHANGED node
  <2>1. PICK n \in Node : pc[r] \in Holding /\ node' = [node EXCEPT ![Held(r)] = n]
    BY <1>2, RequestWrites, Zenon DEF Writes
  <2>2. Held(r) # Held(q)
    BY <2>1, HeldTouched DEF Alone
  <2> QED
    BY <2>1, <2>2, HeldTouched DEF IInv, TypeOK
<1> QED
  BY <1>1, <1>2

LEMMA AloneStep == IInv /\ Alone /\ [Next]_vars => Alone'
<1> SUFFICES ASSUME IInv, Alone, [Next]_vars PROVE Alone'
  OBVIOUS
<1>1. TypeOK /\ Frame
  BY FrameStep DEF IInv
<1>2. CASE ServerStep \/ UNCHANGED vars
  <2>1. UNCHANGED <<call, overlapped>>
    BY <1>1, <1>2, ServerFrame
  <2>2. \A q \in Requests : Running(q)' => Running(q)
    BY <1>1, <1>2, ServerLeaves DEF Running, Over
  <2> QED
    BY <2>1, <2>2 DEF Alone
<1>3. ASSUME NEW r \in Requests, RequestStep(r) PROVE Alone'
  <2>1. RequestKeeps(r)
    BY <1>1, <1>3, RequestFrame
  <2>2. \A q \in Requests \ {r} : Running(q)' <=> Running(q)
    BY <1>1, <1>3, RequestLeaves DEF Running
  <2>3. \A q \in Requests : Running(q) => call'[q] = call[q]
    BY <1>1, RunningBegun DEF Frame
  <2>4. CASE pc[r] # "idle"
    <3>1. Running(r) /\ overlapped' = overlapped
      BY <2>1, <2>4 DEF RequestKeeps
    <3> QED
      BY <2>2, <2>3, <3>1 DEF Alone
  <2>5. CASE pc[r] = "idle"
    <3>1. PICK c \in Calls : Request(r, c)
      BY <1>3, <2>1, <2>5 DEF RequestStep, RequestKeeps, StoreStep, StoreCheck,
         StoreName,
         Preflight, PreflightName, CreateNode, StartChunks, StoreChunks, FinishRead, FinishWrite,
         Find, SetType, AppendName, MapChunks, RemoveUpload, RequestFails,
         DatabaseGone, LeaveWorkers, OpenUpload, OpenDenied, Receive, At, Db, Running, Over, DbSteps
    <3>2. call'[r] = c /\ overlapped \subseteq overlapped'
      BY <1>1, <3>1 DEF Request, TypeOK
    <3>3. \A q \in Requests :
            Running(q) => Touched(c) \cap Touched(call[q]) \subseteq overlapped'
      BY <3>1 DEF Request
    <3> QED
      BY <2>2, <2>3, <3>2, <3>3 DEF Alone
  <2> QED
    BY <2>4, <2>5
<1> QED
  BY <1>2, <1>3 DEF Next

LEMMA OtherTold ==
  ASSUME IInv, TellGood, Frame, [Next]_vars, NEW q \in Requests,
         pc'[q] \in {pc[q], "dead"}, view'[q] = view[q], answer'[q] = answer[q],
         pc'[q] # "idle" => pc[q] # "idle",
         overlapped \subseteq overlapped', hit \subseteq hit',
         uploads = "locked" => uploads' = "locked",
         pc[q] \in Holding /\ Held(q) \notin overlapped =>
           node'[Held(q)] = node[Held(q)]
  PROVE  ToldGood(q)'
<1> USE DEF TellGood, ToldGood
<1>1. CASE pc'[q] \in {"idle", "dead"}
  BY <1>1 DEF ViewFresh, ViewCompleted, AnswerGood, Promised, Told, Holding
<1>2. CASE pc'[q] = pc[q] /\ pc[q] \notin {"idle", "dead"}
  <2>1. call'[q] = call[q] /\ call[q] \in Calls
    BY <1>2 DEF Frame, IInv, AllGood, RequestGood, CallGiven
  <2>2. call[q].content \in Hashes /\ call[q].claims \in Hashes
    BY <2>1, CallFields
  <2>3. ViewFresh(q)'
    BY <1>2, <2>1 DEF ViewFresh, Held, Holding
  <2>4. ViewCompleted(q)' /\ AnswerGood(q)'
    BY <1>2, <2>1 DEF ViewCompleted, AnswerGood
  <2>5. ASSUME Apart(q)' PROVE Promised(q)'
    <3>1. Apart(q)
      BY <2>1, <2>5, NoneAssumption DEF Apart
    <3>2. call[q].claims \notin overlapped
      BY <2>1, <3>1, CallFields DEF Apart, Touched
    <3>3. Grows(call[q].claims)
      BY <2>2, <3>2, NodesGrow
    <3>4. Completed(call[q].claims) => Completed(call[q].claims)'
      BY <2>1, <3>3 DEF Grows, Completed
    <3>5. call[q].kind = "stream" /\ Completed(call[q].content) => Completed(call[q].content)'
      BY <2>1, <2>2, <3>1, NodesGrow DEF Grows, Completed, Apart, Touched
    <3> QED
      <4>1. call[q].claims \in atRisk => call'[q].claims \in atRisk'
        BY <2>1 DEF Frame
      <4> QED
        BY <1>2, <2>1, <3>1, <3>3, <3>4, <3>5, <4>1 DEF Promised, Told, Grows,
           Completed
  <2> QED
    BY <2>3, <2>4, <2>5
<1> QED
  BY <1>1, <1>2

LEMMA OwnTold ==
  ASSUME IInv, TellGood, Frame, NEW r \in Requests, RequestStep(r)
  PROVE  ToldGood(r)'
<1> USE DEF Db, At, Goto, Answer, Look, Over
<1>1. ToldGood(r) /\ RequestGood(r) /\ TypeOK
  BY DEF TellGood, IInv, AllGood
<1>2. ASSUME NEW c \in Calls, Request(r, c) PROVE ToldGood(r)'
  <2>1. /\ pc[r] = "idle" /\ pc'[r] = IF c.kind = "stream" THEN "open" ELSE "find"
        /\ call'[r] = c /\ answer'[r] = answer[r]
    BY <1>1, <1>2 DEF Request, TypeOK
  <2> QED
    BY <1>1, <2>1 DEF ToldGood, ViewFresh, ViewCompleted, AnswerGood, Promised,
                      Told, Holding
<1>3. ASSUME pc[r] # "idle"
      PROVE  /\ call'[r] = call[r] /\ call[r] \in Calls
             /\ call[r].content \in Hashes /\ call[r].claims \in Hashes
             /\ call[r].kind \in {"stream", "append"}
  BY <1>1, <1>3, CallFields DEF Frame, RequestGood, CallGiven
<1>4. ASSUME pc[r] # "idle", Apart(r)' PROVE Promised(r) /\ Apart(r)
  <2>1. overlapped' = overlapped
    BY <1>1, <1>4, RequestFrame DEF RequestKeeps
  <2> QED
    BY <1>1, <1>3, <1>4, <2>1 DEF Apart, ToldGood
<1> USE <1>1 DEF TypeOK
<1>5. CASE OpenUpload(r) \/ OpenDenied(r) \/ Receive(r)
  <2>1. /\ pc[r] # "idle"
        /\ \/ pc'[r] \in {"receive", "check"} /\ answer'[r] = answer[r]
           \/ pc'[r] = "over" /\ answer'[r] = "error" /\ uploads' = "locked"
    BY <1>5 DEF OpenUpload, OpenDenied, Receive, process
  <2>2. answer[r] = None \/ pc'[r] = "over"
    BY <1>5 DEF OpenUpload, OpenDenied, Receive, ToldGood, AnswerGood
  <2> QED
    BY <1>3, <2>1, <2>2 DEF ToldGood, ViewFresh, ViewCompleted, AnswerGood,
       Promised,
                      Told, Holding
<1>6. CASE StoreStep(r)
  <2>1. pc[r] # "idle" /\ answer' = answer /\ answer[r] = None
    BY <1>6 DEF StoreStep, StoreCheck, StoreName, Preflight, PreflightName,
            CreateNode, StartChunks, StoreChunks, FinishRead, FinishWrite, ToldGood, AnswerGood
  <2>2. CASE StoreCheck(r) \/ Preflight(r) \/ FinishRead(r)
    <3>1. /\ view'[r] = node[call[r].content] /\ node' = node
          /\ pc'[r] \in {"name", "preflightName"} => Completed(call[r].content)
          /\ pc'[r] = "create" => node[call[r].content] = None
          /\ pc'[r] \in {"name", "preflight", "preflightName", "create", "data", "complete"}
      BY <2>2 DEF StoreCheck, Preflight, FinishRead, database
    <3> QED
      BY <1>3, <2>1, <3>1 DEF ToldGood, ViewFresh, ViewCompleted, AnswerGood,
         Promised,
                      Told, Holding, Held, Completed
  <2>3. CASE PreflightName(r) \/ CreateNode(r) \/ StartChunks(r) \/ StoreChunks(r)
    <3>1. pc'[r] \in {"finish", "data", "store"}
      BY <2>3 DEF PreflightName, CreateNode, StartChunks, StoreChunks
    <3> QED
      BY <2>1, <3>1 DEF ToldGood, ViewFresh, ViewCompleted, AnswerGood,
         Promised,
                      Told, Holding
  <2>4. CASE StoreName(r) \/ FinishWrite(r)
    <3>1. view[r] \in Node /\ pc'[r] = "find"
      BY <2>4 DEF StoreName, FinishWrite, RequestGood, ViewGood
    <3>2. PICK n \in Node : n.completed /\ node' = [node EXCEPT ![call[r].content] = n]
      <4>1. CASE StoreName(r)
        <5> DEFINE n == [view[r] EXCEPT !.names = @ \cup {r}]
        <5>1. view[r].completed
          BY <4>1 DEF StoreName, ToldGood, ViewCompleted
        <5>2. n \in Node /\ n.completed
          BY <3>1, <5>1 DEF Node
        <5>3. node' = [node EXCEPT ![call[r].content] = n]
          BY <4>1 DEF StoreName, Set
        <5> HIDE DEF n
        <5> QED
          BY <5>2, <5>3
      <4>2. CASE FinishWrite(r)
        <5> DEFINE n == [view[r] EXCEPT !.completed = TRUE]
        <5>1. n \in Node /\ n.completed
          BY <3>1 DEF Node
        <5>2. node' = [node EXCEPT ![call[r].content] = n]
          BY <4>2 DEF FinishWrite, Set
        <5> HIDE DEF n
        <5> QED
          BY <5>1, <5>2
      <4> QED
        BY <2>4, <4>1, <4>2
    <3>3. Completed(call[r].content)'
      BY <1>3, <2>1, <3>2, NoneAssumption DEF Completed
    <3> QED
      BY <1>3, <2>1, <3>1, <3>3 DEF ToldGood, ViewFresh, ViewCompleted,
         AnswerGood,
                      Promised, Told, Holding
  <2> QED
    BY <1>6, <2>2, <2>3, <2>4 DEF StoreStep
<1>7. CASE Find(r)
  <2>1. pc[r] = "find" /\ answer[r] = None /\ node' = node /\ view'[r] = node[call[r].claims]
    BY <1>7 DEF Find, database, ToldGood, AnswerGood
  <2>2. CASE Completed(call[r].claims)
    <3>1. \/ pc'[r] = "setType" /\ call[r].kind = "stream" /\ answer'[r] = None
          \/ /\ pc'[r] = "map" /\ call[r].kind = "append" /\ answer'[r] = "exists"
             /\ call[r].path \in node[call[r].claims].names
          \/ pc'[r] = "append" /\ call[r].kind = "append" /\ answer'[r] = None
      BY <1>3, <1>7, <2>1, <2>2 DEF Find, UsableNode
    <3> QED
      BY <1>3, <2>1, <2>2, <3>1 DEF ToldGood, ViewFresh, ViewCompleted,
         AnswerGood,
                      Promised, Told, Holding, Held, Completed
  <2>3. CASE ~Completed(call[r].claims)
    <3>1. pc'[r] = "over" /\ answer'[r] = IF call[r].kind = "stream" THEN "error" ELSE "absent"
      BY <1>7, <2>3 DEF Find, UsableNode
    <3>2. ASSUME Apart(r)', call[r].kind = "stream" PROVE call[r].claims # call[r].content
      BY <1>4, <2>1, <2>3, <3>2 DEF Promised
    <3> QED
      BY <1>3, <2>1, <3>1, <3>2 DEF ToldGood, ViewFresh, ViewCompleted,
         AnswerGood,
                      Promised, Told, Holding
  <2> QED
    BY <2>2, <2>3
<1>8. CASE SetType(r) \/ AppendName(r)
  <2>1. /\ pc[r] \in {"setType", "append"} /\ pc'[r] = "map" /\ view[r] \in Node
        /\ view[r].completed /\ answer[r] = None
    BY <1>8 DEF SetType, AppendName, ToldGood, ViewCompleted, AnswerGood,
       RequestGood, ViewGood
  <2>2. PICK n \in Node : /\ n.completed
                          /\ node' = [node EXCEPT ![call[r].claims] = n]
                          /\ AppendName(r) => call[r].path \in n.names
    <3>1. CASE SetType(r)
      <4> DEFINE n == [view[r] EXCEPT !.type = call[r].type]
      <4>1. n \in Node /\ n.completed
        BY <1>3, <2>1, CallFields DEF Node
      <4>2. node' = [node EXCEPT ![call[r].claims] = n]
        BY <3>1 DEF SetType, Set
      <4>3. ~AppendName(r)
        BY <3>1 DEF SetType, AppendName
      <4> HIDE DEF n
      <4> QED
        BY <4>1, <4>2, <4>3
    <3>2. CASE AppendName(r)
      <4> DEFINE n == [view[r] EXCEPT !.names = @ \cup {call[r].path}]
      <4>1. n \in Node /\ n.completed /\ call[r].path \in n.names
        BY <1>3, <2>1, CallFields DEF Node
      <4>2. node' = [node EXCEPT ![call[r].claims] = n]
        BY <3>2 DEF AppendName, Set
      <4> HIDE DEF n
      <4> QED
        BY <4>1, <4>2
    <3> QED
      BY <1>8, <3>1, <3>2
  <2>3. node'[call[r].claims] = n /\ n # None
    BY <1>3, <2>1, <2>2, NoneAssumption
  <2>4. IF AppendName(r) THEN answer'[r] = "appended" /\ call[r].kind = "append"
                         ELSE answer'[r] = None
    BY <1>8, <2>1 DEF SetType, AppendName, ToldGood, AnswerGood
  <2>5. Completed(call[r].claims)'
    BY <1>3, <2>1, <2>2, <2>3 DEF Completed
  <2>6. ASSUME answer'[r] \in {"appended", "exists"}
        PROVE  call'[r].path \in node'[call'[r].claims].names
    <3>1. AppendName(r)
      BY <2>4, <2>6, NoneAssumption DEF Answers
    <3> QED
      BY <1>3, <2>1, <2>2, <2>3, <3>1
  <2>7. Promised(r)'
    BY <1>3, <2>1, <2>5, <2>6 DEF Promised, Told
  <2>8. ViewFresh(r)' /\ ViewCompleted(r)'
    BY <2>1 DEF ViewFresh, ViewCompleted, Holding
  <2>9. AnswerGood(r)'
    BY <1>3, <2>1, <2>4 DEF AnswerGood
  <2> QED
    BY <2>7, <2>8, <2>9 DEF ToldGood
<1>9. CASE MapChunks(r)
  <2>1. pc[r] = "map" /\ UNCHANGED node
    BY <1>9 DEF MapChunks, database
  <2>2. CASE /\ UNCHANGED answer
             /\ pc'[r] = IF call[r].kind = "stream" THEN "remove" ELSE "over"
    <3>1. /\ pc[r] = "map" /\ UNCHANGED <<node, answer>>
          /\ pc'[r] = IF call[r].kind = "stream" THEN "remove" ELSE "over"
      BY <2>1, <2>2
    <3>2. \/ answer[r] = None
          \/ call[r].kind = "append" /\ answer[r] \in {"appended", "exists"}
      BY <3>1 DEF ToldGood, AnswerGood
    <3>3. ASSUME Apart(r)' PROVE Promised(r)'
      <4>1. /\ Completed(call[r].claims)
            /\ answer[r] \in {"appended", "exists"} =>
                 call[r].path \in node[call[r].claims].names
        BY <1>4, <3>1, <3>3 DEF Promised
      <4>2. Completed(call[r].claims)' <=> Completed(call[r].claims)
        BY <1>3, <3>1 DEF Completed
      <4>3. call'[r] = call[r] /\ node' = node /\ answer'[r] = answer[r]
        BY <1>3, <3>1
      <4>4. pc'[r] \in {"remove", "over"} /\ answer[r] # "error"
        BY <1>3, <3>1, <3>2, NoneAssumption DEF Answers
      <4> QED
        BY <4>1, <4>2, <4>3, <4>4 DEF Promised, Told
    <3>4. ViewFresh(r)' /\ ViewCompleted(r)'
      BY <1>3, <3>1 DEF ViewFresh, ViewCompleted, Holding
    <3>5. AnswerGood(r)'
      BY <1>3, <3>1, <3>2 DEF AnswerGood
    <3> QED
      BY <3>3, <3>4, <3>5 DEF ToldGood
  <2>3. CASE pc'[r] = "over" /\ answer'[r] = "error" /\ call[r].claims \in atRisk
    <3>1. call'[r].claims \in atRisk'
      BY <1>3, <2>1, <2>3 DEF Frame
    <3> QED
      BY <2>3, <3>1 DEF ToldGood, ViewFresh, ViewCompleted, AnswerGood,
         Promised, Told, Holding
  <2> QED
    BY <1>9, <2>2, <2>3 DEF MapChunks
<1>10. CASE RemoveUpload(r)
  <2>1. pc[r] = "remove" /\ pc'[r] = "over" /\ answer'[r] = "done" /\ UNCHANGED node
    BY <1>10 DEF RemoveUpload, database
  <2> QED
    BY <1>3, <1>4, <2>1 DEF ToldGood, ViewFresh, ViewCompleted, AnswerGood,
                      Promised, Told, Holding, Completed
<1>11. CASE RequestFails(r) \/ DatabaseGone(r)
  <2>1. pc'[r] = "over" /\ answer'[r] = "error" /\ r \in hit'
    BY <1>11 DEF RequestFails, DatabaseGone, LeaveWorkers
  <2> QED
    BY <2>1 DEF ToldGood, ViewFresh, ViewCompleted, AnswerGood, Promised, Told,
       Holding
<1> QED
  BY <1>2, <1>5, <1>6, <1>7, <1>8, <1>9, <1>10, <1>11 DEF RequestStep

LEMMA ToldStep == IInv /\ TellGood /\ [Next]_vars => TellGood'
<1> SUFFICES ASSUME IInv, TellGood, [Next]_vars PROVE TellGood'
  OBVIOUS
<1>1. Alone' /\ Frame /\ TypeOK
  BY AloneStep, FrameStep DEF IInv, TellGood
<1>2. ASSUME ServerStep \/ UNCHANGED vars, NEW q \in Requests PROVE ToldGood(q)'
  <2>1. /\ UNCHANGED <<node, view, answer, hit, overlapped>>
        /\ uploads = "locked" => uploads' = "locked"
    BY <1>1, <1>2, ServerFrame DEF database
  <2>2. pc'[q] \in {pc[q], "dead"} /\ (pc'[q] # "idle" => pc[q] # "idle")
    BY <1>1, <1>2, ServerLeaves
  <2> QED
    BY <1>1, <2>1, <2>2, OtherTold
<1>3. ASSUME NEW r \in Requests, RequestStep(r), NEW q \in Requests PROVE ToldGood(q)'
  <2>1. CASE q = r
    BY <1>1, <1>3, <2>1, OwnTold
  <2>2. CASE q # r
    <3>1. pc'[q] = pc[q] /\ view'[q] = view[q]
      BY <1>1, <1>3, <2>2, RequestLeaves
    <3>2. /\ overlapped \subseteq overlapped' /\ hit \subseteq hit'
          /\ answer'[q] = answer[q] /\ uploads' = uploads
      BY <1>1, <1>3, <2>2, RequestFrame DEF RequestKeeps, process
    <3>3. pc[q] \in Holding /\ Held(q) \notin overlapped => node'[Held(q)] = node[Held(q)]
      BY <1>3, <2>2, HeldStays DEF TellGood
    <3> QED
      BY <1>1, <3>1, <3>2, <3>3, OtherTold
  <2> QED
    BY <2>1, <2>2
<1>4. \A q \in Requests : ToldGood(q)'
  BY <1>2, <1>3 DEF Next
<1> QED
  BY <1>1, <1>4 DEF TellGood

(* What a client has been told stays true, over stops and crashes: the     *)
(* file of a StreamFile request is completed, the name of an AppendIfExists *)
(* request is on it.                                                       *)
THEOREM ToldStays == Spec => []ToldStaysTrue
<1>1. Init => TellGood
  BY InitHistory
<1>2. TellGood => ToldStaysTrue
  BY DEF TellGood, ToldGood, Promised, ToldStaysTrue, Told
<1> QED
  BY <1>1, <1>2, ToldStep, Invariance, PTL DEF Spec

(* A StreamFile request for a file that is what the client says it is      *)
(* fails only for a reason: a call that failed, a stop, an uploads         *)
(* directory the server may not write to, a request for the same file at   *)
(* the same time, or bytes that uploads may have lost: with containers     *)
(* from the second upload on, with chunk files by uploads that failed, ran *)
(* side by side or were killed (StartChunks, LeaveWorkers, Die).           *)
THEOREM ErrorsCaused == Spec => []ErrorsHaveCause
<1>1. Init => TellGood
  BY InitHistory
<1>2. TellGood => ErrorsHaveCause
  BY DEF TellGood, ToldGood, Promised, ErrorsHaveCause, Told
<1> QED
  BY <1>1, <1>2, ToldStep, Invariance, PTL DEF Spec
=============================================================================
