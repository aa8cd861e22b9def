------------------------------ MODULE Service ------------------------------
(***************************************************************************)
(* The server: its start and stop in api/api.go and the requests           *)
(* StreamFile and AppendIfExists of lib/server and lib/service.            *)
(*                                                                         *)
(* A StreamFile request copies what the client sends to a file of its own  *)
(* in the uploads directory, stores that file as the store command does,   *)
(* and then sets the type on the evidence node of the hash the client has  *)
(* named, which nobody compares with that of the file.  AppendIfExists     *)
(* adds a name to the node of a completed file.  Every update of a node is *)
(* a read and, later, a write of the whole node.  At its end each of them  *)
(* reads every chunk of the file, from the chunk files or the containers   *)
(* that uploads have written; atRisk are the files whose bytes may not be  *)
(* there any more.  Which bytes are lost is module EvidenceStore's.        *)
(*                                                                         *)
(* Shutdown waits ten seconds for the requests it knows; those on hijacked *)
(* connections, which is how h2c serves HTTP/2, it does not know.          *)
(***************************************************************************)
EXTENDS Integers

CONSTANTS
  Requests,    \* requests; a StreamFile request also names its upload
  Calls,       \* bound: what requests may ask for
  Earlier,     \* bound: evidence nodes that earlier runs have left
  Spoilt,      \* bound: files whose bytes they may have lost
  Hashes,      \* hashes of evidence files
  Common,      \* those with a chunk that repeats or that another file has too
  Paths,       \* file paths that clients give
  Types,       \* file types that clients give
  MaxFaults,   \* bound: file, network and database calls that fail
  MaxStarts,   \* bound: starts of the server
  None

Call == [kind : {"stream", "append"}, http2 : BOOLEAN, content : Hashes,
         claims : Hashes, path : Paths, type : Types]

ASSUME CallsAssumption == Calls \subseteq Call
ASSUME CommonAssumption == Common \subseteq Hashes /\ Spoilt \subseteq SUBSET Hashes
ASSUME NamesAssumption == Requests \cap Paths = {}
ASSUME BoundsAssumption == MaxFaults \in Nat /\ MaxStarts \in Nat

VARIABLES
  server,     \* where Server is
  starts,
  uploads,    \* the uploads directory
  temp,       \* uploads in it
  node,       \* evidence nodes
  stored,     \* files whose chunks and relations are all in the database
  layout,     \* where chunks are: "files"; "fresh", containers nobody has
              \* opened yet; or "containers"
  atRisk,     \* files of which chunks' bytes may be lost
  call,       \* what a request asks for
  pc,         \* where it is
  view,       \* the node it has read
  answer,
  faults,
  hit,        \* history: requests that a failed call or a stop has hit
  cutOff,     \* history: requests under which the database was closed
  abrupt,     \* history: Server has ended without a full Shutdown
  overlapped  \* history: hashes that requests have used at the same time

process == <<server, starts, uploads>>
bytes == <<layout, atRisk>>
database == <<node, stored, bytes>>
history == <<cutOff, abrupt, overlapped>>
vars == <<process, temp, database, call, pc, view, answer, faults, hit, history>>

Node == [names : SUBSET (Paths \cup Requests), completed : BOOLEAN,
         type : Types \cup {None}]

ASSUME EarlierAssumption == Earlier \subseteq [Hashes -> Node \cup {None}]
Answers == {"error", "done", "appended", "exists", "absent"}

ASSUME NoneAssumption == None \notin Calls \cup Types \cup Node \cup Answers

Completed(h) == node[h] # None /\ node[h].completed

Over == {"idle", "over", "dead"}
Running(r) == pc[r] \notin Over

Fault == faults < MaxFaults /\ faults' = faults + 1

Init ==
  /\ server = "down" /\ starts = 0
  /\ uploads \in {"none", "open"} /\ temp = {}
  /\ node \in Earlier
  /\ stored = {h \in Hashes : Completed(h)}
  /\ layout \in {"files", "fresh", "containers"} /\ atRisk \in Spoilt
  /\ layout = "fresh" => \A h \in Hashes : node[h] = None
  /\ call = [r \in Requests |-> None] /\ pc = [r \in Requests |-> "idle"]
  /\ view = [r \in Requests |-> None] /\ answer = [r \in Requests |-> None]
  /\ faults = 0 /\ hit = {}
  /\ cutOff = {} /\ abrupt = FALSE /\ overlapped = {}

-----------------------------------------------------------------------------
(* Server.                                                                 *)

RequestState == <<temp, database, call, pc, view, answer>>

(* A started server makes the uploads directory if there is none, without  *)
(* a permission bit: a process that is not privileged can make no file     *)
(* in it.                                                                  *)
Start ==
  /\ server = "down" /\ starts < MaxStarts
  /\ starts' = starts + 1
  /\ uploads' \in IF uploads = "none" THEN {"open", "locked"} ELSE {uploads}
  /\ server' = "boot"
  /\ UNCHANGED <<RequestState, faults, hit, history>>

(* It opens the database and the blob directory and listens.               *)
Boot ==
  /\ server = "boot"
  /\ server' = "up"
  /\ UNCHANGED <<starts, uploads, RequestState, faults, hit, history>>

BootFails ==
  /\ server = "boot"
  /\ Fault
  /\ server' = "down"
  /\ UNCHANGED <<starts, uploads, RequestState, hit, history>>

Signal ==
  /\ server = "up"
  /\ server' = "stopping"
  /\ UNCHANGED <<starts, uploads, RequestState, faults, hit, history>>

Known == {r \in Requests : Running(r) /\ ~call[r].http2}

(* Mutant: the server does not wait for requests.                          *)
MutShutdown ==
  /\ server = "stopping"
  /\ server' = "released"
  /\ UNCHANGED <<starts, uploads, RequestState, faults, hit, history>>

(* Shutdown has waited for what it knows; the encoder and the decoder are  *)
(* released while the database is still open.                              *)
Shutdown ==
  /\ server = "stopping" /\ Known = {}
  /\ server' = "released"
  /\ UNCHANGED <<starts, uploads, RequestState, faults, hit, history>>

ShutdownTimesOut ==
  /\ server = "stopping" /\ Known # {}
  /\ server' = "returning" /\ abrupt' = TRUE
  /\ UNCHANGED <<starts, uploads, RequestState, faults, hit, cutOff,
                 overlapped>>

(* The deferred Close; listening may also fail while the server is up.     *)
CloseDatabase ==
  /\ \/ server \in {"released", "returning"} /\ UNCHANGED <<faults, abrupt>>
     \/ server = "up" /\ Fault /\ abrupt' = TRUE
  /\ server' = "closed"
  /\ cutOff' = cutOff \cup {r \in Requests : Running(r)}
  /\ UNCHANGED <<starts, uploads, RequestState, hit, overlapped>>

(* Files that have a chunk in common with h, h itself among them.          *)
Entangled(h) == IF h \in Common THEN Common ELSE {h}

InStore(hs) ==
  layout = "files" /\ \E r \in Requests : pc[r] = "store" /\ call[r].content \in hs

(* A worker rewrites the file of a chunk that another worker has already   *)
(* recorded, when both have found no entry: the end of the process leaves  *)
(* it cut.                                                                 *)
Die ==
  /\ server' = "down"
  /\ pc' = [r \in Requests |-> IF Running(r) THEN "dead" ELSE pc[r]]
  /\ atRisk' = IF InStore(Common) THEN atRisk \cup Common ELSE atRisk
  /\ UNCHANGED <<starts, uploads, temp, node, stored, layout, call, view,
                 answer, faults, hit, history>>

Exit == server = "closed" /\ Die

Crash == server \notin {"down", "closed"} /\ starts < MaxStarts /\ Die

-----------------------------------------------------------------------------
(* What a client may ask for.  A hijacked connection carries requests      *)
(* during Shutdown too.                                                    *)

Touched(c) == IF c.kind = "stream" THEN {c.content, c.claims} ELSE {c.claims}

Request(r, c) ==
  /\ pc[r] = "idle"
  /\ server = "up" \/ (server = "stopping" /\ c.http2)
  /\ call' = [call EXCEPT ![r] = c]
  /\ pc' = [pc EXCEPT ![r] = IF c.kind = "stream" THEN "open" ELSE "find"]
  /\ overlapped' = overlapped \cup
       (Touched(c) \cap UNION {Touched(call[q]) : q \in {q \in Requests : Running(q)}})
  /\ UNCHANGED <<process, temp, database, view, answer, faults, hit, cutOff,
                 abrupt>>

At(r, l) == server # "down" /\ pc[r] = l
Goto(r, l) == pc' = [pc EXCEPT ![r] = l]
Answer(r, a) ==
  /\ Goto(r, "over")
  /\ answer' = [answer EXCEPT ![r] = a]

(* uploadFile, which opens a file of the request's own.                    *)
OpenUpload(r) ==
  /\ At(r, "open") /\ uploads = "open"
  /\ temp' = temp \cup {r}
  /\ Goto(r, "receive")
  /\ UNCHANGED <<process, database, call, view, answer, faults, hit, history>>

OpenDenied(r) ==
  /\ At(r, "open") /\ uploads = "locked"
  /\ Answer(r, "error")
  /\ UNCHANGED <<process, temp, database, call, view, faults, hit, history>>

Receive(r) ==
  /\ At(r, "receive")
  /\ Goto(r, "check")
  /\ UNCHANGED <<process, temp, database, call, view, answer, faults, hit, history>>

-----------------------------------------------------------------------------
(* StoreFile, for the content of the upload and under the upload's name.   *)

DbSteps == {"check", "name", "preflight", "preflightName", "create", "data", "store",
            "finish", "complete", "find", "setType", "append", "map"}
WriteSteps == {"name", "preflightName", "create", "data", "store", "complete",
               "setType", "append"}

(* The decoder is released before the database is closed.                  *)
Usable(l) ==
  \/ server \in {"up", "stopping", "returning"}
  \/ server = "released" /\ l \in WriteSteps

Db(r, l) == pc[r] = l /\ Usable(l)

Look(r, h) == view' = [view EXCEPT ![r] = node[h]]
Set(r, h, n) ==
  /\ node' = [node EXCEPT ![h] = n]
  /\ view' = [view EXCEPT ![r] = None]

(* Mutant: an upload of a file that is incomplete is refused.              *)
MutStoreCheck(r) ==
  LET h == call[r].content
  IN /\ Db(r, "check")
     /\ Look(r, h)
     /\ IF node[h] # None /\ ~Completed(h) THEN Answer(r, "error")
        ELSE /\ Goto(r, IF Completed(h) THEN "name" ELSE "preflight")
             /\ UNCHANGED answer
     /\ UNCHANGED <<process, temp, database, call, faults, hit, history>>

StoreCheck(r) ==
  LET h == call[r].content
  IN /\ Db(r, "check")
     /\ Look(r, h)
     /\ Goto(r, IF Completed(h) THEN "name" ELSE "preflight")
     /\ UNCHANGED <<process, temp, database, call, answer, faults, hit, history>>

StoreName(r) ==
  /\ Db(r, "name")
  /\ Set(r, call[r].content, [view[r] EXCEPT !.names = @ \cup {r}])
  /\ Goto(r, "find")
  /\ UNCHANGED <<process, temp, stored, bytes, call, answer, faults, hit, history>>

Preflight(r) ==
  LET h == call[r].content
  IN /\ Db(r, "preflight")
     /\ Look(r, h)
     /\ Goto(r, IF node[h] = None THEN "create"
                ELSE IF Completed(h) THEN "preflightName" ELSE "data")
     /\ UNCHANGED <<process, temp, database, call, answer, faults, hit, history>>

PreflightName(r) ==
  /\ Db(r, "preflightName")
  /\ Set(r, call[r].content, [view[r] EXCEPT !.names = @ \cup {r}])
  /\ Goto(r, "finish")
  /\ UNCHANGED <<process, temp, stored, bytes, call, answer, faults, hit, history>>

CreateNode(r) ==
  /\ Db(r, "create")
  /\ Set(r, call[r].content, [names |-> {r}, completed |-> FALSE, type |-> None])
  /\ Goto(r, "data")
  /\ UNCHANGED <<process, temp, stored, bytes, call, answer, faults, hit, history>>

(* storeEvidenceData, with its indexers: module EvidenceStore.  A manager  *)
(* counts its containers and offsets from 0, so with those of an earlier   *)
(* upload in place no address can be relied on, of this upload's chunks or *)
(* of the others'.  With chunk files, an upload that runs beside this one  *)
(* may rewrite the file of a chunk they share.                             *)
StartChunks(r) ==
  LET h == call[r].content
  IN /\ Db(r, "data")
     /\ Goto(r, "store")
     /\ layout' = IF layout = "files" THEN "files" ELSE "containers"
     /\ atRisk' = IF layout = "containers" THEN Hashes
                  ELSE IF InStore(Entangled(h)) THEN atRisk \cup Entangled(h)
                  ELSE atRisk
     /\ UNCHANGED <<process, temp, node, stored, call, view, answer, faults,
                    hit, history>>

StoreChunks(r) ==
  /\ Db(r, "store")
  /\ stored' = stored \cup {call[r].content}
  /\ Goto(r, "finish")
  /\ UNCHANGED <<process, temp, node, bytes, call, view, answer, faults, hit,
                 history>>

FinishRead(r) ==
  /\ Db(r, "finish")
  /\ Look(r, call[r].content)
  /\ Goto(r, "complete")
  /\ UNCHANGED <<process, temp, database, call, answer, faults, hit, history>>

FinishWrite(r) ==
  /\ Db(r, "complete")
  /\ Set(r, call[r].content, [view[r] EXCEPT !.completed = TRUE])
  /\ Goto(r, "find")
  /\ UNCHANGED <<process, temp, stored, bytes, call, answer, faults, hit, history>>

-----------------------------------------------------------------------------
(* getEvidenceFile, of both requests.                                      *)

UsableNode(h) == Completed(h)

Find(r) ==
  LET c == call[r]
  IN /\ Db(r, "find")
     /\ Look(r, c.claims)
     /\ IF UsableNode(c.claims)
          THEN /\ Goto(r, IF c.kind = "stream" THEN "setType"
                          ELSE IF c.path \in node[c.claims].names THEN "map"
                          ELSE "append")
               /\ answer' = [answer EXCEPT ![r] =
                    IF c.kind = "append" /\ c.path \in node[c.claims].names
                      THEN "exists" ELSE @]
          ELSE Answer(r, IF c.kind = "stream" THEN "error" ELSE "absent")
     /\ UNCHANGED <<process, temp, database, call, faults, hit, history>>

(* Mutant: the type is set on a new node.                                  *)
MutSetType(r) ==
  /\ Db(r, "setType")
  /\ Set(r, call[r].claims, [names |-> {r}, completed |-> TRUE, type |-> call[r].type])
  /\ Goto(r, "map")
  /\ UNCHANGED <<process, temp, stored, bytes, call, answer, faults, hit, history>>

(* AddEvidenceMetadata.                                                    *)
SetType(r) ==
  /\ Db(r, "setType")
  /\ Set(r, call[r].claims, [view[r] EXCEPT !.type = call[r].type])
  /\ Goto(r, "map")
  /\ UNCHANGED <<process, temp, stored, bytes, call, answer, faults, hit, history>>

(* appendFile.                                                             *)
AppendName(r) ==
  /\ Db(r, "append")
  /\ Set(r, call[r].claims, [view[r] EXCEPT !.names = @ \cup {call[r].path}])
  /\ Goto(r, "map")
  /\ answer' = [answer EXCEPT ![r] = "appended"]
  /\ UNCHANGED <<process, temp, stored, bytes, call, faults, hit, history>>

(* GetEviFileChunkMap reads every relation of the named file, and reads    *)
(* and unseals every chunk; bytes that are lost may end it, also after the *)
(* name has been added.                                                    *)
MapChunks(r) ==
  /\ Db(r, "map")
  /\ \/ Goto(r, IF call[r].kind = "stream" THEN "remove" ELSE "over") /\ UNCHANGED answer
     \/ call[r].claims \in atRisk /\ Answer(r, "error")
  /\ UNCHANGED <<process, temp, database, call, view, faults, hit, history>>

Removed(r) == temp \ {r}

(* That it cannot be removed is logged only.                               *)
RemoveUpload(r) ==
  /\ At(r, "remove")
  /\ \/ temp' = Removed(r) /\ UNCHANGED <<faults, hit>>
     \/ Fault /\ hit' = hit \cup {r} /\ UNCHANGED temp
  /\ Answer(r, "done")
  /\ UNCHANGED <<process, database, call, view, history>>

(* The workers that an upload leaves behind may write once more, to chunk  *)
(* files that others have found by then.                                   *)
LeaveWorkers(r) ==
  /\ atRisk' = IF layout = "files" /\ pc[r] = "store"
                 THEN atRisk \cup Entangled(call[r].content) ELSE atRisk
  /\ UNCHANGED <<process, temp, node, stored, layout, call, view, history>>

(* Mutant: an error of storing the data is dropped.                        *)
MutRequestFails(r) ==
  /\ server # "down" /\ Running(r) /\ pc[r] # "remove"
  /\ Fault
  /\ hit' = hit \cup {r}
  /\ IF pc[r] = "store" THEN Goto(r, "finish") /\ UNCHANGED answer
                       ELSE Answer(r, "error")
  /\ LeaveWorkers(r)

(* Any call fails: the request ends and leaves its upload.                 *)
RequestFails(r) ==
  /\ server # "down" /\ Running(r) /\ pc[r] # "remove"
  /\ Fault
  /\ hit' = hit \cup {r}
  /\ Answer(r, "error")
  /\ LeaveWorkers(r)

(* The database is closed, or the decoder is gone.                         *)
DatabaseGone(r) ==
  /\ server # "down" /\ pc[r] \in DbSteps /\ ~Usable(pc[r])
  /\ hit' = hit \cup {r}
  /\ Answer(r, "error")
  /\ LeaveWorkers(r) /\ UNCHANGED faults

-----------------------------------------------------------------------------
StopStep == Shutdown \/ ShutdownTimesOut \/ CloseDatabase \/ Exit

ServerStep == Start \/ Boot \/ BootFails \/ Signal \/ StopStep \/ Crash

StoreStep(r) ==
  \/ StoreCheck(r) \/ StoreName(r) \/ Preflight(r) \/ PreflightName(r)
  \/ CreateNode(r) \/ StartChunks(r) \/ StoreChunks(r) \/ FinishRead(r)
  \/ FinishWrite(r)

RequestStep(r) ==
  \/ \E c \in Calls : Request(r, c)
  \/ OpenUpload(r) \/ OpenDenied(r) \/ Receive(r) \/ StoreStep(r)
  \/ Find(r) \/ SetType(r) \/ AppendName(r) \/ MapChunks(r)
  \/ RemoveUpload(r) \/ RequestFails(r) \/ DatabaseGone(r)

Next == ServerStep \/ \E r \in Requests : RequestStep(r)

Spec == Init /\ [][Next]_vars

-----------------------------------------------------------------------------
TypeOK ==
  /\ server \in {"down", "boot", "up", "stopping", "released", "returning", "closed"}
  /\ starts \in 0 .. MaxStarts
  /\ uploads \in {"none", "open", "locked"} /\ temp \subseteq Requests
  /\ node \in [Hashes -> Node \cup {None}] /\ stored \subseteq Hashes
  /\ layout \in {"files", "fresh", "containers"} /\ atRisk \subseteq Hashes
  /\ call \in [Requests -> Calls \cup {None}]
  /\ pc \in [Requests -> Over \cup DbSteps \cup {"open", "receive", "remove"}]
  /\ view \in [Requests -> Node \cup {None}]
  /\ answer \in [Requests -> Answers \cup {None}]
  /\ faults \in 0 .. MaxFaults /\ hit \subseteq Requests
  /\ cutOff \subseteq Requests /\ abrupt \in BOOLEAN
  /\ overlapped \subseteq Hashes

Apart(r) == call[r] # None /\ Touched(call[r]) \cap overlapped = {}
Told(r, answers) == pc[r] = "over" /\ answer[r] \in answers

(* A file that counts as completed is in the database as a whole, however  *)
(* requests, failures, stops and crashes interleave.                       *)
CompletedStored == \A h \in Hashes : Completed(h) => h \in stored

(* What a client has been told stays true, over stops and crashes: the     *)
(* file of a StreamFile request is completed, the name of an AppendIfExists *)
(* request is on it.  Requests that use the same hash at the same time     *)
(* overwrite each other's nodes and are left out.                          *)
ToldStaysTrue ==
  \A r \in Requests : Apart(r) =>
    /\ Told(r, {"done", "appended", "exists"}) => Completed(call[r].claims)
    /\ Told(r, {"appended", "exists"}) => call[r].path \in node[call[r].claims].names

(* A request for a file that is what the client says it is fails only for  *)
(* a reason: a call that failed, a stop, an uploads directory the server   *)
(* may not write to, another request for the file at the same time, or     *)
(* bytes that uploads have lost.  Lost they may be with containers from    *)
(* the second upload on, a retry included; with chunk files, after an      *)
(* upload that failed, that ran beside one with a common chunk, or that    *)
(* was killed over a chunk of several places.  What is left is said of     *)
(* interrupted attempts too: killed uploads of files without such a chunk  *)
(* do not keep the next one from succeeding.                               *)
ErrorsHaveCause ==
  \A r \in Requests :
    Told(r, {"error"}) /\ Apart(r) /\ r \notin hit =>
      \/ uploads = "locked" \/ call[r].claims # call[r].content
      \/ call[r].claims \in atRisk

(* The server keeps no upload of a request that was answered with success. *)
UploadsGone ==
  \A r \in temp : Running(r) \/ pc[r] = "dead" \/ answer[r] = "error" \/ r \in hit

(* A stop cuts off a request only if it has taken too long, or came over   *)
(* HTTP/2.                                                                 *)
StopSpares == \A r \in cutOff : abrupt \/ call[r].http2
=============================================================================
