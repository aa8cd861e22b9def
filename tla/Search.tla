------------------------------- MODULE Search -------------------------------
(***************************************************************************)
(* Searching the database for a string: lib/search/search.go, with the two *)
(* maps of lib/structs/searchmap.go and GetFileMeta of                     *)
(* lib/store/restore.go.                                                   *)
(*                                                                         *)
(* Search goes through the indexed, the partition and the evidence files,  *)
(* one namespace after the other.  A goroutine per file starts a goroutine *)
(* per chunk; each level counts its children and receives their results    *)
(* from a channel without a buffer.  A chunk's count is kept in cmap under *)
(* the key of the chunk, for the other files that share it.  Counts of a   *)
(* file add up in idmap, from which the report is made.                    *)
(*                                                                         *)
(* The chunk of a file is cut as in Restore.  When Search has returned the *)
(* process ends, and with it whatever goroutine is left.                   *)
(***************************************************************************)
EXTENDS Integers, Sequences, FiniteSets

CONSTANTS
  ChonkSize,   \* cnst.ChonkSize
  MaxThreads,  \* cnst.GetMaxThreadCount()
  Databases,   \* bound: the databases to search
  Queries,     \* bound: strings that do not overlap themselves
  MaxFaults,   \* bound: database and file calls that fail
  Junk,        \* a byte behind the data of a chunk
  None

IsSeq(s) == s \in Seq({s[k] : k \in DOMAIN s})

ASSUME BoundsAssumption ==
  /\ ChonkSize \in Nat \ {0} /\ MaxThreads \in Nat /\ MaxFaults \in Nat
  /\ Junk \notin Int
ASSUME QueriesAssumption == \A q \in Queries : IsSeq(q) /\ Len(q) > 0
(* A file lies within each evidence file that one of its names begins with. *)
ASSUME DatabasesAssumption ==
  \A d \in Databases : \A f \in DOMAIN d.ns :
    /\ IsFiniteSet(DOMAIN d.ns) /\ f # None /\ d.ns[f] \in {"I", "P", "E"}
    /\ d.start[f] \in Nat /\ d.size[f] \in Nat
    /\ IsFiniteSet(d.names[f]) /\ \A n \in d.names[f] : IsSeq(n) /\ Len(n) > 0
    /\ \A e \in IF d.ns[f] = "E" THEN {f} ELSE {n[1] : n \in d.names[f]} :
         /\ e \in DOMAIN d.ns /\ d.ns[e] = "E" /\ IsSeq(d.bytes[e])
         /\ d.start[f] + d.size[f] <= Len(d.bytes[e])

VARIABLES
  db,       \* the database, which a search only reads
  query,
  main,     \* where Search is
  ns,       \* the namespace it goes through
  unread,   \* files of that namespace it has not come to
  active,   \* its count of file goroutines
  fpc,      \* where the goroutine of a file is
  image,    \* meta.EviHash of a file
  sindex,   \* where the next chunk of a file starts
  factive,  \* the count of chunk goroutines of a file
  cpc,      \* where the goroutine of a chunk is
  cmap,     \* counts by chunk
  idmap,    \* counts by file
  artefact, \* the file the report is at
  nameless, \* its names that are not in the report yet
  idx,      \* how many names of it in a disk image are
  smap,     \* names of disk images and partitions looked up so far
  report,   \* the occurrences in the report
  faults

input == <<db, query>>
files == <<fpc, image, sindex, factive>>
maps == <<cmap, idmap>>
writing == <<artefact, nameless, idx, smap, report>>
vars == <<input, main, ns, unread, active, files, cpc, maps, writing, faults>>

-----------------------------------------------------------------------------
(* A database: the namespace, names and range of each file, and the bytes  *)
(* of each evidence file.  A name is the tuple of its parts: the evidence  *)
(* file and partition it lies in, if any, and the name itself.             *)

Fids == DOMAIN db.ns
Evidence == {f \in Fids : db.ns[f] = "E"}
Namespaces == <<"I", "P", "E">>
In(n) == {f \in Fids : db.ns[f] = Namespaces[n]}

Start(f) == db.start[f]
Size(f) == db.size[f]
End(f) == Start(f) + Size(f)

(* Set of either map.                                                      *)
With(map, key, val) ==
  [k \in DOMAIN map \cup {key} |-> IF k = key THEN val ELSE map[k]]

(* Two chunks with the same bytes are one node.                            *)
Chonk(e, at) ==
  SubSeq(db.bytes[e], at + 1,
         IF at + ChonkSize < Len(db.bytes[e]) THEN at + ChonkSize
                                              ELSE Len(db.bytes[e]))

(* Any string that lies in the data, counted once where it starts.         *)
Count(data) ==
  Cardinality({k \in 1 .. Len(data) - Len(query) + 1 :
                 SubSeq(data, k, k + Len(query) - 1) = query})

Cut(f, e, at) == INSTANCE Restore WITH
  image <- Len(db.bytes[e]), start <- Start(f), size <- Size(f),
  restoreIndex <- at, out <- <<>>, status <- "running", Images <- {}

Dbstart(f) == Cut(f, f, 0)!GetDBStartOffset(Start(f))

(* getChonkState: a chunk of the file, cut to its range.                   *)
State(f, e, at) ==
  LET offsets == Cut(f, e, at)!GetChonkData
  IN [k \in DOMAIN offsets |->
        IF offsets[k] = Junk THEN Junk ELSE db.bytes[e][offsets[k] + 1]]

Fault == faults < MaxFaults /\ faults' = faults + 1

Init ==
  /\ db \in Databases /\ query \in Queries
  /\ main = "search" /\ ns = 1 /\ unread = In(1) /\ active = 0
  /\ fpc = [f \in Fids |-> "none"] /\ image = [f \in Fids |-> None]
  /\ sindex = [f \in Fids |-> 0] /\ factive = [f \in Fids |-> 0]
  /\ cpc = [f \in Fids |-> <<>>]
  /\ cmap = <<>> /\ idmap = [f \in Fids |-> 0]
  /\ artefact = None /\ nameless = {} /\ idx = 0 /\ smap = <<>>
  /\ report = <<>>
  /\ faults = 0

-----------------------------------------------------------------------------
(* searchFiles.                                                            *)

Searching == main = "search"

SpawnFile(f) ==
  /\ Searching /\ f \in unread /\ active <= MaxThreads
  /\ unread' = unread \ {f}
  /\ active' = active + 1
  /\ fpc' = [fpc EXCEPT ![f] = "meta"]
  /\ UNCHANGED <<input, main, ns, image, sindex, factive, cpc, maps, writing,
                 faults>>

Receiving == Searching /\ IF unread = {} THEN active > 0 ELSE active > MaxThreads

(* The first error ends the search.                                        *)
CollectFile(f) ==
  /\ Receiving /\ fpc[f] \in {"ok", "error"}
  /\ fpc' = [fpc EXCEPT ![f] = "gone"]
  /\ active' = active - 1
  /\ main' = IF fpc[f] = "ok" THEN main ELSE "failed"
  /\ UNCHANGED <<input, ns, unread, image, sindex, factive, cpc, maps, writing,
                 faults>>

(* Mutant: the last goroutines are not waited for.                         *)
MutNextNamespace ==
  /\ Searching /\ unread = {} /\ active <= MaxThreads
  /\ active' = 0
  /\ IF ns < 3
       THEN ns' = ns + 1 /\ unread' = In(ns + 1) /\ UNCHANGED main
       ELSE main' = "report" /\ UNCHANGED <<ns, unread>>
  /\ UNCHANGED <<input, files, cpc, maps, writing, faults>>

NextNamespace ==
  /\ Searching /\ unread = {} /\ active = 0
  /\ IF ns < 3
       THEN ns' = ns + 1 /\ unread' = In(ns + 1) /\ UNCHANGED main
       ELSE main' = "report" /\ UNCHANGED <<ns, unread>>
  /\ UNCHANGED <<input, active, files, cpc, maps, writing, faults>>

-----------------------------------------------------------------------------
(* searchAllFiles and searchChonks: the goroutine of a file.               *)

FilePart(f) == Searching /\ fpc[f] # "none"

(* The evidence file one of the names, any, begins with.                   *)
EviHashes(f) == IF f \in Evidence THEN {f} ELSE {n[1] : n \in db.names[f]}

Completed(e) == db.completed[e]

(* GetFileMeta.                                                            *)
GetFileMeta(f) ==
  /\ FilePart(f) /\ fpc[f] = "meta"
  /\ \E e \in EviHashes(f) :
       IF Completed(e)
         THEN /\ image' = [image EXCEPT ![f] = e]
              /\ fpc' = [fpc EXCEPT ![f] = "chonks"]
         ELSE fpc' = [fpc EXCEPT ![f] = "error"] /\ UNCHANGED image
  /\ sindex' = [sindex EXCEPT ![f] = Dbstart(f)]
  /\ UNCHANGED <<input, main, ns, unread, active, factive, cpc, maps, writing,
                 faults>>

(* Without its meta data the goroutine would go on after the error and     *)
(* send again, but the first send ends the search.                         *)
FileMetaFails(f) ==
  /\ FilePart(f) /\ fpc[f] = "meta"
  /\ Fault
  /\ fpc' = [fpc EXCEPT ![f] = "error"]
  /\ UNCHANGED <<input, main, ns, unread, active, image, sindex, factive, cpc,
                 maps, writing>>

SpawnChonk(f) ==
  /\ FilePart(f) /\ fpc[f] = "chonks"
  /\ sindex[f] < End(f) /\ factive[f] <= MaxThreads
  /\ cpc' = [cpc EXCEPT ![f] = With(@, sindex[f], [at |-> "read", count |-> 0])]
  /\ sindex' = [sindex EXCEPT ![f] = @ + ChonkSize]
  /\ factive' = [factive EXCEPT ![f] = @ + 1]
  /\ UNCHANGED <<input, main, ns, unread, active, fpc, image, maps, writing,
                 faults>>

(* The first error of a chunk is that of the file.                         *)
CollectChonk(f, at) ==
  /\ FilePart(f) /\ fpc[f] = "chonks" /\ at \in DOMAIN cpc[f]
  /\ IF sindex[f] < End(f) THEN factive[f] > MaxThreads ELSE factive[f] > 0
  /\ cpc[f][at].at \in {"ok", "error"}
  /\ cpc' = [cpc EXCEPT ![f][at].at = "gone"]
  /\ IF cpc[f][at].at = "ok"
       THEN factive' = [factive EXCEPT ![f] = @ - 1] /\ UNCHANGED fpc
       ELSE fpc' = [fpc EXCEPT ![f] = "error"] /\ UNCHANGED factive
  /\ UNCHANGED <<input, main, ns, unread, active, image, sindex, maps, writing,
                 faults>>

FileSearched(f) ==
  /\ FilePart(f) /\ fpc[f] = "chonks"
  /\ sindex[f] >= End(f) /\ factive[f] = 0
  /\ fpc' = [fpc EXCEPT ![f] = "ok"]
  /\ UNCHANGED <<input, main, ns, unread, active, image, sindex, factive, cpc,
                 maps, writing, faults>>

-----------------------------------------------------------------------------
(* searchChonk: the goroutine of a chunk.                                  *)

ChonkAt(f, at, l) ==
  Searching /\ at \in DOMAIN cpc[f] /\ cpc[f][at].at = l

Key(f, at) == Chonk(image[f], at)
Goto(f, at, l) == cpc' = [cpc EXCEPT ![f][at].at = l]
Found(f, n) == idmap' = [idmap EXCEPT ![f] = @ + n]

flow == <<input, main, ns, unread, active, files, writing>>

(* cmap.Get: the count of another file's part of the chunk is taken over.  *)
CountCached(f, at) ==
  /\ ChonkAt(f, at, "read") /\ Key(f, at) \in DOMAIN cmap
  /\ Found(f, cmap[Key(f, at)])
  /\ Goto(f, at, "overlap")
  /\ UNCHANGED <<flow, cmap, faults>>

CountChonk(f, at) ==
  /\ ChonkAt(f, at, "read") /\ Key(f, at) \notin DOMAIN cmap
  /\ cpc' = [cpc EXCEPT ![f][at] =
       [at |-> "set", count |-> Count(State(f, image[f], at))]]
  /\ UNCHANGED <<flow, maps, faults>>

(* Mutant: a goroutine that finds the count set by now goes without.       *)
MutSetCount(f, at) ==
  /\ ChonkAt(f, at, "set")
  /\ IF Key(f, at) \in DOMAIN cmap THEN UNCHANGED maps
     ELSE /\ cmap' = With(cmap, Key(f, at), cpc[f][at].count)
          /\ Found(f, cpc[f][at].count)
  /\ Goto(f, at, "overlap")
  /\ UNCHANGED <<flow, faults>>

(* cmap.Set, which replaces what another goroutine has set since.          *)
SetCount(f, at) ==
  /\ ChonkAt(f, at, "set")
  /\ cmap' = With(cmap, Key(f, at), cpc[f][at].count)
  /\ Found(f, cpc[f][at].count)
  /\ Goto(f, at, "overlap")
  /\ UNCHANGED <<flow, faults>>

LastChonk(f, at) == at + ChonkSize >= End(f)

(* Mutant: the last goroutine returns without a word.                      *)
MutNoOverlap(f, at) ==
  /\ ChonkAt(f, at, "overlap") /\ LastChonk(f, at)
  /\ Goto(f, at, "gone")
  /\ UNCHANGED <<flow, maps, faults>>

NoOverlap(f, at) ==
  /\ ChonkAt(f, at, "overlap") /\ LastChonk(f, at)
  /\ Goto(f, at, "ok")
  /\ UNCHANGED <<flow, maps, faults>>

(* How much of the second chunk is searched: state2[:qoffset].             *)
Taken == Len(query) - 2

(* The end of one chunk and the beginning of the next.  The slice of the   *)
(* second one may end behind the part that is the file's.                  *)
Around(f, at) ==
  LET first == State(f, image[f], at)
      second == Chonk(image[f], at + ChonkSize)
  IN SubSeq(first, Len(first) - Len(query) + 2, Len(first))
       \o SubSeq(second, 1, IF Taken < Len(second) THEN Taken ELSE Len(second))

SearchOverlap(f, at) ==
  /\ ChonkAt(f, at, "overlap") /\ ~LastChonk(f, at)
  /\ Len(State(f, image[f], at)) >= Len(query) - 1 /\ Taken >= 0
  /\ Found(f, Count(Around(f, at)))
  /\ Goto(f, at, "ok")
  /\ UNCHANGED <<flow, cmap, faults>>

(* A first chunk shorter than the query makes the offset negative, and so  *)
(* does a query of one byte, which SearchCmd refuses before it makes lower *)
(* case of it, not after; a slice behind the end of a last chunk may be    *)
(* behind the end of its array.                                            *)
ChonkPanics(f, at) ==
  /\ \/ /\ ChonkAt(f, at, "overlap") /\ ~LastChonk(f, at)
        /\ \/ Len(State(f, image[f], at)) < Len(query) - 1
           \/ Taken < 0 \/ Taken > Len(Chonk(image[f], at + ChonkSize))
           \/ ~Cut(f, image[f], at + ChonkSize)!WithinSlice
     \/ ChonkAt(f, at, "read") /\ ~Cut(f, image[f], at)!WithinSlice
  /\ main' = "panic"
  /\ UNCHANGED <<input, ns, unread, active, files, cpc, maps, writing, faults>>

(* The relation node, the chunk's node or its data cannot be read.         *)
ChonkFails(f, at) ==
  /\ ChonkAt(f, at, "read") \/ (ChonkAt(f, at, "overlap") /\ ~LastChonk(f, at))
  /\ Fault
  /\ Goto(f, at, "error")
  /\ UNCHANGED <<flow, maps>>

-----------------------------------------------------------------------------
(* searchReport.  The occurrence of an artefact is made from its names in  *)
(* any order, with what is looked up for the others.                       *)

Artefacts == {f \in Fids : idmap[f] > 0}
Reported == {report[k].artefact : k \in DOMAIN report}
NoOccurance == [artefact |-> None, names |-> {}, disk |-> None, diskNames |-> {},
                partition |-> None, partNames |-> {}]

Writing == main = "report"
reading == <<input, ns, unread, active, files, cpc, maps, faults>>

LastPart(n) == n[Len(n)]

(* getFileNames: the names of a disk image or partition.                   *)
NodeNames(f) == {LastPart(n) : n \in db.names[f]}

ReportArtefact(f) ==
  /\ Writing /\ artefact = None /\ f \in Artefacts \ Reported
  /\ artefact' = f
  /\ nameless' = db.names[f]
  /\ idx' = 0
  /\ report' = Append(report, [NoOccurance EXCEPT !.artefact = f])
  /\ UNCHANGED <<reading, main, smap>>

(* Mutant: names once looked up are never shown again.                     *)
MutShown(f, had) == IF f \notin DOMAIN smap THEN NodeNames(f) ELSE had

(* setDiskImageData for one of the two: what the occurrence had, unless it *)
(* has to be looked up or this is among the first names.                   *)
Shown(f, had) ==
  IF f \notin DOMAIN smap THEN NodeNames(f)
  ELSE IF idx <= 1 THEN smap[f] ELSE had

Remember(fs) ==
  smap' = [f \in DOMAIN smap \cup fs |->
             IF f \in fs THEN NodeNames(f) ELSE smap[f]]

Current == report[Len(report)]
Put(occurance) == report' = [report EXCEPT ![Len(report)] = occurance]
Listed(n) == [Current EXCEPT !.names = @ \cup {LastPart(n)}]

(* setOccuranceData for one name: of an evidence file, in a disk image or  *)
(* in a partition of one.                                                  *)
ReportName(n) ==
  /\ Writing /\ artefact # None /\ n \in nameless /\ Len(n) <= 3
  /\ nameless' = nameless \ {n}
  /\ idx' = IF Len(n) = 1 THEN idx ELSE idx + 1
  /\ CASE Len(n) = 1 -> Put(Listed(n)) /\ UNCHANGED smap
       [] Len(n) = 2 ->
            /\ Put([Listed(n) EXCEPT !.disk = n[1], !.partition = artefact,
                      !.diskNames = Shown(n[1], @)])
            /\ Remember({n[1]})
       [] Len(n) = 3 ->
            /\ Put([Listed(n) EXCEPT !.disk = n[1], !.partition = n[2],
                      !.diskNames = Shown(n[1], @),
                      !.partNames = Shown(n[2], @)])
            /\ Remember({n[1], n[2]})
  /\ UNCHANGED <<reading, main, artefact>>

(* A name with more parts than a name has, because one of them holds the   *)
(* separator; a node that cannot be read.                                  *)
ReportFails ==
  /\ Writing /\ artefact # None
  /\ \/ (\E n \in nameless : Len(n) > 3) /\ UNCHANGED faults
     \/ Fault
  /\ main' = "failed"
  /\ UNCHANGED <<input, ns, unread, active, files, cpc, maps, writing>>

EndArtefact ==
  /\ Writing /\ artefact # None /\ nameless = {}
  /\ artefact' = None
  /\ UNCHANGED <<reading, main, nameless, idx, smap, report>>

WriteReport ==
  /\ Writing /\ artefact = None /\ Artefacts \subseteq Reported
  /\ main' = "done"
  /\ UNCHANGED <<reading, writing>>

-----------------------------------------------------------------------------
SearchStep ==
  \/ NextNamespace
  \/ \E f \in Fids :
       \/ SpawnFile(f) \/ CollectFile(f)
       \/ GetFileMeta(f) \/ FileMetaFails(f)
       \/ SpawnChonk(f) \/ FileSearched(f)
       \/ \E at \in DOMAIN cpc[f] :
            \/ CollectChonk(f, at)
            \/ CountCached(f, at) \/ CountChonk(f, at) \/ SetCount(f, at)
            \/ NoOverlap(f, at) \/ SearchOverlap(f, at)
            \/ ChonkPanics(f, at) \/ ChonkFails(f, at)

ReportStep ==
  \/ \E f \in Fids : ReportArtefact(f)
  \/ \E n \in nameless : ReportName(n)
  \/ ReportFails \/ EndArtefact \/ WriteReport

Next == SearchStep \/ ReportStep

Spec == Init /\ [][Next]_vars

(* A goroutine that can run does run.  Nothing is ever repeated, so that   *)
(* it is enough to ask that some goroutine runs.                           *)
FairSpec == Spec /\ WF_vars(Next)

-----------------------------------------------------------------------------
Over == {"done", "failed", "panic"}

TypeOK ==
  /\ db \in Databases /\ query \in Queries
  /\ main \in Over \cup {"search", "report"} /\ ns \in 1 .. 3
  /\ unread \subseteq In(ns) /\ active \in 0 .. MaxThreads + 1
  /\ fpc \in [Fids -> {"none", "meta", "chonks", "ok", "error", "gone"}]
  /\ image \in [Fids -> Evidence \cup {None}]
  /\ sindex \in [Fids -> Nat] /\ factive \in [Fids -> 0 .. MaxThreads + 1]
  /\ \A f \in Fids : \A at \in DOMAIN cpc[f] :
       /\ cpc[f][at].at \in {"read", "set", "overlap", "ok", "error", "gone"}
       /\ cpc[f][at].count \in Nat
  /\ \A c \in DOMAIN cmap : cmap[c] \in Nat
  /\ idmap \in [Fids -> Nat]
  /\ artefact \in Fids \cup {None} /\ idx \in Nat /\ faults \in 0 .. MaxFaults

(* A report is written only after the whole database has been searched:    *)
(* no call has failed, every evidence file is complete, and no goroutine   *)
(* is left that would still add to a count or send to nobody.              *)
ReportOfEverything ==
  main \in {"report", "done"} =>
    /\ faults = 0
    /\ \A f \in Fids :
         /\ fpc[f] = "gone" /\ Completed(image[f])
         /\ sindex[f] >= End(f)
         /\ \A at \in DOMAIN cpc[f] : cpc[f][at].at = "gone"

(* The chunks of a file are cut for it as for every other file that shares *)
(* them; otherwise its counts may be those of other bytes.                 *)
Touches(f, e) == {at \in 0 .. End(f) - 1 : at % ChonkSize = 0 /\ at >= Dbstart(f)}

CutAlike(f) ==
  \A g \in Fids : \A e \in EviHashes(f), d \in EviHashes(g) :
    \A at \in Touches(f, e), to \in Touches(g, d) :
      Chonk(e, at) = Chonk(d, to) => State(f, e, at) = State(g, d, to)

Bytes(f, e) == SubSeq(db.bytes[e], Start(f) + 1, End(f))

(* Occurrences with all but their first byte in another chunk: the overlap *)
(* takes one byte too few of the second chunk to hold them.                *)
AcrossAfterOne(f, e) ==
  {k \in 1 .. Size(f) - Len(query) + 1 :
     /\ Len(query) > 1 /\ (Start(f) + k) % ChonkSize = 0
     /\ SubSeq(Bytes(f, e), k, k + Len(query) - 1) = query}

(* No slice leaves the file: the part of its last chunk that is taken for  *)
(* the overlap is the file's.                                              *)
LongEnough(f) ==
  Start(f) % ChonkSize = 0
    /\ (Size(f) % ChonkSize = 0 \/ Size(f) % ChonkSize >= Taken)

(* Whatever the order in which the goroutines run and fill the cache, the  *)
(* report counts each occurrence in a file exactly once, but for those     *)
(* above, if its chunks are cut alike for all and no slice leaves it.      *)
CountsRight ==
  main = "report" =>
    \A f \in Fids :
      CutAlike(f) /\ LongEnough(f) =>
        idmap[f] = Count(Bytes(f, image[f]))
                     - Cardinality(AcrossAfterOne(f, image[f]))

(* An occurrence in the report has all names of its artefact, and the disk *)
(* image names are those of the image whose hash is shown, as long as the  *)
(* artefact has at most two names or lies in one image only.               *)
ReportConsistent ==
  \A k \in DOMAIN report :
    LET o == report[k]
        names == db.names[o.artefact]
        unfinished == IF artefact = o.artefact THEN nameless ELSE {}
    IN /\ o.names = {LastPart(n) : n \in names \ unfinished}
       /\ o.disk # None
            /\ (Cardinality(names) <= 2 \/ Cardinality({n[1] : n \in names}) = 1)
          => o.diskNames = NodeNames(o.disk)

(* A search ends: with a report, an error or a panic.                      *)
SearchEnds == <>(main \in Over)
=============================================================================
