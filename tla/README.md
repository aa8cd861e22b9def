# A verification development for indicer

indicer stores disk images ("evidence files") as deduplicated chunks, indexes
the files inside them and finds, restores and relates them later.  This
directory holds TLA+ modules that model the parts of it where steps of several
goroutines, crashes, failures or boundaries decide what is true, the TLC
configurations that check them on small instances, and TLAPS proofs of the
main results for every instance.

Paths below are relative to the repository.  `container.go` and
`container_cache.go` are in `lib/fio`, `store.go` and `restore.go` in
`lib/store`, `dbio.go` in `lib/dbio`, `cmdstore.go` in `cli`, `exfat.go` in
`lib/parser`, `infile.go` and `near.go` in `lib/near`, `search.go` in
`lib/search`, `streamFile.go` in `lib/server`, `api.go` in `api`.

## 1. The system

### Components

| component | state it keeps | operations | module |
|---|---|---|---|
| container manager (`container.go`) | container files (`.blob` while written, `.blob.zst` afterwards), the write queue, `containerIndex`, `currentFile`, `currentOffset` | `WriteChunkToContainer`, the writer goroutine, `compressContainer`, `Close`, `ReadChunkFromContainer` | `Container`, `ChunkLog` |
| store operation (`store.go`) | the shared `badger.WriteBatch`, the channel `tio.Err`, `active`; in the database the nodes E (evidence file), C (chunk), R (relation) and B (reverse relation) | pre-store check, preflight, `storeEvidenceData`, `storeWorker` | `EvidenceStore` |
| store command (`cmdstore.go`) | the completed mark of the evidence node; `idxChan`, `active` | `StoreFile`, `StoreFolder` | `EvidenceStore`, `IndexHandshake` |
| indexers (`exfat.go`, `lib/util`) | the map of indexed files and a batch each; the offset of one `os.File`, shared by all | `IndexEXFAT`, `checkChannel`, `GetLogicalFileHash`, `storeIndexedFiles` | `IndexHandshake`, `IndexedFiles` |
| block index (`lib/fio/blockindex.go`) | block files, one block buffered in memory | `AddChunkMetadata`, `flushBlock`, `Close`, `GetChunkMetadata` | `BlockIndex` |
| restore (`restore.go`, `dbio.go`) | the output file | `restoreData`, `GetChonkData` | `Restore` |
| container read cache (`container_cache.go`) | decompressed containers in memory and in temporary files, their sizes and last uses | load, read, evict, release | `ContainerCache` |
| search (`search.go`, `lib/structs`) | `cmap` and `idmap`, shared by all goroutines; the report | `Search`, `searchFile`, `searchChonk`, the report | `Search` |
| near (`infile.go`, `near.go`) | `seenMap` of the generator, the map of confidences, shared | `NearInFile`, `getNear`, `countRList`, `updateConfidence` | `Near` |
| server (`lib/server`, `lib/service`, `api.go`) | the uploads directory, evidence nodes, requests in progress | `Server`, `StreamFile`, `AppendIfExists` | `Service`; two uploads side by side also in `EvidenceStore` |

Not modelled: `NearOutFile`, list, reset, the graph output and the flag parsing
of the commands (one goroutine each, which reads and prints or removes a
directory), and generated code.

### How they interact

`StoreFile` hashes the evidence file, looks its node up, starts one indexer
goroutine per partition and then `storeEvidenceData`.  That spawns a
`storeWorker` per chunk, up to a limit.  A worker asks the database whether the
chunk is known; if not, it sends the chunk to the container manager, waits for
the address and puts the chunk node into the batch.  Then it adds the relation
(file and offset to chunk) and the reverse relation (chunk and offset to
files).  When all workers have reported, the batch is flushed; then the block
manager and the container manager are closed, in this order; then `StoreFile`
waits for the indexers and marks the node completed.  A restore, a search, near
and the chunk maps of the server walk the relation nodes of a range and cut the
chunks at its two ends.  A restore of the command line reads compressed
containers through the cache.  The server takes an upload into a file of its
own, calls the store operation on it and then sets names and type on the node
of the hash the client has sent.

### What is hard, and what makes each part correct

* Container manager.  Many callers, one writer, a `Close` that races them, four
  steps to compress a file that readers look up under two names, and names that
  every store operation reuses.  Correct: an address that was handed out reads
  back its chunk, whatever happens in between; no call is left without an
  answer; nothing is sent on a closed queue.
* Store operation.  Lookups see what is committed, writes wait in a batch that
  badger may commit early and in part, an error ends the operation with workers
  still at it, and a crash leaves any of this.  Correct: a file that is marked
  completed can be restored; no chunk node is committed before its bytes are
  there; names and marks are not lost; nobody blocks for ever.
* Indexers.  One unbuffered channel carries questions and results in both
  directions between one store and several indexers, and one file offset serves
  all of them.  Correct: a file is not marked completed, nor its mapping closed,
  while an indexer reads it; errors are not lost; a file is indexed under the
  hash of its content, with all its names.
* Block index.  Entries wait in memory, several operations append to the same
  files write by write, and a reader that meets a torn entry is lost.  Correct:
  a chunk of a successful operation can be looked up.
* Restore and its cache.  Three formulas cut chunks, chosen by comparisons; a
  chunk comes from a container in place, in memory or in a temporary file.
  Correct: the bytes that come out are the bytes of the range, with the cache as
  without it; the cache keeps its bound and cleans up.
* Search.  Two levels of goroutines on unbuffered channels, left behind by the
  first error; counts shared by chunk; matches across a chunk boundary counted
  apart.  Correct: a report is about everything, its counts are those of the
  bytes, its names belong together.
* Near.  A generator that skips what it has seen, a collector with two receives
  for one error, a map that many goroutines add to.  Correct: a result counts
  everything once.
* Server.  Requests read a node and, later, write it back whole; they are hit by
  failures, by a shutdown with a deadline, by a crash.  Correct: what counts as
  completed is stored, what a client was told stays true, an interrupted upload
  can be repeated, a shutdown in time cuts off nobody.

`PROJECT.json` lists the hazards line by line, with the properties that would
catch each.

## 2. The modules

| module | models | built on |
|---|---|---|
| `ChunkLog` | what container files promise to a reader: append-only logs with tenants | - |
| `Container` | the container manager and its files over several store operations | implements `ChunkLog` (`ImplementsLog`) |
| `EvidenceStore` | `StoreFile` (without indexers), the store operation and its database calls | - |
| `BlockIndex` | the block managers of several store operations and their files | - |
| `Restore` | `restoreData` and `GetChonkData` | - |
| `ContainerCache` | a restore through the read cache | extends `Restore` and implements it (`RestoresAlike`) |
| `IndexHandshake` | `StoreFile` and `IndexEXFAT` on `idxChan` | - |
| `IndexedFiles` | what the indexers hash, merge and write | extends `IndexHandshake`, whose actions its own contain |
| `Search` | a search | instantiates `Restore` for the cut of a chunk |
| `Near` | `NearInFile` | - |
| `Service` | the server and its requests | - |
| `MC...` | the small instances for TLC | the module of that name |
| `...Proofs` | theorems and their proofs | the module of that name; `IndexProofs` is about `IndexHandshake` and `IndexedFiles`, `RestoreProofs` also about `ContainerCache`, `ContainerProofs` also about `ChunkLog` |

Definitions whose names begin with `Mut` are mutants: a definition as it would
be with a plausible bug.  No specification uses them; each property is known to
fail with the mutant `PROJECT.json` names for it.

### Container

A file is its length and the set of `<<offset, chunk>>` pairs that can be read
from it, so that a wrong offset is visible without modelling bytes.  `blob`,
`zst` and `tmp` are the three files a container may have.  A worker is `start`,
`sending` (it holds the read lock and sends), `waiting`, `done` or `failed`;
the writer goroutine is at `recv`, `create`, `roll`, `compress` or `write`;
`Close` is `open`, `locking`, `draining`, `compress` or `done`.  Each action is
what one goroutine does between two points where another can interfere: a lock,
a channel operation, a call to the file system.  `CompressCopy` to
`CompressRemoveBlob` are the four steps of `compressContainer`; `Crash` may come
between any two.  A failing call is one of `WorkerFails`, `RollOverFails`,
`OpenFails`, `WriteFails`, `CompressFails` and `FinalizeFails`; each sends the
error where the code does and leaves behind what the code leaves behind
(`currentFile` still set and closed, some bytes of a chunk in the file).
`NewContainerManager` begins the next session with `containerIndex` 0 over the
files that are there: this is how names come to be reused.

`acked` records addresses as workers receive them.  `owner` and `spoiled` are
history: the session that opened a container last, and the containers whose
tenant does not know its offsets because a `.blob` was left behind or a write
was cut short.  `AcksReadable` makes exceptions for both; `EveryAckReadable` is
the statement without them, and is refuted.

A file system call is atomic, and what it wrote survives the crash: crashes of
the process, not of the machine.

### EvidenceStore

One step per database call.  `Get` and `Ping` see what is committed; `batch`
holds what the workers of an operation have set; `Flush` commits it, and
`AutoCommit` may commit a prefix at any time, as badger does when a batch grows
beyond a transaction.  `seen` and `got` are what an operation or a worker read
and will base its next `Set` on.  `StoreFile` may be repeated for a file that is
not completed.  `Collect` ends the operation at the first error, and its other
workers go on.

With one file per chunk a write is a truncation and a write, and `whole` are the
chunks whose file holds them.  With containers there is one name, which the
manager of every operation uses: `container` says whether there is a `.blob`,
what a reader finds under the name, and whose it is; `manager` is what each
operation has open and the offset it counts; `address` what the chunk nodes say.
The first write of an operation opens the container: a `.blob` that a crash or a
failed `Close` has left is appended to, with offsets from 0; otherwise a new one
hides the compressed container, which `CloseManager` then replaces.  Of two
managers of the server on one `.blob`, the first to close takes the file away,
and the other goes on writing to a file without a name (`lost`).  Sizes and
offsets count chunks and an operation fills one container only: the series of
containers and the steps of `Close` are in `Container`, which in turn has one
operation at a time.

`setting` is chosen at the beginning among `Settings`, the ways to run the
program that are considered: with containers or with a file per chunk, how many
operations may be in progress together (one for the command line; the server
handles each upload in a goroutine), and the bounds on failures and crashes.
`OneAtATime` says that operations come one after the other.

### BlockIndex

A worker is at `add`, `flushOld` (its entry belongs to another block than the
buffered one), `flushFull`, `done` or `failed`; an operation is at `store` or
`closing`.  The mutex is held over a flush and nowhere else for more than one
step, so it is no variable: `Flushing` says whether somebody holds it.  A flush
writes piece by piece, and `Crash` or `FlushFails` may come between two pieces;
after a failure the block stays current, as in the code.  `Found` is
`GetChunkMetadata`: it takes nothing behind a torn entry to be found, although
by chance the bytes might fall into step again.  Whether a chunk is known plays
no part: with `--hierarchical` no chunk node is ever set, so `PingNode` finds
none and every operation stores all its chunks.

### Restore and ContainerCache

A byte is the number of its offset, so `out = Wanted` says that the right bytes
come out.  The last chunk of an evidence file is shorter.  A slice of Go may
reach beyond the length of its data up to the capacity of its array: there the
model lets the restore continue with bytes `Junk` or panic.

`ContainerCache` refines a round of `Restore` into the steps of a read: `Hit`;
`Load` and then `Keep` with the evictions that make room; or, for a container
larger than the cache, `Load`, `Decompress` into a temporary file and `ReadDisk`.
A chunk is found by its place in its container, so that a cache which returned
another container's data, or data from the start of the file, would restore
other bytes.  The times of last use come from a clock that may read the same
twice.  Only the restore command turns the cache on, and it reads with one
goroutine: concurrent loads, which the mutexes prepare for, do not happen.

### IndexHandshake and IndexedFiles

A send on the unbuffered channel is a state (`sending`, or `main` at `ask` or
`askSync`), and a receive takes it from whoever is sending, indexer or store.
A round of an indexer's loops is two steps: `BeginRound` with `checkChannel`,
and `Round`, or `RoundFails`, with what the round is for.  An indexer that has
failed goes on, as the code does, and any of its later calls may fail with it,
or panic.  How many partitions there are and whether `--sync` was given is
chosen at the beginning.

Each action of `IndexedFiles` is an action of `IndexHandshake` with what it does
to the data (or, for `HashPartition`, leaves the conversation alone).  `offset`
is who has moved the offset of the shared `os.File` last: a hash is right if
that is the one who reads, and otherwise the hash of something else.  `idxmap`
and `batch` are the two maps of an indexer: what it has collected under each
hash, and what it has merged with the nodes of the database and not yet
written.  `before` is what earlier operations have left; `image` what the
partitions hold.

### Search

A database is a record: namespaces, names and ranges of files, and the bytes of
evidence files.  `fpc` and `cpc` are the goroutines of files and chunks; a
goroutine that has a result to send waits until the level above receives.  The
steps of a chunk are those between which others can interfere: looking up
`cmap`, setting it, adding to `idmap`, the overlap with the next chunk.  The
report is made name by name, with `smap` and `idx` as in the code.

### Near

The generator, the collector (`main`) and a counting goroutine per chunk sent
(`work`) are separate; `Take` is the rendezvous of the first two.  The set of
related chunks found in deep mode, and their confidence, is any that the
comparison could give.  Where the code iterates over a map, every order is
allowed (`IdxCounts`, `PartiFile`).

### Service

A request is at one of its database or file calls; `view` is the node it has
read and will write back.  Storing the chunks of an upload is two steps
(`StartChunks`, `StoreChunks`), between which it may fail or be killed;
`EvidenceStore` takes it apart.  What `EvidenceStore` shows to be lost there is
here the set `atRisk` of files whose chunks may not be readable any more: all
files, once a second upload opens containers (`layout`); with a file per chunk,
those that have a chunk in common (`Entangled`) with an upload that failed with
workers left behind (`LeaveWorkers`), ran beside another one (`StartChunks`), or
was killed over a chunk of several places (`Die`).  `MapChunks`, which reads and
unseals every chunk of the file, may then fail.  All starts of the server use
the same layout; earlier runs may have lost bytes too (`Spoilt`).  The server
goes down by a signal (`stopping` until Shutdown returns, in time or not, then
`released` and `closed`) or by a crash, and may be started again.  `overlapped`,
`hit`, `cutOff` and `abrupt` are history: hashes that two requests have used at
the same time, requests that a failure or stop has hit, requests under which
the database was closed, and whether the server ended without a full Shutdown.

## 3. What TLC checks

| run | instance | shows |
|---|---|---|
| `container` | 3 workers, chunks of size 1 and 2, containers of size 2, a queue of 1, 2 sessions, 1 failure, 1 crash | `AcksReadable`: addresses read back their chunks; `NoSendOnClosedQueue`; `DrainedAtExit`: every call answered when the writer goes; `CleanCloseCompresses`: a `Close` without an error leaves compressed files only; `ImplementsLog`: the files implement `ChunkLog` |
| `container_live` | the same, 1 session, no crash | `EveryCallReturns`, `CloseReturns` |
| `container_reuse` | 2 workers, 2 sessions, no failure | `EveryAckReadable` fails: finding 1 |
| `evidence_store` | 2 operations, files `<<a, b>>` and `<<a>>`, 2 names; containers with 1 failure and 1 crash, a file per chunk with 1 crash, or two uploads in progress together: of both files with a file per chunk, of `<<a>>` in one container | `Restorable`, `ChunkNodesBacked`: what is completed can be restored, what is known is stored; `RevRelsComplete`, `NamesRecorded`, `NothingForgotten`: nodes are complete and keep what they hold |
| `evidence_store_live` | 1 operation of 3 chunks on 1 thread, 2 failures | `OperationsEnd`, `WorkersEnd`: the operation ends, and so do the workers it leaves behind |
| `block_index` | operations `<<a, b, c>>` and `<<a, d>>`, one after the other or together, 2 block IDs, 2 entries to a block, 1 failure, 1 crash | `Indexed`: chunks of successful operations can be looked up; `AddedKept`: no entry is lost while buffered; `TornByTroubleOnly` |
| `restore` | all ranges of all images of 1 to 13 bytes, chunks of 3, 3 containers in 2 layouts, caches of 2 and 3, 1 failure | `RegularRestored`, `NothingLost`: regular ranges are exact, all others whole; `CacheBounded`; `RestoresAlike`: as without the cache; `TempFilesGone` |
| `restore_small` | an image of 8 bytes, chunks of 4 | `Restored` fails: finding 2 |
| `index` | up to 2 partitions of up to 2 entries, 2 layouts, 3 earlier indexes, with and without `--sync`, 1 failure | `CompletedAfterIndexing`, `SyncBlocksStore`, `ErrorsReported`: what waits for what; `HashedRight`, `AllNamed`, `NamesKept`: what ends up in the index |
| `search` | 6 databases, 3 queries, chunks of 4, 1 thread, 1 failure | `ReportOfEverything`; `CountsRight`; `ReportConsistent`: names belong together; `SearchEnds` |
| `near` | 6 databases, both modes, 1 thread, 1 failure | `ResultOfEverything`, `PlacesOnce`, `CountedRight`: a result counts everything, once; `NearEnds` |
| `service` | 2 requests of 5 kinds, 2 hashes, one with a chunk that repeats, chunk files or containers, 1 failure, 2 starts | `CompletedStored`; `ToldStaysTrue`; `ErrorsHaveCause`; `StopSpares`: a shutdown in time cuts off no upload over HTTP/1 |

### Bounds

* Three workers are the fewest that meet a container which a failed rollover
  left closed, and a queue of one is full at once.  With chunks of 1 and 2 in
  containers of 2, a chunk fits, fits exactly or does not fit.  A third session
  would find what the second can find.
* Two operations and two files make every pair of steps of two actors; a shared
  chunk at the same position is where relations collide.  On one thread, three
  chunks are more than may be in progress together.
* In `block_index` the first operation meets a change of block, a full block and
  a rest for `Close`, in any order of its workers.
* Thirteen bytes are four chunks and a third: a range can begin and end in the
  first, a middle, the last full and the short chunk.  With bounds of 2 and 3
  there are containers that fill the cache, that evict others and that are too
  large for it.  Two readings of the clock suffice for equal and unequal times.
* Two partitions are the fewest whose indexers take each other's messages; two
  entries can have equal contents, within a partition and across both.
* The databases of `search` have occurrences inside a chunk and across two by
  one byte and by more, chunks cut on both sides, shared between images, a name
  with the separator in it, and an incomplete file.  Those of `near` have a
  chunk that occurs twice in the input, at the same and at other places of
  others, relations through partitions and indexed files, and a missing node.
* Two requests with two hashes use the same node or not; the second start finds
  what a stop or crash of the first has left.

Symmetry of workers, operations and names is used in `container` and
`evidence_store`, which check no liveness.

Deadlock is checked in `container`, `evidence_store` and `block_index`, and in
`container_reuse`.  Elsewhere the system really may stop: an operation that ends
for good (`container_live`, `evidence_store_live`), a command whose process ends
(`restore`, `restore_small`, `search`, `near`), a server that is down
(`service`), and `StoreFile`, which can wait on `idxChan` for ever (`index`).

### Fairness

`Container` and `EvidenceStore` assume weak fairness of each goroutine: each
worker, the writer, `Close`, the operation.  The Go scheduler runs what can run.
`ContainerCache`, `Search` and `Near` assume weak fairness of `Next`: every step
takes a goroutine further along a path without loops, so that it is enough that
something goes on.  `NearEnds` excepts the collector at its second receive,
which the code can leave without a partner.  The other specifications state no
fairness and check no liveness.  Nothing is assumed of failures, crashes,
signals or whoever starts an operation or sends a request.

### Findings

1. `container.go:198` - container names are made from an index that every store
   operation counts from 0; the second operation takes over the files of the
   first, whose addresses stay in the database.
2. `dbio.go:172` - a range smaller than a chunk that crosses a chunk boundary is
   restored with extra bytes.

### Exceptions the properties state

* `AcksReadable` speaks of containers whose tenant knows its offsets: a `.blob`
  left behind by a crash is appended to with offsets from 0 (`container.go:221`),
  and a write cut short has the same effect on the chunks after it (`:161`).
* `RevRelsComplete` holds while no call has failed and operations are one after
  the other: the nodes are read, changed and blindly set.  So with two uploads
  together for `NothingForgotten` and `NamesRecorded`; the latter also excepts
  operations that resume another.
* `Restorable` and `ChunkNodesBacked` speak of the bytes of a chunk only where it
  is `Undisturbed`, and for one operation at a time.  With containers: the
  operation that stored it still owns the container, that is, no later one has
  opened a container of that name (finding 1), it did not itself begin in a
  `.blob` left behind, and no write into it was cut short.  So a completed file
  is not claimed to survive the next operation that stores anything.
* With one file per chunk, they do so while no call has failed, and if no file
  has the chunk at two places.  Whoever has found a chunk
  unknown truncates its file, and the node may have been committed in between: by
  another operation, or by another worker of the same one, as badger commits
  early.  After a crash at that point the node stays and its bytes are gone.
* `Indexed` excepts block files with a torn entry.  `HIERARCHICAL_INDEX.md:453`
  advises to store the file again, which appends behind the torn entry and does
  not help.
* `ErrorsReported`, `HashedRight`, `AllNamed` and `NamesKept` are about one
  indexer at a time.  Several share one offset (`util.go:88`), take each other's
  errors, and merge names from what they have read before the other wrote.  Also
  the partition hash of `StoreFile` moves the offset.  When an index node has a
  set of names and the new one contains it, the merge drops the new names
  (`exfat.go:178-186`).
* `CountsRight` excepts: occurrences with exactly one byte in the first of two
  chunks (`search.go:175`), counts cached for a chunk while it is cut to another
  file's range (`:153`), first chunks shorter than the query, whose slice has a
  negative offset (`:175`), and overlaps beyond the end of the file.  The first
  disagrees with the comment at `:180`, "at least one byte of query on either
  side is required for an overlap": with exactly one byte in the first chunk and
  the rest in the second, the slice of the second is one byte too short.
* A query of one byte makes the offset into the second chunk negative at every
  overlap (`:177`) and ends the process.  `SearchCmd` refuses queries shorter
  than two bytes (`cmdsearch.go:10`), before it makes lower case of them
  (`:17`): only a letter of several bytes whose lower case has one, such as the
  Kelvin sign, gets there.
* `CountedRight` is about evidence files without partitions.  Where a chunk lies
  in a partition, what is counted depends on the order of a map (`near.go:53`).
* `ToldStaysTrue` and `ErrorsHaveCause` except requests that used a hash at the
  same time as another: each writes the whole node back.
* `ErrorsHaveCause` also excepts files `atRisk`: an upload that is repeated after
  a crash ends with an error in container mode, when its own chunk map reads
  addresses that are too low (`container.go:221`), and so may `AppendIfExists`
  for any earlier file after another upload (`container.go:198`); the name is
  then added all the same.  With a file per chunk it is about files that share no
  chunk and repeat none, after attempts that were killed, and about all files
  while no attempt failed, was killed or ran beside another.
* Properties that state `OneAtATime` do not catch the interleavings of the
  hazards they are listed under (`store.go:36`, `store.go:229`, `util.go:88`,
  `exfat.go:146`): with two actors they are false.  What they add is that
  one actor after the other is safe, over failures, crashes and early commits.
* `StopSpares` excepts
  plain-text HTTP/2, whose requests `Shutdown` does not wait for.

### Also observed

Behaviour that the models contain, and that no document contradicts:

* `StoreFile` and an indexer can both wait to send on `idxChan`, for ever
  (`cmdstore.go:140`, `:178`).
* A chunk that occurs twice in a file is stored twice (`store.go:209`: lookups
  do not see the batch); both addresses are good.
* The first error, or one evidence file that is not completed, ends a search
  without a report.
* After a failed call, near receives twice for one error (`infile.go:128` and
  `:147`) and can wait for ever or go on with no map.  `seenMap` remembers
  places, by index only (`:275`); a chunk at one place only is passed over
  although several files share it there (`:138`).
* A container too large for the cache is read and decompressed on every chunk,
  before the copy on disk is used; `CONTAINER_MANAGER_CURRENT.md:171` says
  otherwise.  The bound of the cache does not count the container being loaded.
* The hash a client has sent is never compared with the content.  An upload's
  temporary file stays behind on every path that returns an error.
* A failed hash files its entry under the empty key.

## 4. What is proved

`tlapm` checks the theorems of the eight `...Proofs` modules for every value of
the constants that satisfies the named assumptions of the specifications:
positive sizes, natural bounds, functions of the right type, distinct model
values, and where a database or a layout is a constant, that it is well formed -
a file lies within its image and a name has a part (`DatabasesAssumption` of
`Search` and `Near`), an evidence file is inside nothing (`NestingAssumption`), a
chunk of the file is in some container (`LayoutsAssumption` of
`ContainerCache`), an earlier index is right for the image (`EarlierAssumption`
of `IndexedFiles`).  TLC evaluates each of them on every instance.  No theorem
has hypotheses of its own.

Every invariant and every action property that a passing run checks is a
theorem, and so are the refinements `ImplementsLog` and `RestoresAlike` and the
type invariants (`TypeCorrect`).  Each module has one inductive invariant
(`IInv`, in `Search` `FlowInv`), a conjunction of named parts; further ones build
on it and are about less.

* `ContainerProofs`.  `Requests` (a request is in one place only - queue, writer
  or reply - and its chunk stays in `arg` until then); `Phases` (the writer and
  `Close` are never both at the file, and after the queue is closed no worker is
  sending); `OpenFile` (the length of the open `.blob` is `currentOffset`, unless
  the container is spoiled); `CompressSteps` (until the rename the `.blob` holds
  all the data, and at the removal the compressed file does); `Tenancy` (this
  session is the tenant only of indices it has reached); `SizeBound`; and
  `Addresses`, which extends `AcksReadable` to replies not yet received.
  `AcksReadable` alone is not inductive: it needs that a reply in flight is good,
  hence that the offset equals the length, hence the single writer.  From `IInv`
  follow `TypeCorrect`, `TenantsChunksSafe`, `NoPanicOnSend`, `QueueDrained` and
  `ContainersBounded`; `NothingElseLoses` from the lemma that the readers' view
  changes only in `OpenContainer` and `WriteChunk` (`ContentsStable`); and
  `Refinement` shows `Spec => ImplementsLog`.  `Sealing` says that the containers
  of a session are compressed up to the one it is at, where a failed compression
  keeps it: `CloseCompresses`.  `LogKeeps` is about the abstract log alone: it
  keeps the chunks of its present tenants.
* `EvidenceStoreProofs`.  `Counted` (`active` is the workers at it plus the
  reports not collected), `Spawned`, `OpGood` and `WorkerGood` (what an operation
  has spawned and each worker has set, in the batch or in the database).  Nodes
  only grow,
  so that what a worker has seen committed stays.  `ReportsFit` and
  `CompletedNodes` (a completed file has its nodes, in every mode) follow.
  `OrderedInv` is about operations one after the other.  Its parts are
  conditional: on `OneAtATime`, what an operation has read of a node is what it
  will overwrite (`NamesGood`); and until a call fails, a worker sets a reverse
  relation to no less than what is committed (`RevsGood`), and a worker that will
  truncate the file of a chunk is the only one that sets the chunk's node, and
  has not set it (`FilesGood`).  `ContainersGood` is about the container: only the
  operation under way has a manager with a file open; if it owns the container,
  its offset is the length of what is there (`ManagerGood`); and every address
  that names the owner, in the database (`PointsIn`) or in a batch
  (`BatchPoints`), has its chunk there.  From these `NodesKept`, `NameOfFinished`,
  `ReverseRelations`, `NodesBacked` and `CompletedRestorable`.
* `BlockIndexProofs`.  `Holders` (one worker or `Close` holds the mutex of an
  operation while it flushes) and `EntriesGood`: a buffer holds entries of its
  own block (`OfBlock`), what a flush has written of it can be found in the file
  (`Copied`), a hash just written is still the last piece of the file (`Half`),
  and a worker that has been told of success has its entry in the buffer or on
  disk (`Kept`, `Stored`) - or the file is torn.  `Half` is what makes `Indexed`
  inductive: an entry is written in two pieces, and other operations append to
  the same file in between.
  `WholeWithoutTrouble` has an invariant of its own, `CalmGood`, for the time in
  which no call has failed, nobody has crashed and one operation is at work.
* `RestoreProofs`.  For every chunk size and every image, `RegularSafe` and
  `WholeRangeSafe`.  The invariant says what `out` is when the loop is at
  `restoreIndex`: the range up to there, whole chunks in the middle.  The lemmas
  are about what `GetChonkData` returns for the first, a middle and the last
  chunk.  For the cache, `CacheInv`: what has been decompressed or read is the
  chunk to be written next.  With it each step of the cache is a round of
  `Restore` or a stutter (`CacheRestores`).  `CacheStaysBounded` is about the
  counter of bytes and the sum over the map, which change apart; the lemmas on
  sums over finite sets are proved with a smallest counterexample (`Smallest`),
  where induction is not available.
* `IndexProofs`.  For the conversation: `Order`, `OneByOne`, `Awaited` and
  `Heard`, that is, how many results `StoreFile` still waits for and what each
  indexer has yet to say.  From these `CompletedAfterIndexers`, `SyncStoresAfter`
  and `ErrorsAreReported`.  `IndexersConverse` shows that the specification of
  `IndexedFiles` implements that of `IndexHandshake`, whose theorems are then its
  own.  For the data a second invariant, `DInv`: a merged node is not yet written
  and has the names of the committed one (`MergedOnly`, `Kept`), and the one who
  reads has moved the offset last (`OffsetRight`, `AllRight`).  From it
  `HashesRight` and `NamesStay`.  A third, `NameInv`, follows an entry from the
  listing through the map and the batch to the database (`Collected`, `Covered`,
  `Settled`, `Sources`): `FilesNamed`.
* `NearProofs`.  `Given`, `SentGood` and `FreshNear` (the generator has seen the
  places of all it has sent, so that the next is disjoint from them), `Counted`
  (`active` is the number of counting goroutines not heard of, until an error is
  received) and `Told` (each failed call is still to be heard of).  The last two
  together give `CompleteResult`: if nothing is awaited and no error came, none
  is under way.  `SumInv` gives each place sent one counting goroutine (`Sending`,
  `Sources`), which has added what it has passed (`Adds`): `CountsAreRight`.
* `SearchProofs`.  `FlowInv`: until the search is given up, `active` counts the
  goroutines of files and one namespace is done with before the next (`Queue`); a
  file has a goroutine for each chunk up to `sindex`, and `factive` counts those
  not heard of (`Cutting`); a failed call is still to be heard of (`Erring`).  At
  the report nothing is left under way: `EverythingIsSearched`.  `RepInv`: there
  is one occurrence for an artefact, the last for the one at work (`Occs`,
  `AtArtefact`), and `smap` holds what was looked up (`Remembered`):
  `ReportIsConsistent`.  `CountInv`: a count in `cmap` is that of the chunk as
  some file cuts it (`Cached`), a count to be set that of the chunk as its own
  file does (`ToSet`), and `idmap` counts the occurrences that the goroutines
  have passed, inside their chunk and across its end (`Adds`).  At the report
  these are all occurrences but those with one byte in the first of two chunks:
  `CountsAreRight`.
* `ServiceProofs`.  What each request knows at each of its steps of the node it
  holds and of the chunks behind it (`AllGood`), with `CompletedStored`.  Nodes
  only grow in what the theorems need (`NodesGrow`, `HeldStays`), or a request of
  the same hash is marked as overlapped; `atRisk` never shrinks (`Frame`).  `ToldStays`, `ErrorsCaused`,
  `StopsSpare` and `UploadsRemoved` follow.

Only model-checked: liveness - `EveryCallReturns`, `CloseReturns`,
`OperationsEnd`, `WorkersEnd`, `TempFilesGone`, `SearchEnds`, `NearEnds` -
because fairness and `ENABLED` are outside what TLAPS proves.  The two refuted
properties (section 3) are counterexamples of TLC's.

## 5. What is left out

Left out on purpose: the contents of the encodings (zstd, AES, msgpack, base64),
the hash functions, except that equal hashes mean equal contents; progress bars
and printing; power loss (the order of `fsync` calls); the numeric measure of
partial matches; deleting the database; parsing of partition tables and of the
exFAT file system, which gives the indexers their entries.

Left for later, in this order:

1. `BlockIndex` composed with `Container`: the first-match lookup over containers
   that later operations replace (`blockindex.go:168`).
2. `NearOutFile`, which compares a file outside the database chunk by chunk.
