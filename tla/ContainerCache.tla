--------------------------- MODULE ContainerCache ---------------------------
(***************************************************************************)
(* Restoring a file through the cache of decompressed containers:          *)
(* lib/fio/container_cache.go under restoreData of lib/store/restore.go.   *)
(*                                                                         *)
(* While restoreData runs, a compressed container is decompressed as a     *)
(* whole and kept in memory; the least recently used ones make room.  One  *)
(* that is larger than the whole cache is decompressed into a temporary    *)
(* file instead.  What comes out is to be the same as in Restore.          *)
(***************************************************************************)
EXTENDS Restore, FiniteSets, FiniteSetsExt

CONSTANTS
  Paths,      \* paths of containers
  Layouts,    \* bound: where the chunks of the evidence file are
  MaxSizes,   \* bound: maxCacheSize
  MaxTime,    \* bound: readings of the clock that differ
  None

(* A chunk of the evidence file is in some container.                      *)
ASSUME LayoutsAssumption ==
  /\ IsFiniteSet(Paths) /\ MaxSizes \subseteq Nat
  /\ \A l \in Layouts :
       /\ l.size \in [Paths -> Nat]
       /\ \A im \in Images : \A n \in 0 .. im : n * ChonkSize < im =>
            \E p \in Paths : \E i \in DOMAIN l.content[p] :
              l.content[p][i] = n * ChonkSize

VARIABLES
  layout,     \* the containers, which nobody changes
  maxCacheSize,
  cacheOn,    \* containerCacheOn
  cached,     \* containerReadCache: when each container was used last
  cacheSize,  \* currentCacheSize
  onDisk,     \* containerDiskCache
  temp,       \* temporary files
  clock,
  loaded,     \* a container that has been decompressed in memory
  got         \* the chunk that has been read

cacheVars == <<cached, cacheSize, onDisk, temp>>
cachedVars == <<vars, layout, maxCacheSize, cacheOn, cacheVars, clock, loaded, got>>

-----------------------------------------------------------------------------
(* A chunk, its container and its place in it.                             *)

PathOf(at) == CHOOSE p \in Paths : \E i \in DOMAIN layout.content[p] :
                                     layout.content[p][i] = at
OffsetOf(at) == CHOOSE i \in DOMAIN layout.content[PathOf(at)] :
                  layout.content[PathOf(at)][i] = at
Compressed(p) == p \in layout.compressed
Size(p) == layout.size[p]

path == PathOf(restoreIndex)
Wants == status = "running" /\ restoreIndex < end /\ got = None
Reading == Wants /\ Compressed(path)

(* extractEncodedChunk and ReadAt: what is at the offset of the container. *)
Extract(p) == layout.content[p][OffsetOf(restoreIndex)]

(* The clock may read the same twice.                                      *)
Tick == clock' \in {clock, IF clock < MaxTime THEN clock + 1 ELSE clock}

-----------------------------------------------------------------------------
CachedInit ==
  /\ Init
  /\ layout \in Layouts /\ maxCacheSize \in MaxSizes
  /\ cacheOn = TRUE
  /\ cached = <<>> /\ cacheSize = 0 /\ onDisk = {} /\ temp = {}
  /\ clock = 0 /\ loaded = None /\ got = None

(* A container that is not compressed is read in place.                    *)
ReadPlain ==
  /\ Wants /\ ~Compressed(path)
  /\ got' = Extract(path)
  /\ UNCHANGED <<vars, layout, maxCacheSize, cacheOn, cacheVars, clock, loaded>>

(* getCachedDecompressedContainer.                                         *)
Hit ==
  /\ Reading /\ loaded = None /\ path \in DOMAIN cached
  /\ Tick
  /\ cached' = [cached EXCEPT ![path] = clock']
  /\ got' = Extract(path)
  /\ UNCHANGED <<vars, layout, maxCacheSize, cacheOn, cacheSize, onDisk, temp,
                 loaded>>

(* loadAndCacheDecompressedContainer, also of a container that will turn   *)
(* out to be too large, each time.                                         *)
Load ==
  /\ Reading /\ loaded = None /\ path \notin DOMAIN cached
  /\ loaded' = path
  /\ UNCHANGED <<vars, layout, maxCacheSize, cacheOn, cacheVars, clock, got>>

(* The containers in order of their last use begin with these.             *)
Prefix(paths) ==
  \A p \in paths, q \in DOMAIN cached \ paths : cached[p] <= cached[q]

Fits(paths, needed) ==
  cacheSize - MapThenSumSet(Size, paths) + needed <= maxCacheSize

(* evictLRUContainers: as few as make room.                                *)
Evictions(needed) ==
  {paths \in SUBSET DOMAIN cached :
     /\ Prefix(paths)
     /\ Fits(paths, needed) \/ paths = DOMAIN cached
     /\ paths # {} => \E p \in paths : /\ Prefix(paths \ {p})
                                       /\ ~Fits(paths \ {p}, needed)}

(* Mutant: what makes room is still counted.                               *)
MutSizeAfter(evicted) == cacheSize + Size(loaded)

SizeAfter(evicted) == cacheSize - MapThenSumSet(Size, evicted) + Size(loaded)

Loaded == status = "running" /\ loaded # None

Keep ==
  /\ Loaded /\ Size(loaded) <= maxCacheSize
  /\ Tick
  /\ \E evicted \in Evictions(Size(loaded)) :
       /\ cached' = [p \in (DOMAIN cached \ evicted) \cup {loaded} |->
                       IF p = loaded THEN clock' ELSE cached[p]]
       /\ cacheSize' = SizeAfter(evicted)
  /\ got' = Extract(loaded) /\ loaded' = None
  /\ UNCHANGED <<vars, layout, maxCacheSize, cacheOn, onDisk, temp>>

TooLarge == Loaded /\ Size(loaded) > maxCacheSize

(* decompressContainerToDisk.                                              *)
Decompress ==
  /\ TooLarge /\ loaded \notin onDisk
  /\ temp' = temp \cup {"dir", loaded}
  /\ onDisk' = onDisk \cup {loaded}
  /\ UNCHANGED <<vars, layout, maxCacheSize, cacheOn, cached, cacheSize, clock,
                 loaded, got>>

(* Mutant: the temporary file is read from its start.                      *)
MutReadDisk ==
  /\ TooLarge /\ loaded \in onDisk
  /\ got' = layout.content[loaded][1] /\ loaded' = None
  /\ UNCHANGED <<vars, layout, maxCacheSize, cacheOn, cacheVars, clock>>

ReadDisk ==
  /\ TooLarge /\ loaded \in onDisk
  /\ got' = Extract(loaded) /\ loaded' = None
  /\ UNCHANGED <<vars, layout, maxCacheSize, cacheOn, cacheVars, clock>>

-----------------------------------------------------------------------------
(* restoreData.                                                            *)

Chonk(at) == INSTANCE Restore WITH restoreIndex <- at

WriteChonk ==
  /\ status = "running" /\ got # None
  /\ out' = out \o Chonk(got)!GetChonkData
  /\ restoreIndex' = restoreIndex + ChonkSize
  /\ got' = None
  /\ UNCHANGED <<range, status, layout, maxCacheSize, cacheOn, cacheVars, clock,
                 loaded>>

WritePanics ==
  /\ status = "running" /\ got # None /\ ~Chonk(got)!WithinSlice
  /\ status' = "panic"
  /\ UNCHANGED <<range, restoreIndex, out, layout, maxCacheSize, cacheOn,
                 cacheVars, clock, loaded, got>>

(* Any read or write fails; a temporary file that is not complete is       *)
(* removed, its directory is not.                                          *)
AnyFails ==
  /\ ChonkFails
  /\ temp' = IF TooLarge /\ loaded \notin onDisk THEN temp \cup {"dir"} ELSE temp
  /\ UNCHANGED <<layout, maxCacheSize, cacheOn, cached, cacheSize, onDisk, clock,
                 loaded, got>>

AllWritten ==
  /\ Finish
  /\ UNCHANGED <<layout, maxCacheSize, cacheOn, cacheVars, clock, loaded, got>>

(* Mutant: called at the end of the function, not deferred.                *)
MutDisable ==
  /\ status = "done" /\ cacheOn
  /\ cacheOn' = FALSE
  /\ cached' = <<>> /\ cacheSize' = 0 /\ onDisk' = {} /\ temp' = {}
  /\ UNCHANGED <<vars, layout, maxCacheSize, clock, loaded, got>>

(* DisableContainerReadCache, deferred.                                    *)
Disable ==
  /\ status # "running" /\ cacheOn
  /\ cacheOn' = FALSE
  /\ cached' = <<>> /\ cacheSize' = 0 /\ onDisk' = {} /\ temp' = {}
  /\ UNCHANGED <<vars, layout, maxCacheSize, clock, loaded, got>>

-----------------------------------------------------------------------------
CachedNext ==
  \/ ReadPlain \/ Hit \/ Load \/ Keep \/ Decompress \/ ReadDisk
  \/ WriteChonk \/ WritePanics \/ AnyFails \/ AllWritten \/ Disable

CachedSpec ==
  CachedInit /\ [][CachedNext]_cachedVars /\ WF_cachedVars(CachedNext)

-----------------------------------------------------------------------------
(* What the map holds is what is counted, and it never exceeds the limit,  *)
(* so that no sequence of loads and evictions makes it grow without end.   *)
CacheBounded ==
  /\ cacheSize = MapThenSumSet(Size, DOMAIN cached)
  /\ cacheSize <= maxCacheSize

(* With the cache a file is restored as without it: Restore's steps and    *)
(* outcomes, whatever is cached, evicted or on disk.                       *)
RestoresAlike == Spec

(* However restoreData ends, its temporary files are gone thereafter.      *)
TempFilesGone == <>[](status # "running" /\ temp = {})
=============================================================================
