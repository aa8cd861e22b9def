--------------------------- MODULE IndexHandshake ---------------------------
(***************************************************************************)
(* The file indexers of StoreFile: cli/cmdstore.go and IndexEXFAT of       *)
(* lib/parser/exfat.go.                                                    *)
(*                                                                         *)
(* StoreFile starts an indexer per partition.  All of them share one       *)
(* channel without a buffer, idxChan, which carries two things: the nil    *)
(* with which StoreFile asks an indexer to show its progress, in one       *)
(* direction, and results and errors in the other.  An indexer looks for   *)
(* the question between two entries and does not wait for it; it sends     *)
(* every error and, unlike the usual handler, goes on after it.  A send    *)
(* waits for whoever receives next, which may be another indexer.          *)
(***************************************************************************)
EXTENDS Integers, FiniteSets

CONSTANTS
  MaxPartitions,   \* parser.GetPartitions finds at most 4
  MaxEntries,      \* bound: indexable entries of a partition
  MaxFaults        \* bound: calls that fail

ASSUME BoundsAssumption ==
  MaxPartitions \in Nat /\ MaxEntries \in Nat /\ MaxFaults \in Nat

VARIABLES
  sync,      \* syncIndex, the flag of the command; the server never sets it
  partitions,   \* how many parser.GetPartitions found
  main,      \* where StoreFile is
  started,   \* indexers it has started
  active,    \* its variable active
  pc,        \* where an indexer is
  sending,   \* what an indexer waits to send, or "nothing"
  entries,   \* entries it has found
  left,      \* rounds left in its loop
  asked,     \* flag, then pflag: it has been asked to show its progress
  begun,     \* it is in the body of a round, past checkChannel
  failure,   \* history: its first call that failed
  faults

input == <<sync, partitions>>
store == <<input, main, started, active>>
indexer == <<pc, entries, left, asked, begun, failure>>
vars == <<store, indexer, sending, faults>>

Indexers == 1 .. MaxPartitions
Calls == {"open", "root", "list", "hash", "batch"}
Over == {"done", "failed", "dead"}

(* Blocked in a send on idxChan.                                           *)
Senders == {p \in Indexers : sending[p] # "nothing"}
Asking == main \in {"askSync", "ask"}

Fault == faults < MaxFaults /\ faults' = faults + 1

-----------------------------------------------------------------------------
Init ==
  /\ sync \in BOOLEAN /\ partitions \in 0 .. MaxPartitions
  /\ main = "index" /\ started = 0 /\ active = 0
  /\ pc = [p \in Indexers |-> "none"]
  /\ sending = [p \in Indexers |-> "nothing"]
  /\ entries = [p \in Indexers |-> 0] /\ left = [p \in Indexers |-> 0]
  /\ asked = [p \in Indexers |-> FALSE] /\ begun = [p \in Indexers |-> FALSE]
  /\ failure = [p \in Indexers |-> "none"]
  /\ faults = 0

(* StoreFile: an indexer for the next partition; with syncIndex it is      *)
(* asked and waited for at once.                                           *)
StartIndexer ==
  /\ main = "index" /\ started < partitions
  /\ started' = started + 1
  /\ pc' = [pc EXCEPT ![started + 1] = "open"]
  /\ IF sync THEN main' = "askSync" /\ UNCHANGED active
             ELSE active' = active + 1 /\ UNCHANGED main
  /\ UNCHANGED <<input, sending, entries, left, asked, begun, failure, faults>>

(* Mutant: an indexer that reports an error is passed over.                *)
MutSyncReceive(p) ==
  /\ main = "waitSync" /\ p \in Senders
  /\ sending' = [sending EXCEPT ![p] = "nothing"]
  /\ main' = "index"
  /\ UNCHANGED <<input, started, active, indexer, faults>>

(* Only ErrIncompatibleFile is passed over, which no indexer sends.        *)
SyncReceive(p) ==
  /\ main = "waitSync" /\ p \in Senders
  /\ sending' = [sending EXCEPT ![p] = "nothing"]
  /\ main' = IF sending[p] = "ok" THEN "index" ELSE "failed"
  /\ UNCHANGED <<input, started, active, indexer, faults>>

StoreEvidence ==
  /\ main = "index" /\ started = partitions
  /\ main' = "collect"
  /\ UNCHANGED <<input, started, active, indexer, sending, faults>>

(* The hash of a partition, the store operation or marking the file        *)
(* completed may fail.                                                     *)
StoreFails ==
  /\ main = "index" \/ (main = "collect" /\ active = 0)
  /\ Fault
  /\ main' = "failed"
  /\ UNCHANGED <<input, started, active, indexer, sending>>

(* Mutant: an indexer that has sent nothing is taken to have ended.        *)
MutAskAsync ==
  /\ main = "collect" /\ active > 0 /\ Senders = {}
  /\ active' = active - 1
  /\ UNCHANGED <<input, main, started, indexer, sending, faults>>

(* The loop over active indexers: a result that is there is taken, and if  *)
(* there is none StoreFile asks, and waits until somebody listens.         *)
AskAsync ==
  /\ main = "collect" /\ active > 0 /\ Senders = {}
  /\ main' = "ask"
  /\ UNCHANGED <<input, started, active, indexer, sending, faults>>

(* Mutant: any error of an indexer is let pass.                            *)
MutLetPass(result) == result # "nothing"

LetPass(result) == result \in {"ok", "incompatible"}

Receive(p) ==
  /\ main = "wait" \/ (main = "collect" /\ active > 0)
  /\ p \in Senders
  /\ sending' = [sending EXCEPT ![p] = "nothing"]
  /\ IF LetPass(sending[p]) THEN main' = "collect" /\ active' = active - 1
                            ELSE main' = "failed" /\ UNCHANGED active
  /\ UNCHANGED <<input, started, indexer, faults>>

MarkCompleted ==
  /\ main = "collect" /\ active = 0
  /\ main' = "done"
  /\ UNCHANGED <<input, started, active, indexer, sending, faults>>

-----------------------------------------------------------------------------
(* IndexEXFAT.  After an error an indexer goes on with what it has, and    *)
(* any of its next calls may fail with it.                                 *)

CanRun(p) == sending[p] = "nothing" /\ main # "dead"

MayFail(p) == Fault \/ (failure[p] # "none" /\ UNCHANGED faults)

Failed(p) ==
  failure' = [failure EXCEPT ![p] = IF @ = "none" THEN pc[p] ELSE @]

After == [open |-> "root", root |-> "list", list |-> "hash", hash |-> "batch",
          batch |-> "loop"]

Call(p) ==
  /\ CanRun(p) /\ pc[p] \in Calls
  /\ pc' = [pc EXCEPT ![p] = After[@]]
  /\ \E n \in IF pc[p] = "list" THEN 0 .. MaxEntries ELSE {entries[p]} :
       /\ entries' = [entries EXCEPT ![p] = n]
       /\ left' = [left EXCEPT ![p] = n]
  /\ UNCHANGED <<store, sending, asked, begun, failure, faults>>

CallFails(p) ==
  /\ CanRun(p) /\ pc[p] \in Calls
  /\ MayFail(p) /\ Failed(p)
  /\ pc' = [pc EXCEPT ![p] = After[@]]
  /\ sending' = [sending EXCEPT ![p] =
       IF pc[p] = "open" THEN "incompatible" ELSE "error"]
  /\ UNCHANGED <<store, entries, left, asked, begun>>

InRound(p) == CanRun(p) /\ pc[p] \in {"loop", "merge"} /\ left[p] > 0
NobodySends == ~Asking /\ Senders = {}

(* A round begins with checkChannel, until that has received once: it      *)
(* takes whatever somebody waits to send, the question or another          *)
(* indexer's result, and does not wait for a sender.                       *)
BeginRound(p) ==
  /\ InRound(p) /\ ~begun[p]
  /\ begun' = [begun EXCEPT ![p] = TRUE]
  /\ \/ /\ asked[p] \/ NobodySends
        /\ UNCHANGED <<main, sending, asked>>
     \/ /\ ~asked[p] /\ Asking
        /\ main' = IF main = "ask" THEN "wait" ELSE "waitSync"
        /\ asked' = [asked EXCEPT ![p] = TRUE]
        /\ UNCHANGED sending
     \/ /\ ~asked[p]
        /\ \E q \in Senders : sending' = [sending EXCEPT ![q] = "nothing"]
        /\ asked' = [asked EXCEPT ![p] = TRUE]
        /\ UNCHANGED main
  /\ UNCHANGED <<input, started, active, pc, entries, left, failure, faults>>

(* The rest of a round of the loop over entries or over distinct files.    *)
Round(p) ==
  /\ InRound(p) /\ begun[p]
  /\ left' = [left EXCEPT ![p] = @ - 1]
  /\ begun' = [begun EXCEPT ![p] = FALSE]
  /\ UNCHANGED <<store, pc, sending, entries, asked, failure, faults>>

(* The hash of an entry fails, or a database call for a file; the latter   *)
(* ends its loop.                                                          *)
RoundFails(p) ==
  /\ InRound(p) /\ begun[p]
  /\ MayFail(p) /\ Failed(p)
  /\ sending' = [sending EXCEPT ![p] = "error"]
  /\ begun' = [begun EXCEPT ![p] = FALSE]
  /\ IF pc[p] = "loop"
       THEN left' = [left EXCEPT ![p] = @ - 1] /\ UNCHANGED pc
       ELSE pc' = [pc EXCEPT ![p] = "flush"] /\ UNCHANGED left
  /\ UNCHANGED <<store, entries, asked>>

(* Entries with the same content are one file.                             *)
StartMerge(p) ==
  /\ CanRun(p) /\ pc[p] = "loop" /\ left[p] = 0
  /\ pc' = [pc EXCEPT ![p] = "merge"]
  /\ \E n \in 0 .. entries[p] :
       /\ n = 0 <=> entries[p] = 0
       /\ left' = [left EXCEPT ![p] = n]
  /\ asked' = [asked EXCEPT ![p] = FALSE]
  /\ UNCHANGED <<store, sending, entries, begun, failure, faults>>

EndMerge(p) ==
  /\ CanRun(p) /\ pc[p] = "merge" /\ left[p] = 0
  /\ pc' = [pc EXCEPT ![p] = "flush"]
  /\ UNCHANGED <<store, sending, entries, left, asked, begun, failure, faults>>

FlushIndex(p) ==
  /\ CanRun(p) /\ pc[p] = "flush"
  /\ pc' = [pc EXCEPT ![p] = "result"]
  /\ \/ UNCHANGED <<sending, failure, faults>>
     \/ /\ MayFail(p) /\ Failed(p)
        /\ sending' = [sending EXCEPT ![p] = "error"]
  /\ UNCHANGED <<store, entries, left, asked, begun>>

(* storePartitionFile, whose result is the last thing an indexer sends.    *)
StorePartition(p) ==
  /\ CanRun(p) /\ pc[p] = "result"
  /\ pc' = [pc EXCEPT ![p] = "ended"]
  /\ \/ /\ sending' = [sending EXCEPT ![p] = "ok"]
        /\ UNCHANGED <<failure, faults>>
     \/ /\ MayFail(p) /\ Failed(p)
        /\ sending' = [sending EXCEPT ![p] = "error"]
  /\ UNCHANGED <<store, entries, left, asked, begun>>

(* What a failed call has left behind, a nil batch say, may end the whole  *)
(* process when it is used.                                                *)
Panic(p) ==
  /\ CanRun(p) /\ failure[p] # "none" /\ pc[p] # "ended" /\ main \notin Over
  /\ main' = "dead"
  /\ UNCHANGED <<input, started, active, indexer, sending, faults>>

-----------------------------------------------------------------------------
IndexerStep(p) ==
  \/ Call(p) \/ CallFails(p) \/ BeginRound(p) \/ Round(p) \/ RoundFails(p)
  \/ StartMerge(p) \/ EndMerge(p) \/ FlushIndex(p) \/ StorePartition(p)

StoreStep ==
  \/ StartIndexer \/ StoreEvidence \/ StoreFails \/ AskAsync \/ MarkCompleted
  \/ \E p \in Indexers : SyncReceive(p) \/ Receive(p)

Next ==
  \/ StoreStep
  \/ \E p \in Indexers : IndexerStep(p) \/ Panic(p)

Spec == Init /\ [][Next]_vars

-----------------------------------------------------------------------------
TypeOK ==
  /\ sync \in BOOLEAN /\ partitions \in 0 .. MaxPartitions
  /\ main \in Over \cup {"index", "askSync", "waitSync", "collect", "ask", "wait"}
  /\ started \in 0 .. MaxPartitions /\ active \in 0 .. MaxPartitions
  /\ pc \in [Indexers -> Calls \cup {"none", "loop", "merge", "flush", "result",
                                     "ended"}]
  /\ sending \in [Indexers -> {"nothing", "ok", "incompatible", "error"}]
  /\ entries \in [Indexers -> 0 .. MaxEntries]
  /\ left \in [Indexers -> 0 .. MaxEntries]
  /\ asked \in [Indexers -> BOOLEAN] /\ begun \in [Indexers -> BOOLEAN]
  /\ failure \in [Indexers -> Calls \cup {"none", "loop", "merge", "flush",
                                          "result"}]
  /\ faults \in 0 .. MaxFaults

Ended(p) == pc[p] = "ended" /\ sending[p] = "nothing"

(* If no call fails, a file is marked completed, its mapping and handle    *)
(* closed, only when every indexer that reads them has ended.              *)
CompletedAfterIndexing ==
  main = "done" /\ faults = 0 => \A p \in 1 .. partitions : Ended(p)

(* With syncIndex no chunk is stored before all indexers have ended, even  *)
(* if their calls fail.                                                    *)
SyncBlocksStore ==
  sync /\ main \in {"collect", "done"} => \A p \in 1 .. partitions : Ended(p)

(* A file is not marked completed with an indexer's error unreported,      *)
(* except that a partition cannot be opened.  Two indexers side by side do *)
(* lose errors: checkChannel of one of them takes what the other sends.    *)
ErrorsReported ==
  main = "done" /\ (sync \/ partitions = 1) =>
    \A p \in Indexers : failure[p] \in {"none", "open"}
=============================================================================
