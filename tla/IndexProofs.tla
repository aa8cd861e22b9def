----------------------------- MODULE IndexProofs -----------------------------
(***************************************************************************)
(* Proofs about StoreFile and its indexers, for any number of partitions,  *)
(* entries and failures: the conversation on idxChan (TypeOK,              *)
(* CompletedAfterIndexing, SyncBlocksStore, ErrorsReported), that the      *)
(* indexers with their hashes, maps and batches take part in it as         *)
(* IndexHandshake says, and what they store where one of them runs at a    *)
(* time (HashedRight, NamesKept, and without failures AllNamed).           *)
(***************************************************************************)
EXTENDS IndexedFiles, TLAPS, FiniteSetTheorems

-----------------------------------------------------------------------------
(* The conversation.                                                       *)

Collecting == {"collect", "ask", "wait", "done"}

Order ==
  /\ started <= partitions /\ active <= started
  /\ main \in {"ask", "wait"} => active > 0
  /\ main \in Collecting => started = partitions
  /\ main = "done" => active = 0
  /\ \A p \in Indexers : p > started => pc[p] = "none"
  /\ \A p \in Indexers : pc[p] = "none" => sending[p] = "nothing"
  /\ \A p \in Indexers : pc[p] \in {"none", "open"} => failure[p] = "none"
  /\ \A p \in Indexers : sending[p] = "ok" => pc[p] = "ended"
  /\ \A p \in Indexers : sending[p] = "incompatible" => failure[p] = "open"

(* With syncIndex one indexer runs at a time.                              *)
OneByOne ==
  sync => /\ active = 0 /\ main \notin {"ask", "wait"}
          /\ \A p \in Indexers : p < started => Ended(p)
          /\ main \in {"index", "collect", "done"} =>
               \A p \in Indexers : p <= started => Ended(p)

(* Without failures, a result that StoreFile has not received is one it    *)
(* still waits for.                                                        *)
Pending == {p \in 1 .. started : ~Ended(p)}

Awaited ==
  faults = 0 =>
    /\ \A p \in Indexers :
         failure[p] = "none" /\ sending[p] \in {"nothing", "ok"}
    /\ ~sync /\ main \notin {"failed", "dead"} =>
         Cardinality(Pending) <= active

(* With one indexer at a time, an error waits to be sent until StoreFile   *)
(* has it.                                                                 *)
Alone == sync \/ partitions = 1

Heard ==
  Alone =>
    /\ \A p \in Indexers :
         failure[p] \notin {"none", "open"} =>
           sending[p] = "error" \/ main \in {"failed", "dead"}
    /\ \A p \in Indexers :
         /\ ~sync /\ active = 0 /\ pc[p] # "none"
         /\ main \notin {"failed", "dead"}
         => Ended(p) \/ failure[p] = "open"

IInv == TypeOK /\ Order /\ OneByOne /\ Awaited /\ Heard

Failures == Calls \cup {"none", "loop", "merge", "flush", "result"}
Places == Failures \cup {"ended"}

LEMMA PendingFinite ==
  ASSUME TypeOK PROVE IsFiniteSet(Pending)
<1>1. Pending \subseteq 1 .. started /\ started \in Int
  BY BoundsAssumption DEF TypeOK, Pending
<1>2. IsFiniteSet(1 .. started)
  BY <1>1, FS_Interval
<1>3. QED  BY <1>1, <1>2, FS_Subset

(* A step after which no indexer that has ended is pending.                *)
LEMMA StillAwaited ==
  ASSUME IInv, faults = 0, faults' = 0, UNCHANGED <<sync, started, active>>,
         main' \notin {"failed", "dead"} => main \notin {"failed", "dead"},
         \A q \in Indexers :
           failure'[q] = "none" /\ sending'[q] \in {"nothing", "ok"},
         \A q \in Indexers : Ended(q) => Ended(q)'
  PROVE  Awaited'
<1>1. Pending' \subseteq Pending
  BY BoundsAssumption DEF IInv, TypeOK, Pending, Indexers
<1>2. IsFiniteSet(Pending) /\ active \in Nat
  BY PendingFinite DEF IInv, TypeOK
<1>3. IsFiniteSet(Pending') /\ Cardinality(Pending') <= Cardinality(Pending)
  BY <1>1, <1>2, FS_Subset
<1>4. Cardinality(Pending) \in Nat /\ Cardinality(Pending') \in Nat
  BY <1>2, <1>3, FS_CardinalityType
<1>5. Cardinality(Pending) <= active => Cardinality(Pending') <= active'
  BY <1>2, <1>3, <1>4
<1>6. QED  BY <1>5 DEF IInv, Awaited

-----------------------------------------------------------------------------
(* The steps of StoreFile and of an indexer.                               *)

USE DEF Indexers, Calls, Over, store, input, indexer

LEMMA StartIndexerStep ==
  ASSUME IInv, StartIndexer PROVE IInv'
<1>1. TypeOK'
  BY BoundsAssumption DEF IInv, TypeOK, Order, StartIndexer
<1>2. Order'
  BY <1>1 DEF IInv, TypeOK, Order, Collecting, OneByOne, Ended, StartIndexer
<1>3. OneByOne'
  BY <1>1 DEF IInv, TypeOK, Order, Collecting, OneByOne, Ended, StartIndexer
<1>4. Awaited'
  <2>1. CASE sync
    BY <2>1, <1>1 DEF IInv, TypeOK, Order, OneByOne, Awaited, Pending, Ended,
       StartIndexer
  <2>2. CASE ~sync
    <3>a. \A q \in Indexers : q # started + 1 => (Ended(q) <=> Ended(q)')
      BY DEF IInv, TypeOK, Order, OneByOne, Awaited, Pending, Ended,
         StartIndexer
    <3>c. started' = started + 1 /\ started' \in Indexers /\ started \in Nat
      BY BoundsAssumption DEF IInv, TypeOK, Order, OneByOne, Awaited, Pending,
         Ended, StartIndexer
    <3>d. pc'[started + 1] = "open"
      BY <3>c DEF IInv, TypeOK, Order, OneByOne, Awaited, Pending, Ended,
         StartIndexer
    <3>b. \A q : q = started + 1 => ~Ended(q)'
      BY <3>d DEF Ended
    <3>e. /\ started + 1 \notin 1 .. started
          /\ 1 .. started + 1 = (1 .. started) \cup {started + 1}
      BY <3>c
    <3>f. \A q \in 1 .. started : q \in Indexers /\ q # started + 1
      BY <3>c, BoundsAssumption DEF Indexers
    <3>1. Pending' = Pending \cup {started + 1}
      BY <3>a, <3>b, <3>c, <3>e, <3>f DEF Pending
    <3>2. IsFiniteSet(Pending) /\ Cardinality(Pending) \in Nat
      BY PendingFinite, FS_CardinalityType DEF IInv
    <3>3. Cardinality(Pending \cup {started + 1}) <= Cardinality(Pending) + 1
      BY <3>2, FS_AddElement
    <3>4. faults = 0 => Cardinality(Pending) <= active
      BY <2>2 DEF IInv, Awaited, StartIndexer
    <3>5. faults' = 0 => Cardinality(Pending') <= active'
      <4>1. active' = active + 1 /\ active \in Nat /\ faults' = faults
        BY <2>2, BoundsAssumption DEF IInv, TypeOK, StartIndexer
      <4>2. main = "index"
        BY DEF StartIndexer
      <4>3. IsFiniteSet(Pending') /\ Cardinality(Pending') \in Nat
        BY <3>1, <3>2, FS_AddElement, FS_CardinalityType
      <4>4. QED  BY <4>1, <4>3, <3>1, <3>2, <3>3, <3>4
    <3>6. QED
      BY <3>5, <1>1 DEF IInv, TypeOK, Awaited, StartIndexer
  <2>3. QED  BY <2>1, <2>2
<1>5. Heard'
  BY <1>1 DEF IInv, TypeOK, Order, OneByOne, Heard, Alone, Ended, StartIndexer
<1>6. QED  BY <1>1, <1>2, <1>3, <1>4, <1>5 DEF IInv

LEMMA StoreEvidenceStep ==
  ASSUME IInv, StoreEvidence PROVE IInv'
<1>1. TypeOK'
  BY BoundsAssumption DEF IInv, TypeOK, Order, StoreEvidence
<1>2. Order'
  BY <1>1 DEF IInv, TypeOK, Order, Collecting, OneByOne, Ended, StoreEvidence
<1>3. OneByOne'
  BY <1>1 DEF IInv, TypeOK, Order, Collecting, OneByOne, Ended, StoreEvidence
<1>4. Awaited'
  BY <1>1 DEF IInv, TypeOK, Order, OneByOne, Awaited, Pending, Ended,
     StoreEvidence
<1>5. Heard'
  BY <1>1 DEF IInv, TypeOK, Order, OneByOne, Heard, Alone, Ended, StoreEvidence
<1>6. QED  BY <1>1, <1>2, <1>3, <1>4, <1>5 DEF IInv

LEMMA StoreFailsStep ==
  ASSUME IInv, StoreFails PROVE IInv'
<1>1. TypeOK'
  BY BoundsAssumption DEF IInv, TypeOK, Order, StoreFails, Fault
<1>2. Order'
  BY <1>1 DEF IInv, TypeOK, Order, Collecting, OneByOne, Ended, StoreFails,
     Fault
<1>3. OneByOne'
  BY <1>1 DEF IInv, TypeOK, Order, Collecting, OneByOne, Ended, StoreFails,
     Fault
<1>4. Awaited'
  BY <1>1 DEF IInv, TypeOK, Order, OneByOne, Awaited, Pending, Ended,
     StoreFails, Fault
<1>5. Heard'
  BY <1>1 DEF IInv, TypeOK, Order, OneByOne, Heard, Alone, Ended, StoreFails,
     Fault
<1>6. QED  BY <1>1, <1>2, <1>3, <1>4, <1>5 DEF IInv

LEMMA AskAsyncStep ==
  ASSUME IInv, AskAsync PROVE IInv'
<1>1. TypeOK'
  BY BoundsAssumption DEF IInv, TypeOK, Order, AskAsync
<1>2. Order'
  BY <1>1 DEF IInv, TypeOK, Order, Collecting, OneByOne, Ended, AskAsync
<1>3. OneByOne'
  BY <1>1 DEF IInv, TypeOK, Order, Collecting, OneByOne, Ended, AskAsync
<1>4. Awaited'
  BY <1>1 DEF IInv, TypeOK, Order, OneByOne, Awaited, Pending, Ended, AskAsync
<1>5. Heard'
  BY <1>1 DEF IInv, TypeOK, Order, OneByOne, Heard, Alone, Ended, AskAsync
<1>6. QED  BY <1>1, <1>2, <1>3, <1>4, <1>5 DEF IInv

LEMMA MarkCompletedStep ==
  ASSUME IInv, MarkCompleted PROVE IInv'
<1>1. TypeOK'
  BY BoundsAssumption DEF IInv, TypeOK, Order, MarkCompleted
<1>2. Order'
  BY <1>1 DEF IInv, TypeOK, Order, Collecting, OneByOne, Ended, MarkCompleted
<1>3. OneByOne'
  BY <1>1 DEF IInv, TypeOK, Order, Collecting, OneByOne, Ended, MarkCompleted
<1>4. Awaited'
  BY <1>1 DEF IInv, TypeOK, Order, OneByOne, Awaited, Pending, Ended,
     MarkCompleted
<1>5. Heard'
  BY <1>1 DEF IInv, TypeOK, Order, OneByOne, Heard, Alone, Ended, MarkCompleted
<1>6. QED  BY <1>1, <1>2, <1>3, <1>4, <1>5 DEF IInv

LEMMA SyncReceiveStep ==
  ASSUME IInv, NEW p \in Indexers, SyncReceive(p) PROVE IInv'
<1>1. TypeOK'
  BY BoundsAssumption DEF IInv, TypeOK, Order, SyncReceive, Senders
<1>2. Order'
  BY <1>1 DEF IInv, TypeOK, Order, Collecting, OneByOne, Ended, SyncReceive,
     Senders
<1>3. OneByOne'
  BY <1>1 DEF IInv, TypeOK, Order, Collecting, OneByOne, Ended, SyncReceive,
     Senders
<1>4. Awaited'
  <2>. SUFFICES ASSUME faults' = 0 PROVE Awaited'
    BY DEF Awaited
  <2>0. \A q \in Indexers :
          failure'[q] = "none" /\ sending'[q] \in {"nothing", "ok"}
    BY DEF IInv, TypeOK, Order, OneByOne, Awaited, Pending, Ended, SyncReceive,
       Senders
  <2>1. \A q \in Indexers : Ended(q) => Ended(q)'
    BY <2>0 DEF IInv, TypeOK, Order, OneByOne, Awaited, Pending, Ended,
       SyncReceive, Senders
  <2>2. /\ faults = 0 /\ UNCHANGED <<sync, started, active>>
        /\ main' \notin {"failed", "dead"} => main \notin {"failed", "dead"}
    BY DEF IInv, TypeOK, Order, OneByOne, Awaited, Pending, Ended, SyncReceive,
       Senders
  <2>3. QED  BY <2>0, <2>1, <2>2, StillAwaited
<1>5. Heard'
  BY <1>1 DEF IInv, TypeOK, Order, OneByOne, Heard, Alone, Ended, SyncReceive,
     Senders
<1>6. QED  BY <1>1, <1>2, <1>3, <1>4, <1>5 DEF IInv

LEMMA ReceiveStep ==
  ASSUME IInv, NEW p \in Indexers, Receive(p) PROVE IInv'
<1>1. TypeOK'
  BY BoundsAssumption DEF IInv, TypeOK, Order, Receive, Senders, LetPass
<1>2. Order'
  BY <1>1 DEF IInv, TypeOK, Order, Collecting, OneByOne, Ended, Receive,
     Senders, LetPass
<1>3. OneByOne'
  BY <1>1 DEF IInv, TypeOK, Order, Collecting, OneByOne, Ended, Receive,
     Senders, LetPass
<1>4. Awaited'
  <2>. SUFFICES ASSUME faults' = 0 PROVE Awaited'
    BY DEF Awaited
  <2>1. sending[p] = "ok" /\ pc[p] = "ended" /\ active' = active - 1
    BY DEF IInv, TypeOK, Order, OneByOne, Awaited, Pending, Ended, Receive,
       Senders, LetPass
  <2>2. Pending' = Pending \ {p} /\ p \in Pending
    BY <2>1 DEF IInv, TypeOK, Order, OneByOne, Awaited, Pending, Ended,
       Receive, Senders, LetPass
  <2>a. IsFiniteSet(Pending) /\ Cardinality(Pending) \in Nat
    BY PendingFinite, FS_CardinalityType DEF IInv
  <2>3. Cardinality(Pending') = Cardinality(Pending) - 1
    BY <2>a, <2>2, FS_RemoveElement
  <2>4. QED
    BY <2>1, <2>3, <1>1, PendingFinite, FS_CardinalityType DEF IInv, TypeOK,
       Awaited, Receive, Senders, LetPass
<1>5. Heard'
  BY <1>1 DEF IInv, TypeOK, Order, OneByOne, Heard, Alone, Ended, Receive,
     Senders, LetPass
<1>6. QED  BY <1>1, <1>2, <1>3, <1>4, <1>5 DEF IInv

LEMMA CallStep ==
  ASSUME IInv, NEW p \in Indexers, Call(p) PROVE IInv'
<1>1. TypeOK'
  BY BoundsAssumption DEF IInv, TypeOK, Order, Call, CanRun, After
<1>2. Order'
  BY <1>1 DEF IInv, TypeOK, Order, Collecting, OneByOne, Ended, Call, CanRun,
     After
<1>3. OneByOne'
  BY <1>1 DEF IInv, TypeOK, Order, Collecting, OneByOne, Ended, Call, CanRun,
     After
<1>4. Awaited'
  <2>. SUFFICES ASSUME faults' = 0 PROVE Awaited'
    BY DEF Awaited
  <2>0. \A q \in Indexers :
          failure'[q] = "none" /\ sending'[q] \in {"nothing", "ok"}
    BY DEF IInv, TypeOK, Order, OneByOne, Awaited, Pending, Ended, Call,
       CanRun, After
  <2>1. \A q \in Indexers : Ended(q) => Ended(q)'
    BY <2>0 DEF IInv, TypeOK, Order, OneByOne, Awaited, Pending, Ended, Call,
       CanRun, After
  <2>2. /\ faults = 0 /\ UNCHANGED <<sync, started, active>>
        /\ main' \notin {"failed", "dead"} => main \notin {"failed", "dead"}
    BY DEF IInv, TypeOK, Order, OneByOne, Awaited, Pending, Ended, Call,
       CanRun, After
  <2>3. QED  BY <2>0, <2>1, <2>2, StillAwaited
<1>5. Heard'
  BY <1>1 DEF IInv, TypeOK, Order, OneByOne, Heard, Alone, Ended, Call, CanRun,
     After
<1>6. QED  BY <1>1, <1>2, <1>3, <1>4, <1>5 DEF IInv

LEMMA CallFailsStep ==
  ASSUME IInv, NEW p \in Indexers, CallFails(p) PROVE IInv'
<1>1. TypeOK'
  BY BoundsAssumption DEF IInv, TypeOK, Order, CallFails, CanRun, After,
     MayFail, Fault, Failed
<1>2. Order'
  BY <1>1 DEF IInv, TypeOK, Order, Collecting, OneByOne, Ended, CallFails,
     CanRun, After, MayFail, Fault, Failed
<1>3. OneByOne'
  BY <1>1 DEF IInv, TypeOK, Order, Collecting, OneByOne, Ended, CallFails,
     CanRun, After, MayFail, Fault, Failed
<1>4. Awaited'
  <2>. SUFFICES ASSUME faults' = 0 PROVE Awaited'
    BY DEF Awaited
  <2>0. \A q \in Indexers :
          failure'[q] = "none" /\ sending'[q] \in {"nothing", "ok"}
    BY DEF IInv, TypeOK, Order, OneByOne, Awaited, Pending, Ended, CallFails,
       CanRun, After, MayFail, Fault, Failed
  <2>1. \A q \in Indexers : Ended(q) => Ended(q)'
    BY <2>0 DEF IInv, TypeOK, Order, OneByOne, Awaited, Pending, Ended,
       CallFails, CanRun, After, MayFail, Fault, Failed
  <2>2. /\ faults = 0 /\ UNCHANGED <<sync, started, active>>
        /\ main' \notin {"failed", "dead"} => main \notin {"failed", "dead"}
    BY DEF IInv, TypeOK, Order, OneByOne, Awaited, Pending, Ended, CallFails,
       CanRun, After, MayFail, Fault, Failed
  <2>3. QED  BY <2>0, <2>1, <2>2, StillAwaited
<1>5. Heard'
  BY <1>1 DEF IInv, TypeOK, Order, OneByOne, Heard, Alone, Ended, CallFails,
     CanRun, After, MayFail, Fault, Failed
<1>6. QED  BY <1>1, <1>2, <1>3, <1>4, <1>5 DEF IInv

LEMMA BeginRoundStep ==
  ASSUME IInv, NEW p \in Indexers, BeginRound(p) PROVE IInv'
<1>1. TypeOK'
  <2>1. /\ begun' \in [Indexers -> BOOLEAN] /\ asked' \in [Indexers -> BOOLEAN]
        /\ sending' \in [Indexers -> {"nothing", "ok", "incompatible", "error"}]
    BY DEF IInv, TypeOK, BeginRound, Senders
  <2>2. main' \in Over \cup {"index", "askSync", "waitSync", "collect", "ask", "wait"}
    BY DEF IInv, TypeOK, BeginRound
  <2>3. UNCHANGED <<input, started, active, pc, entries, left, failure, faults>>
    BY DEF BeginRound
  <2>4. QED  BY <2>1, <2>2, <2>3 DEF IInv, TypeOK
<1>2. Order'
  BY <1>1 DEF IInv, TypeOK, Order, Collecting, OneByOne, Ended, BeginRound,
     InRound, CanRun, NobodySends, Asking, Senders
<1>3. OneByOne'
  BY <1>1 DEF IInv, TypeOK, Order, Collecting, OneByOne, Ended, BeginRound,
     InRound, CanRun, NobodySends, Asking, Senders
<1>4. Awaited'
  <2>. SUFFICES ASSUME faults' = 0 PROVE Awaited'
    BY DEF Awaited
  <2>0. \A q \in Indexers :
          failure'[q] = "none" /\ sending'[q] \in {"nothing", "ok"}
    BY DEF IInv, TypeOK, Order, OneByOne, Awaited, Pending, Ended, BeginRound,
       InRound, CanRun, NobodySends, Asking, Senders
  <2>1. \A q \in Indexers : Ended(q) => Ended(q)'
    BY <2>0 DEF IInv, TypeOK, Order, OneByOne, Awaited, Pending, Ended,
       BeginRound, InRound, CanRun, NobodySends, Asking, Senders
  <2>2. /\ faults = 0 /\ UNCHANGED <<sync, started, active>>
        /\ main' \notin {"failed", "dead"} => main \notin {"failed", "dead"}
    BY DEF IInv, TypeOK, Order, OneByOne, Awaited, Pending, Ended, BeginRound,
       InRound, CanRun, NobodySends, Asking, Senders
  <2>3. QED  BY <2>0, <2>1, <2>2, StillAwaited
<1>5. Heard'
  BY <1>1 DEF IInv, TypeOK, Order, OneByOne, Heard, Alone, Ended, BeginRound,
     InRound, CanRun, NobodySends, Asking, Senders
<1>6. QED  BY <1>1, <1>2, <1>3, <1>4, <1>5 DEF IInv

LEMMA RoundStep ==
  ASSUME IInv, NEW p \in Indexers, Round(p) PROVE IInv'
<1>1. TypeOK'
  BY BoundsAssumption DEF IInv, TypeOK, Order, Round, InRound, CanRun
<1>2. Order'
  BY <1>1 DEF IInv, TypeOK, Order, Collecting, OneByOne, Ended, Round, InRound,
     CanRun
<1>3. OneByOne'
  BY <1>1 DEF IInv, TypeOK, Order, Collecting, OneByOne, Ended, Round, InRound,
     CanRun
<1>4. Awaited'
  <2>. SUFFICES ASSUME faults' = 0 PROVE Awaited'
    BY DEF Awaited
  <2>0. \A q \in Indexers :
          failure'[q] = "none" /\ sending'[q] \in {"nothing", "ok"}
    BY DEF IInv, TypeOK, Order, OneByOne, Awaited, Pending, Ended, Round,
       InRound, CanRun
  <2>1. \A q \in Indexers : Ended(q) => Ended(q)'
    BY <2>0 DEF IInv, TypeOK, Order, OneByOne, Awaited, Pending, Ended, Round,
       InRound, CanRun
  <2>2. /\ faults = 0 /\ UNCHANGED <<sync, started, active>>
        /\ main' \notin {"failed", "dead"} => main \notin {"failed", "dead"}
    BY DEF IInv, TypeOK, Order, OneByOne, Awaited, Pending, Ended, Round,
       InRound, CanRun
  <2>3. QED  BY <2>0, <2>1, <2>2, StillAwaited
<1>5. Heard'
  BY <1>1 DEF IInv, TypeOK, Order, OneByOne, Heard, Alone, Ended, Round,
     InRound, CanRun
<1>6. QED  BY <1>1, <1>2, <1>3, <1>4, <1>5 DEF IInv

LEMMA RoundFailsStep ==
  ASSUME IInv, NEW p \in Indexers, RoundFails(p) PROVE IInv'
<1>1. TypeOK'
  <2>1. failure' \in [Indexers -> Failures]
    BY DEF IInv, TypeOK, Order, Failures, Places, RoundFails, InRound, CanRun,
       MayFail, Fault, Failed
  <2>2. faults' \in 0 .. MaxFaults
    BY BoundsAssumption DEF IInv, TypeOK, Order, Failures, Places, RoundFails,
       InRound, CanRun, MayFail, Fault, Failed
  <2>3. sending' \in [Indexers -> {"nothing", "ok", "incompatible", "error"}]
    BY DEF IInv, TypeOK, Order, Failures, Places, RoundFails, InRound, CanRun,
       MayFail, Fault, Failed
  <2>4. pc' \in [Indexers -> Places]
    BY DEF IInv, TypeOK, Order, Failures, Places, RoundFails, InRound, CanRun,
       MayFail, Fault, Failed
  <2>5. left' \in [Indexers -> 0 .. MaxEntries]
    <3>1. left[p] \in 0 .. MaxEntries /\ left[p] > 0
      BY DEF IInv, TypeOK, RoundFails, InRound
    <3>2. left[p] - 1 \in 0 .. MaxEntries
      BY <3>1, BoundsAssumption
    <3>3. left' = left \/ left' = [left EXCEPT ![p] = left[p] - 1]
      BY DEF RoundFails
    <3>4. QED  BY <3>2, <3>3 DEF IInv, TypeOK
  <2>6. begun' \in [Indexers -> BOOLEAN]
    BY DEF IInv, TypeOK, RoundFails
  <2>7. QED  BY <2>1, <2>2, <2>3, <2>4, <2>5, <2>6
           DEF IInv, TypeOK, Failures, Places, RoundFails
<1>2. Order'
  BY <1>1 DEF IInv, TypeOK, Order, Collecting, OneByOne, Ended, RoundFails,
     InRound, CanRun, MayFail, Fault, Failed
<1>3. OneByOne'
  BY <1>1 DEF IInv, TypeOK, Order, Collecting, OneByOne, Ended, RoundFails,
     InRound, CanRun, MayFail, Fault, Failed
<1>4. Awaited'
  <2>. SUFFICES ASSUME faults' = 0 PROVE Awaited'
    BY DEF Awaited
  <2>0. \A q \in Indexers :
          failure'[q] = "none" /\ sending'[q] \in {"nothing", "ok"}
    BY DEF IInv, TypeOK, Order, OneByOne, Awaited, Pending, Ended, RoundFails,
       InRound, CanRun, MayFail, Fault, Failed
  <2>1. \A q \in Indexers : Ended(q) => Ended(q)'
    BY <2>0 DEF IInv, TypeOK, Order, OneByOne, Awaited, Pending, Ended,
       RoundFails, InRound, CanRun, MayFail, Fault, Failed
  <2>2. /\ faults = 0 /\ UNCHANGED <<sync, started, active>>
        /\ main' \notin {"failed", "dead"} => main \notin {"failed", "dead"}
    BY DEF IInv, TypeOK, Order, OneByOne, Awaited, Pending, Ended, RoundFails,
       InRound, CanRun, MayFail, Fault, Failed
  <2>3. QED  BY <2>0, <2>1, <2>2, StillAwaited
<1>5. Heard'
  BY <1>1 DEF IInv, TypeOK, Order, OneByOne, Heard, Alone, Ended, RoundFails,
     InRound, CanRun, MayFail, Fault, Failed
<1>6. QED  BY <1>1, <1>2, <1>3, <1>4, <1>5 DEF IInv

LEMMA StartMergeStep ==
  ASSUME IInv, NEW p \in Indexers, StartMerge(p) PROVE IInv'
<1>1. TypeOK'
  BY BoundsAssumption DEF IInv, TypeOK, Order, StartMerge, CanRun
<1>2. Order'
  BY <1>1 DEF IInv, TypeOK, Order, Collecting, OneByOne, Ended, StartMerge,
     CanRun
<1>3. OneByOne'
  BY <1>1 DEF IInv, TypeOK, Order, Collecting, OneByOne, Ended, StartMerge,
     CanRun
<1>4. Awaited'
  <2>. SUFFICES ASSUME faults' = 0 PROVE Awaited'
    BY DEF Awaited
  <2>0. \A q \in Indexers :
          failure'[q] = "none" /\ sending'[q] \in {"nothing", "ok"}
    BY DEF IInv, TypeOK, Order, OneByOne, Awaited, Pending, Ended, StartMerge,
       CanRun
  <2>1. \A q \in Indexers : Ended(q) => Ended(q)'
    BY <2>0 DEF IInv, TypeOK, Order, OneByOne, Awaited, Pending, Ended,
       StartMerge, CanRun
  <2>2. /\ faults = 0 /\ UNCHANGED <<sync, started, active>>
        /\ main' \notin {"failed", "dead"} => main \notin {"failed", "dead"}
    BY DEF IInv, TypeOK, Order, OneByOne, Awaited, Pending, Ended, StartMerge,
       CanRun
  <2>3. QED  BY <2>0, <2>1, <2>2, StillAwaited
<1>5. Heard'
  BY <1>1 DEF IInv, TypeOK, Order, OneByOne, Heard, Alone, Ended, StartMerge,
     CanRun
<1>6. QED  BY <1>1, <1>2, <1>3, <1>4, <1>5 DEF IInv

LEMMA EndMergeStep ==
  ASSUME IInv, NEW p \in Indexers, EndMerge(p) PROVE IInv'
<1>1. TypeOK'
  BY BoundsAssumption DEF IInv, TypeOK, Order, EndMerge, CanRun
<1>2. Order'
  BY <1>1 DEF IInv, TypeOK, Order, Collecting, OneByOne, Ended, EndMerge,
     CanRun
<1>3. OneByOne'
  BY <1>1 DEF IInv, TypeOK, Order, Collecting, OneByOne, Ended, EndMerge,
     CanRun
<1>4. Awaited'
  <2>. SUFFICES ASSUME faults' = 0 PROVE Awaited'
    BY DEF Awaited
  <2>0. \A q \in Indexers :
          failure'[q] = "none" /\ sending'[q] \in {"nothing", "ok"}
    BY DEF IInv, TypeOK, Order, OneByOne, Awaited, Pending, Ended, EndMerge,
       CanRun
  <2>1. \A q \in Indexers : Ended(q) => Ended(q)'
    BY <2>0 DEF IInv, TypeOK, Order, OneByOne, Awaited, Pending, Ended,
       EndMerge, CanRun
  <2>2. /\ faults = 0 /\ UNCHANGED <<sync, started, active>>
        /\ main' \notin {"failed", "dead"} => main \notin {"failed", "dead"}
    BY DEF IInv, TypeOK, Order, OneByOne, Awaited, Pending, Ended, EndMerge,
       CanRun
  <2>3. QED  BY <2>0, <2>1, <2>2, StillAwaited
<1>5. Heard'
  BY <1>1 DEF IInv, TypeOK, Order, OneByOne, Heard, Alone, Ended, EndMerge,
     CanRun
<1>6. QED  BY <1>1, <1>2, <1>3, <1>4, <1>5 DEF IInv

LEMMA FlushIndexStep ==
  ASSUME IInv, NEW p \in Indexers, FlushIndex(p) PROVE IInv'
<1>1. TypeOK'
  <2>1. failure' \in [Indexers -> Failures]
    BY DEF IInv, TypeOK, Order, Failures, Places, FlushIndex, CanRun, MayFail,
       Fault, Failed
  <2>2. faults' \in 0 .. MaxFaults
    BY BoundsAssumption DEF IInv, TypeOK, Order, Failures, Places, FlushIndex,
       CanRun, MayFail, Fault, Failed
  <2>3. sending' \in [Indexers -> {"nothing", "ok", "incompatible", "error"}]
    BY DEF IInv, TypeOK, Order, Failures, Places, FlushIndex, CanRun, MayFail,
       Fault, Failed
  <2>4. pc' \in [Indexers -> Places]
    BY DEF IInv, TypeOK, Order, Failures, Places, FlushIndex, CanRun, MayFail,
       Fault, Failed
  <2>5. /\ left' \in [Indexers -> 0 .. MaxEntries]
        /\ begun' \in [Indexers -> BOOLEAN]
    BY BoundsAssumption DEF IInv, TypeOK, Order, Failures, Places, FlushIndex,
       CanRun, MayFail, Fault, Failed
  <2>6. QED  BY <2>1, <2>2, <2>3, <2>4, <2>5 DEF IInv, TypeOK, Order, Failures,
                Places, FlushIndex, CanRun, MayFail, Fault, Failed
<1>2. Order'
  BY <1>1 DEF IInv, TypeOK, Order, Collecting, OneByOne, Ended, FlushIndex,
     CanRun, MayFail, Fault, Failed
<1>3. OneByOne'
  BY <1>1 DEF IInv, TypeOK, Order, Collecting, OneByOne, Ended, FlushIndex,
     CanRun, MayFail, Fault, Failed
<1>4. Awaited'
  <2>. SUFFICES ASSUME faults' = 0 PROVE Awaited'
    BY DEF Awaited
  <2>f. faults = 0 /\ \A q \in Indexers : failure[q] = "none"
    BY DEF IInv, TypeOK, Order, OneByOne, Awaited, Pending, Ended, FlushIndex,
       CanRun, MayFail, Fault, Failed
  <2>e. ~MayFail(p)
    BY <2>f DEF MayFail, Fault
  <2>g. failure' = failure
    BY <2>e DEF FlushIndex
  <2>h. \A q \in Indexers : sending'[q] \in {"nothing", "ok"}
    BY <2>e, <2>f DEF FlushIndex, IInv, TypeOK, Awaited, Indexers
  <2>0. \A q \in Indexers :
          failure'[q] = "none" /\ sending'[q] \in {"nothing", "ok"}
    BY <2>f, <2>g, <2>h
  <2>1. \A q \in Indexers : Ended(q) => Ended(q)'
    <3>1. /\ pc[p] # "ended" /\ UNCHANGED store
          /\ \A q \in Indexers : q # p =>
               pc'[q] = pc[q] /\ (sending'[q] = sending[q])
      BY DEF FlushIndex, IInv, TypeOK
    <3>2. QED  BY <3>1 DEF Ended
  <2>2. /\ faults = 0 /\ UNCHANGED <<sync, started, active>>
        /\ main' \notin {"failed", "dead"} => main \notin {"failed", "dead"}
    BY DEF IInv, TypeOK, Order, OneByOne, Awaited, Pending, Ended, FlushIndex,
       CanRun, MayFail, Fault, Failed
  <2>3. QED  BY <2>0, <2>1, <2>2, StillAwaited
<1>5. Heard'
  BY <1>1 DEF IInv, TypeOK, Order, OneByOne, Heard, Alone, Ended, FlushIndex,
     CanRun, MayFail, Fault, Failed
<1>6. QED  BY <1>1, <1>2, <1>3, <1>4, <1>5 DEF IInv

LEMMA StorePartitionStep ==
  ASSUME IInv, NEW p \in Indexers, StorePartition(p) PROVE IInv'
<1>1. TypeOK'
  <2>1. failure' \in [Indexers -> Failures]
    BY DEF IInv, TypeOK, Order, Failures, Places, StorePartition, CanRun,
       MayFail, Fault, Failed
  <2>2. faults' \in 0 .. MaxFaults
    BY BoundsAssumption DEF IInv, TypeOK, Order, Failures, Places,
       StorePartition, CanRun, MayFail, Fault, Failed
  <2>3. sending' \in [Indexers -> {"nothing", "ok", "incompatible", "error"}]
    BY DEF IInv, TypeOK, Order, Failures, Places, StorePartition, CanRun,
       MayFail, Fault, Failed
  <2>4. pc' \in [Indexers -> Places]
    BY DEF IInv, TypeOK, Order, Failures, Places, StorePartition, CanRun,
       MayFail, Fault, Failed
  <2>5. /\ left' \in [Indexers -> 0 .. MaxEntries]
        /\ begun' \in [Indexers -> BOOLEAN]
    BY BoundsAssumption DEF IInv, TypeOK, Order, Failures, Places,
       StorePartition, CanRun, MayFail, Fault, Failed
  <2>6. QED  BY <2>1, <2>2, <2>3, <2>4, <2>5 DEF IInv, TypeOK, Order, Failures,
                Places, StorePartition, CanRun, MayFail, Fault, Failed
<1>2. Order'
  BY <1>1 DEF IInv, TypeOK, Order, Collecting, OneByOne, Ended, StorePartition,
     CanRun, MayFail, Fault, Failed
<1>3. OneByOne'
  BY <1>1 DEF IInv, TypeOK, Order, Collecting, OneByOne, Ended, StorePartition,
     CanRun, MayFail, Fault, Failed
<1>4. Awaited'
  <2>. SUFFICES ASSUME faults' = 0 PROVE Awaited'
    BY DEF Awaited
  <2>f. faults = 0 /\ \A q \in Indexers : failure[q] = "none"
    BY DEF IInv, TypeOK, Order, OneByOne, Awaited, Pending, Ended,
       StorePartition, CanRun, MayFail, Fault, Failed
  <2>e. ~MayFail(p)
    BY <2>f DEF MayFail, Fault
  <2>g. failure' = failure
    BY <2>e DEF StorePartition
  <2>h. \A q \in Indexers : sending'[q] \in {"nothing", "ok"}
    BY <2>e, <2>f DEF StorePartition, IInv, TypeOK, Awaited, Indexers
  <2>0. \A q \in Indexers :
          failure'[q] = "none" /\ sending'[q] \in {"nothing", "ok"}
    BY <2>f, <2>g, <2>h
  <2>1. \A q \in Indexers : Ended(q) => Ended(q)'
    <3>1. /\ pc[p] # "ended" /\ UNCHANGED store
          /\ \A q \in Indexers : q # p =>
               pc'[q] = pc[q] /\ (sending'[q] = sending[q])
      BY DEF StorePartition, IInv, TypeOK
    <3>2. QED  BY <3>1 DEF Ended
  <2>2. /\ faults = 0 /\ UNCHANGED <<sync, started, active>>
        /\ main' \notin {"failed", "dead"} => main \notin {"failed", "dead"}
    BY DEF IInv, TypeOK, Order, OneByOne, Awaited, Pending, Ended,
       StorePartition, CanRun, MayFail, Fault, Failed
  <2>3. QED  BY <2>0, <2>1, <2>2, StillAwaited
<1>5. Heard'
  BY <1>1 DEF IInv, TypeOK, Order, OneByOne, Heard, Alone, Ended,
     StorePartition, CanRun, MayFail, Fault, Failed
<1>6. QED  BY <1>1, <1>2, <1>3, <1>4, <1>5 DEF IInv

LEMMA PanicStep ==
  ASSUME IInv, NEW p \in Indexers, Panic(p) PROVE IInv'
<1>1. TypeOK'
  BY BoundsAssumption DEF IInv, TypeOK, Order, Panic, CanRun
<1>2. Order'
  BY <1>1 DEF IInv, TypeOK, Order, Collecting, OneByOne, Ended, Panic, CanRun
<1>3. OneByOne'
  BY <1>1 DEF IInv, TypeOK, Order, Collecting, OneByOne, Ended, Panic, CanRun
<1>4. Awaited'
  BY <1>1 DEF IInv, TypeOK, Order, OneByOne, Awaited, Pending, Ended, Panic,
     CanRun
<1>5. Heard'
  BY <1>1 DEF IInv, TypeOK, Order, OneByOne, Heard, Alone, Ended, Panic, CanRun
<1>6. QED  BY <1>1, <1>2, <1>3, <1>4, <1>5 DEF IInv

HIDE DEF Indexers, Calls, Over, store, input, indexer

LEMMA InitInvariant == Init => IInv
<1>. SUFFICES ASSUME Init PROVE IInv
  OBVIOUS
<1>1. TypeOK
  BY BoundsAssumption DEF Init, TypeOK, Indexers, Calls, Over
<1>2. Order /\ OneByOne /\ Heard
  BY <1>1 DEF Init, TypeOK, Order, OneByOne, Heard, Alone, Ended, Collecting,
     Indexers
<1>3. Pending = {}
  BY BoundsAssumption DEF Init, Pending
<1>4. Awaited
  BY <1>1, <1>3, FS_EmptySet DEF Init, TypeOK, Awaited
<1>5. QED  BY <1>1, <1>2, <1>4 DEF IInv

LEMMA StepInvariant == IInv /\ [Next]_vars => IInv'
<1>. SUFFICES ASSUME IInv, [Next]_vars PROVE IInv'
  OBVIOUS
<1>1. CASE StoreStep
  BY <1>1, StartIndexerStep, StoreEvidenceStep, StoreFailsStep, AskAsyncStep,
     MarkCompletedStep, SyncReceiveStep, ReceiveStep DEF StoreStep
<1>2. ASSUME NEW p \in Indexers, IndexerStep(p) PROVE IInv'
  BY <1>2, CallStep, CallFailsStep, BeginRoundStep, RoundStep, RoundFailsStep,
     StartMergeStep, EndMergeStep, FlushIndexStep, StorePartitionStep
     DEF IndexerStep
<1>3. ASSUME NEW p \in Indexers, Panic(p) PROVE IInv'
  BY <1>3, PanicStep
<1>4. CASE UNCHANGED vars
  BY <1>4 DEF vars, store, input, indexer, IInv, TypeOK, Order, Collecting,
     OneByOne,
     Awaited, Pending, Heard, Alone, Ended
<1>5. QED  BY <1>1, <1>2, <1>3, <1>4 DEF Next

(* The conversation on idxChan keeps its shape, whatever fails.            *)
THEOREM Invariance == Spec => []IInv
<1>1. QED  BY InitInvariant, StepInvariant, PTL DEF Spec

(* All variables of StoreFile and its indexers keep their types: active    *)
(* is never negative, an indexer never runs past its entries.              *)
THEOREM TypeCorrect == Spec => []TypeOK
<1>1. IInv => TypeOK
  BY DEF IInv
<1>2. QED  BY Invariance, <1>1, PTL

LEMMA IInvCompleted == IInv => CompletedAfterIndexing
<1>. SUFFICES ASSUME IInv, main = "done", faults = 0, NEW p \in 1 .. partitions
              PROVE  Ended(p)
  BY DEF CompletedAfterIndexing
<1>1. started = partitions /\ active = 0 /\ p \in Indexers
  BY BoundsAssumption DEF IInv, TypeOK, Order, Collecting, Indexers
<1>2. CASE sync
  BY <1>1, <1>2 DEF IInv, OneByOne, TypeOK, Indexers
<1>3. CASE ~sync
  <2>1. Cardinality(Pending) <= 0
    BY <1>1, <1>3 DEF IInv, Awaited
  <2>2. IsFiniteSet(Pending) /\ Cardinality(Pending) \in Nat
    BY PendingFinite, FS_CardinalityType DEF IInv
  <2>3. Pending = {}
    BY <2>1, <2>2, FS_EmptySet
  <2>4. QED  BY <2>3, <1>1 DEF Pending
<1>4. QED  BY <1>2, <1>3

(* cmdstore.go waits for every indexer before it marks the file completed  *)
(* and closes what they read, as long as no call fails: the loop over      *)
(* active indexers with its questions loses no result.                     *)
THEOREM CompletedAfterIndexers == Spec => []CompletedAfterIndexing
<1>1. QED  BY Invariance, IInvCompleted, PTL

(* With syncIndex cmdstore.go stores no chunk while an indexer runs,       *)
(* whatever fails.                                                         *)
THEOREM SyncStoresAfter == Spec => []SyncBlocksStore
<1>1. IInv => SyncBlocksStore
  BY BoundsAssumption DEF IInv, TypeOK, Order, Collecting, OneByOne,
     SyncBlocksStore, Indexers
<1>2. QED  BY Invariance, <1>1, PTL

(* With one indexer at a time an error it sends on idxChan reaches         *)
(* StoreFile, which does not mark the file completed.                      *)
THEOREM ErrorsAreReported == Spec => []ErrorsReported
<1>1. IInv => ErrorsReported
  <2>. SUFFICES ASSUME IInv, main = "done", sync \/ partitions = 1,
                       NEW p \in Indexers
                PROVE  failure[p] \in {"none", "open"}
    BY DEF ErrorsReported
  <2>1. started = partitions /\ active = 0 /\ started \in Nat
    BY BoundsAssumption DEF IInv, TypeOK, Order, Collecting
  <2>2. CASE pc[p] = "none"
    BY <2>2 DEF IInv, Order
  <2>3. CASE pc[p] # "none"
    <3>1. Ended(p) \/ failure[p] = "open"
      BY <2>1, <2>3 DEF IInv, TypeOK, Order, OneByOne, Heard, Alone, Indexers
    <3>2. QED  BY <3>1 DEF IInv, Heard, Alone, Ended
  <2>4. QED  BY <2>2, <2>3
<1>2. QED  BY Invariance, <1>1, PTL

-----------------------------------------------------------------------------
(* What the indexers store: IndexedFiles, whose steps are steps of the     *)
(* conversation or leave it alone.                                         *)

LEMMA IndexedStep == [NextIndexed]_allvars => [Next]_vars
<1>. SUFFICES ASSUME [NextIndexed]_allvars PROVE [Next]_vars
  OBVIOUS
<1>1. CASE HashPartition
  BY <1>1 DEF HashPartition
<1>2. CASE Start
  BY <1>2 DEF Start, Next, StoreStep
<1>3. CASE StoreFile
  BY <1>3 DEF StoreFile, Next, StoreStep
<1>4. ASSUME NEW p \in Indexers,
             \/ List(p) \/ BeginHash(p) \/ HashEntry(p) \/ HashFails(p)
             \/ StartStoring(p) \/ Merge(p) \/ MergeFails(p) \/ Flush(p)
      PROVE  IndexerStep(p)
  BY <1>4 DEF List, BeginHash, HashEntry, HashFails, StartStoring, Merge,
     MergeFails, Flush, IndexerStep
<1>5. ASSUME NEW p \in Indexers, Rest(p) PROVE IndexerStep(p) \/ Panic(p)
  BY <1>5 DEF Rest, IndexerStep
<1>6. CASE UNCHANGED allvars
  BY <1>6 DEF allvars
<1>7. QED  BY <1>1, <1>2, <1>3, <1>4, <1>5, <1>6 DEF NextIndexed, Next

(* The indexers with their hashes, maps and batches take part in the       *)
(* conversation as IndexHandshake says; all its theorems are theirs.       *)
THEOREM IndexersConverse == SpecIndexed => Spec
<1>1. InitIndexed => Init
  BY DEF InitIndexed
<1>2. QED  BY <1>1, IndexedStep, PTL DEF SpecIndexed, Spec

(* So the invariant of the conversation is theirs too.                     *)
THEOREM IndexedInvariance == SpecIndexed => []IInv
<1>1. QED  BY IndexersConverse, Invariance, PTL

-----------------------------------------------------------------------------
(* The names and the hashes, where one indexer runs at a time.             *)

Nodes(map) == \A k \in DOMAIN map : map[k] \in Node

(* The names under a hash are those of files with that content.            *)
RightNames(map) ==
  \A k \in DOMAIN map \ {Nil} : \A n \in Own(map[k].names) : Content(n) = k

DataType ==
  /\ Nodes(nodes)
  /\ DOMAIN idxmap = Indexers /\ DOMAIN batch = Indexers
  /\ \A p \in Indexers : Nodes(idxmap[p]) /\ Nodes(batch[p])

(* What is merged is not yet written, and has what it was merged with.     *)
MergedOnly ==
  \A p \in Indexers : pc[p] \notin {"merge", "flush"} => DOMAIN batch[p] = {}

Kept ==
  OneAtATime =>
    \A p \in Indexers : \A k \in DOMAIN batch[p] :
      k \in DOMAIN nodes => nodes[k].names \subseteq batch[p][k].names

(* Whoever reads has moved the offset last.                                *)
OffsetRight ==
  /\ \A p \in Indexers : begun[p] => pc[p] \in {"loop", "merge"} /\ left[p] > 0
  /\ OneAtATime =>
       /\ misread = {}
       /\ hashing => /\ offset = 0
                     /\ \A p \in Indexers : Ended(p) \/ pc[p] = "none"
       /\ \A p \in Indexers : begun[p] /\ pc[p] = "loop" => offset = p

AllRight ==
  OneAtATime =>
    /\ RightNames(nodes)
    /\ \A p \in Indexers : RightNames(idxmap[p]) /\ RightNames(batch[p])

Running(p) == pc[p] # "none" /\ ~Ended(p)

(* OneAtATime is what its name says.                                       *)
LEMMA OneRuns ==
  ASSUME IInv, OneAtATime, NEW p \in Indexers, NEW q \in Indexers,
         Running(p), Running(q)
  PROVE  p = q
<1>1. /\ Indexers \subseteq Nat /\ partitions \in Nat /\ started \in Nat
      /\ started <= partitions
      /\ \A r \in Indexers : Running(r) => r >= 1 /\ r <= started
  <2>1. \A r \in Indexers : r \in Nat /\ r >= 1
    BY BoundsAssumption DEF Indexers
  <2>2. partitions \in Nat /\ started \in Nat /\ started <= partitions
    BY BoundsAssumption DEF IInv, TypeOK, Order
  <2>3. \A r \in Indexers : r > started => ~Running(r)
    BY DEF IInv, Order, Running
  <2>4. \A r \in Indexers : Running(r) => r <= started
    BY <2>1, <2>2, <2>3
  <2> HIDE DEF Indexers, IInv
  <2>5. QED  BY <2>1, <2>2, <2>4
<1>2. CASE sync
  <2>1. \A r \in Indexers : r < started => Ended(r)
    BY <1>2 DEF IInv, OneByOne
  <2>2. p = started /\ q = started
    <3> HIDE DEF Indexers, IInv
    <3> QED
      BY <1>1, <2>1 DEF Running
  <2> QED
    BY <2>2
<1>3. CASE partitions <= 1
  <2> HIDE DEF Indexers, IInv
  <2> QED
    BY <1>1, <1>3
<1> QED
  BY <1>2, <1>3 DEF OneAtATime

(* StoreFile hashes the next partition while none runs, if one runs at a   *)
(* time.                                                                   *)
LEMMA NoneRuns ==
  ASSUME IInv, OneAtATime, HashPartition, NEW p \in Indexers PROVE ~Running(p)
BY BoundsAssumption DEF IInv, TypeOK, Order, OneByOne, OneAtATime, Running,
   HashPartition, Indexers

LEMMA PutIs ==
  ASSUME NEW map, NEW k, NEW node
  PROVE  /\ DOMAIN Put(map, k, node) = DOMAIN map \cup {k}
         /\ Put(map, k, node)[k] = node
         /\ \A j \in DOMAIN map : j # k => Put(map, k, node)[j] = map[j]
BY DEF Put

LEMMA DropIs ==
  ASSUME NEW map, NEW k
  PROVE  /\ DOMAIN Drop(map, k) = DOMAIN map \ {k}
         /\ \A j \in DOMAIN map \ {k} : Drop(map, k)[j] = map[j]
BY DEF Drop

LEMMA WrittenIs ==
  ASSUME NEW ks, NEW p
  PROVE  /\ DOMAIN Written(ks, p) = DOMAIN nodes \cup ks
         /\ \A k \in ks : Written(ks, p)[k] = batch[p][k]
         /\ \A k \in DOMAIN nodes \ ks : Written(ks, p)[k] = nodes[k]
BY DEF Written

(* Merging two nodes keeps the names of both and invents none.             *)
LEMMA MergedIs ==
  ASSUME NEW new \in Node, NEW old \in Node
  PROVE  /\ Merged(new, old) \in Node
         /\ Merged(new, old).names = new.names \cup old.names
BY DEF Merged, Node

LEMMA EntryIs ==
  ASSUME IInv, NEW p \in Indexers PROVE Entry(p) \in File
BY BoundsAssumption DEF IInv, TypeOK, Indexers, Entry, File

Grown(p, k) ==
  {Entry(p)} \cup (IF k \in DOMAIN idxmap[p] THEN idxmap[p][k].names ELSE {})

(* An entry joins the names that the indexer has for its hash.             *)
LEMMA CollectIs ==
  ASSUME IInv, DataType, NEW p \in Indexers, NEW k, Collect(p, k)
  PROVE  /\ DOMAIN idxmap' = Indexers
         /\ \A q \in Indexers \ {p} : idxmap'[q] = idxmap[q]
         /\ Nodes(idxmap'[p])
         /\ DOMAIN idxmap'[p] = DOMAIN idxmap[p] \cup {k}
         /\ \A j \in DOMAIN idxmap[p] \ {k} : idxmap'[p][j] = idxmap[p][j]
         /\ idxmap'[p][k].names \subseteq
              Grown(p, k)
<1>1. Entry(p) \in File
  BY EntryIs
<1> DEFINE node == IF k \in DOMAIN idxmap[p]
                     THEN [idxmap[p][k] EXCEPT !.names = @ \cup {Entry(p)}]
                     ELSE [names |-> {Entry(p)}, start |-> Entry(p)]
<1>2. idxmap' = [idxmap EXCEPT ![p] = Put(idxmap[p], k, node)]
  BY DEF Collect, DataType
<1>3. DOMAIN idxmap' = Indexers /\ idxmap'[p] = Put(idxmap[p], k, node)
  BY <1>2 DEF DataType
<1>4. \A q \in Indexers \ {p} : idxmap'[q] = idxmap[q]
  BY <1>2 DEF DataType
<1>5. node \in Node
  BY <1>1 DEF DataType, Nodes, Node
<1>6. node.names \subseteq
        Grown(p, k)
  BY DEF DataType, Nodes, Node, Grown
<1>7. Nodes(idxmap[p])
  BY DEF DataType
<1> HIDE DEF node
<1>8. /\ DOMAIN idxmap'[p] = DOMAIN idxmap[p] \cup {k} /\ idxmap'[p][k] = node
      /\ \A j \in DOMAIN idxmap[p] \ {k} : idxmap'[p][j] = idxmap[p][j]
  BY <1>3 DEF Put
<1>9. Nodes(idxmap'[p])
  BY <1>5, <1>7, <1>8 DEF Nodes
<1>10. QED  BY <1>3, <1>4, <1>6, <1>8, <1>9

DInv == DataType /\ MergedOnly /\ Kept /\ OffsetRight /\ AllRight

(* The steps that leave the data alone.                                    *)
LEMMA QuietStep ==
  ASSUME IInv, DInv, UNCHANGED data,
         \/ StoreFile
         \/ \E p \in Indexers :
              List(p) \/ StartStoring(p) \/ MergeFails(p) \/ Rest(p)
  PROVE  DInv'
<1>1. UNCHANGED <<image, nodes, idxmap, batch, offset, hashing, misread>>
  BY DEF data
<1>2. OneAtATime' = OneAtATime
  BY DEF StoreFile, List, StartStoring, MergeFails, Rest, StoreEvidence,
     StoreFails, AskAsync, MarkCompleted, SyncReceive, Receive, Call,
     RoundFails, StartMerge, CallFails, EndMerge, StorePartition, Panic, store,
     input, OneAtATime
<1>3. DataType' /\ Kept' /\ AllRight'
  BY <1>1, <1>2 DEF DInv, DataType, Nodes, Node, Kept, AllRight, RightNames,
     Own, Content
<1>4. MergedOnly' /\ OffsetRight'
  <2>1. CASE StoreFile
    BY <2>1, <1>1, <1>2 DEF IInv, TypeOK, DInv, MergedOnly, OffsetRight, Ended,
       StoreFile, StoreEvidence, StoreFails, AskAsync, MarkCompleted,
       SyncReceive, Receive, indexer, data
  <2>2. ASSUME NEW p \in Indexers,
             List(p) \/ StartStoring(p) \/ MergeFails(p) \/ Rest(p)
        PROVE  MergedOnly' /\ OffsetRight'
    <3>1. CASE Panic(p)
      BY <3>1, <1>1, <1>2 DEF DInv, MergedOnly, OffsetRight, Ended, Panic,
         indexer
    <3>2. CASE ~Panic(p)
      <4>a. pc[p] \notin {"none", "ended"} /\ sending[p] = "nothing"
        BY <2>2, <3>2 DEF List, StartStoring, MergeFails, Rest, Call,
           RoundFails, StartMerge, CallFails, EndMerge, StorePartition, CanRun,
           InRound, Calls
      <4>b. \A q \in Indexers \ {p} :
              /\ pc'[q] = pc[q] /\ begun'[q] = begun[q]
              /\ left'[q] = left[q] /\ sending'[q] = sending[q]
        BY <2>2, <3>2 DEF IInv, TypeOK, List, StartStoring, MergeFails, Rest,
           Call, RoundFails, StartMerge, CallFails, EndMerge, StorePartition,
           indexer, store
      <4>c. \/ pc'[p] \in {"merge", "flush"}
            \/ {pc[p], pc'[p]} \cap {"merge", "flush"} = {}
        BY <2>2, <3>2 DEF IInv, TypeOK, List, StartStoring, MergeFails, Rest,
           Call, RoundFails, StartMerge, CallFails, EndMerge, StorePartition,
           InRound, After, Calls
      <4>d. begun'[p] => begun[p] /\ pc'[p] = pc[p] /\ left'[p] = left[p]
        BY <2>2, <3>2 DEF IInv, TypeOK, DInv, OffsetRight, List, StartStoring,
           MergeFails, Rest, Call, RoundFails, StartMerge, CallFails, EndMerge,
           StorePartition, InRound, CanRun, Calls, indexer
      <4>1. Running(p)
        BY <4>a DEF Running, Ended
      <4>2. QED
        BY <4>a, <4>b, <4>c, <4>d, <4>1, <1>1, <1>2 DEF DInv, MergedOnly,
           OffsetRight, Running, Ended
    <3>3. QED  BY <3>1, <3>2
  <2>3. QED  BY <2>1, <2>2
<1>5. QED  BY <1>3, <1>4 DEF DInv

LEMMA HashPartitionStep ==
  ASSUME IInv, DInv, HashPartition PROVE DInv'
<1>1. /\ UNCHANGED <<image, nodes, idxmap, batch, misread>>
      /\ UNCHANGED <<pc, sending, begun, left>>
      /\ OneAtATime' = OneAtATime
  BY DEF HashPartition, vars, store, input, indexer, OneAtATime
<1>2. DataType' /\ MergedOnly' /\ Kept' /\ AllRight'
  BY <1>1 DEF DInv, DataType, MergedOnly, Nodes, Node, Kept, AllRight,
     RightNames, Own, Content
<1>3. OneAtATime => offset' = 0 /\ \A p \in Indexers : ~Running(p)
  BY NoneRuns DEF HashPartition
<1>4. OffsetRight'
  BY <1>1, <1>3 DEF DInv, OffsetRight, Running, Ended
<1>5. QED  BY <1>2, <1>4 DEF DInv

LEMMA StartStep ==
  ASSUME IInv, DInv, Start PROVE DInv'
<1>1. /\ UNCHANGED <<image, nodes, idxmap, batch, offset, sending>>
      /\ UNCHANGED <<begun, left>> /\ OneAtATime' = OneAtATime
      /\ hashing' = FALSE
      /\ started + 1 \in Indexers
      /\ pc' = [pc EXCEPT ![started + 1] = "open"]
  BY BoundsAssumption DEF Start, StartIndexer, input, indexer, OneAtATime,
     IInv, TypeOK, Indexers
<1>2. DataType' /\ Kept' /\ AllRight'
  BY <1>1 DEF DInv, DataType, Nodes, Node, Kept, AllRight, RightNames, Own,
     Content
<1>3. pc[started + 1] = "none"
  BY <1>1, BoundsAssumption DEF IInv, TypeOK, Order, Indexers
<1>4. MergedOnly'
  BY <1>1, <1>3 DEF IInv, TypeOK, DInv, MergedOnly
<1>5. OneAtATime => misread' = {}
  BY DEF Start, DInv, OffsetRight
<1>6. OffsetRight'
  BY <1>1, <1>3, <1>5 DEF IInv, TypeOK, DInv, OffsetRight
<1>7. QED  BY <1>2, <1>4, <1>6 DEF DInv

LEMMA BeginHashStep ==
  ASSUME IInv, DInv, NEW p \in Indexers, BeginHash(p) PROVE DInv'
<1>1. /\ UNCHANGED <<image, nodes, idxmap, batch, hashing, misread>>
      /\ UNCHANGED <<pc, left>> /\ OneAtATime' = OneAtATime
      /\ begun' = [begun EXCEPT ![p] = TRUE]
      /\ pc[p] \in {"loop", "merge"} /\ left[p] > 0 /\ sending[p] = "nothing"
      /\ offset' = IF pc[p] = "loop" THEN p ELSE offset
      /\ \A q \in Indexers :
           sending'[q] = sending[q] \/ sending'[q] = "nothing"
  BY DEF BeginHash, BeginRound, InRound, CanRun, Senders, input, OneAtATime,
     IInv, TypeOK
<1>2. DataType' /\ MergedOnly' /\ Kept' /\ AllRight'
  BY <1>1 DEF DInv, DataType, MergedOnly, Nodes, Node, Kept, AllRight,
     RightNames, Own, Content
<1>3. Running(p)
  BY <1>1 DEF Running, Ended
<1>4. \A q \in Indexers : begun[q] => Running(q)
  BY DEF DInv, OffsetRight, Running, Ended
<1>5. OneAtATime => \A q \in Indexers : begun[q] => q = p
  BY <1>3, <1>4, OneRuns
<1>6. OffsetRight'
  BY <1>1, <1>3, <1>5 DEF IInv, TypeOK, DInv, OffsetRight, Running, Ended
<1>7. QED  BY <1>2, <1>6 DEF DInv

(* What both ends of a round share.                                        *)
LEMMA RoundEnds ==
  ASSUME IInv, DInv, NEW p \in Indexers, Round(p) \/ RoundFails(p),
         UNCHANGED <<offset, hashing, misread>>
  PROVE  /\ OffsetRight' /\ OneAtATime' = OneAtATime
         /\ \A q \in Indexers :
           \/ pc'[q] = pc[q]
           \/ q = p /\ pc[p] = "merge" /\ pc'[p] = "flush"
<1>1. /\ OneAtATime' = OneAtATime
      /\ begun' = [begun EXCEPT ![p] = FALSE]
      /\ pc[p] \in {"loop", "merge"} /\ sending[p] = "nothing"
      /\ pc' = pc \/ (pc[p] = "merge" /\ pc' = [pc EXCEPT ![p] = "flush"])
      /\ \A q \in Indexers \ {p} :
           sending'[q] = sending[q] /\ left'[q] = left[q]
  BY DEF Round, RoundFails, InRound, CanRun, store, input, OneAtATime, IInv,
     TypeOK
<1>2. Running(p)
  BY <1>1 DEF Running, Ended
<1>3. OffsetRight'
  BY <1>1, <1>2 DEF IInv, TypeOK, DInv, OffsetRight, Running, Ended
<1>4. QED  BY <1>1, <1>3 DEF IInv, TypeOK

LEMMA CollectStep ==
  ASSUME IInv, DInv, NEW p \in Indexers, HashEntry(p) \/ HashFails(p)
  PROVE  DInv'
<1>1. UNCHANGED <<image, nodes, batch, offset, hashing, misread>>
  BY DEF HashEntry, HashFails
<1>2. /\ OffsetRight' /\ OneAtATime' = OneAtATime
      /\ \A q \in Indexers :
           \/ pc'[q] = pc[q]
           \/ q = p /\ pc[p] = "merge" /\ pc'[p] = "flush"
  BY <1>1, RoundEnds DEF HashEntry, HashFails
<1>3. MergedOnly' /\ Kept'
  BY <1>1, <1>2 DEF DInv, MergedOnly, Kept
<1>4. PICK k : /\ Collect(p, k)
               /\ OneAtATime => k = Nil \/ k = Content(Entry(p))
  BY DEF HashEntry, HashFails, HashOf, Round, InRound, DInv, OffsetRight
<1>5. /\ DOMAIN idxmap' = Indexers
      /\ \A q \in Indexers \ {p} : idxmap'[q] = idxmap[q]
      /\ Nodes(idxmap'[p])
      /\ DOMAIN idxmap'[p] = DOMAIN idxmap[p] \cup {k}
      /\ \A j \in DOMAIN idxmap[p] \ {k} : idxmap'[p][j] = idxmap[p][j]
      /\ idxmap'[p][k].names \subseteq
           Grown(p, k)
  BY <1>4, CollectIs DEF DInv
<1>6. DataType'
  BY <1>1, <1>5 DEF DInv, DataType, Nodes, Node
<1>7. OneAtATime => RightNames(idxmap'[p])
  <2>. SUFFICES ASSUME OneAtATime, NEW j \in DOMAIN idxmap'[p] \ {Nil},
                       NEW n \in Own(idxmap'[p][j].names)
                PROVE  Content(n) = j
    BY DEF RightNames
  <2>1. RightNames(idxmap[p])
    BY DEF DInv, AllRight
  <2>2. CASE j # k
    BY <2>1, <2>2, <1>5 DEF RightNames
  <2>3. CASE j = k
    BY <2>1, <2>3, <1>4, <1>5 DEF RightNames, Own, Grown
  <2>4. QED  BY <2>2, <2>3
<1>8. AllRight'
  BY <1>1, <1>2, <1>5, <1>7 DEF DInv, AllRight, RightNames, Own, Content
<1>9. QED  BY <1>2, <1>3, <1>6, <1>8 DEF DInv

(* The names in the map and those in the database.                         *)
Joined(p, k) ==
  idxmap[p][k].names \cup (IF k \in DOMAIN nodes THEN nodes[k].names ELSE {})

LEMMA MergeStep ==
  ASSUME IInv, DInv, NEW p \in Indexers, Merge(p) PROVE DInv'
<1>1. UNCHANGED <<image, nodes, offset, hashing, misread>>
  BY DEF Merge
<1>2. /\ OffsetRight' /\ OneAtATime' = OneAtATime
      /\ \A q \in Indexers : pc'[q] = pc[q]
  BY <1>1, RoundEnds DEF Merge, Round
<1>3. PICK k \in DOMAIN idxmap[p] :
        /\ idxmap' = [idxmap EXCEPT ![p] = Drop(idxmap[p], k)]
        /\ \/ UNCHANGED batch
           \/ /\ k \notin DOMAIN nodes
              /\ batch' = [batch EXCEPT ![p] = Put(batch[p], k, idxmap[p][k])]
           \/ /\ k \in DOMAIN nodes
              /\ batch' = [batch EXCEPT
                   ![p] = Put(batch[p], k, Merged(idxmap[p][k], nodes[k]))]
  BY DEF Merge
<1>4. /\ DOMAIN idxmap' = Indexers /\ DOMAIN batch' = Indexers
      /\ \A q \in Indexers \ {p} :
           idxmap'[q] = idxmap[q] /\ batch'[q] = batch[q]
  BY <1>3 DEF DInv, DataType
<1>5. /\ DOMAIN idxmap'[p] \subseteq DOMAIN idxmap[p]
      /\ \A j \in DOMAIN idxmap'[p] : idxmap'[p][j] = idxmap[p][j]
  BY <1>3 DEF DInv, DataType, Drop
<1>6. idxmap[p][k] \in Node /\ (k \in DOMAIN nodes => nodes[k] \in Node)
  BY <1>3 DEF DInv, DataType, Nodes
<1>7. \/ batch' = batch
      \/ \E node \in Node :
           /\ node.names = Joined(p, k)
           /\ batch'[p] = Put(batch[p], k, node)
  <2>1. CASE k \notin DOMAIN nodes /\ batch' # batch
    <3>1. batch'[p] = Put(batch[p], k, idxmap[p][k])
      BY <2>1, <1>3 DEF DInv, DataType
    <3>2. QED  BY <2>1, <3>1, <1>6 DEF Joined
  <2>2. CASE k \in DOMAIN nodes /\ batch' # batch
    <3>1. batch'[p] = Put(batch[p], k, Merged(idxmap[p][k], nodes[k]))
      BY <2>2, <1>3 DEF DInv, DataType
    <3>2. QED  BY <2>2, <3>1, <1>6, MergedIs DEF Joined
  <2>3. QED  BY <2>1, <2>2
<1>8. \/ batch' = batch
      \/ /\ DOMAIN batch'[p] = DOMAIN batch[p] \cup {k}
         /\ batch'[p][k] \in Node
         /\ batch'[p][k].names = Joined(p, k)
         /\ \A j \in DOMAIN batch[p] \ {k} : batch'[p][j] = batch[p][j]
  BY <1>7 DEF Put
<1>9. DataType'
  <2>1. Nodes(idxmap'[p])
    BY <1>5 DEF DInv, DataType, Nodes
  <2>2. Nodes(batch'[p])
    BY <1>8 DEF DInv, DataType, Nodes
  <2>3. QED  BY <1>1, <1>4, <2>1, <2>2 DEF DInv, DataType, Nodes, Node
<1>10. MergedOnly'
  BY <1>2, <1>4 DEF DInv, MergedOnly, Merge
<1>11. Kept'
  <2>. SUFFICES ASSUME OneAtATime, NEW q \in Indexers,
                       NEW j \in DOMAIN batch'[q], j \in DOMAIN nodes
                PROVE  nodes[j].names \subseteq batch'[q][j].names
    BY <1>1, <1>2 DEF Kept
  <2>1. CASE batch'[q] = batch[q]
    BY <2>1 DEF DInv, Kept
  <2>2. CASE batch'[q] # batch[q]
    <3>1. q = p /\ batch' # batch
      BY <2>2, <1>4
    <3>2. CASE j = k
      BY <3>1, <3>2, <1>8 DEF Joined
    <3>3. CASE j # k
      BY <3>1, <3>3, <1>8 DEF DInv, Kept
    <3>4. QED  BY <3>2, <3>3
  <2>3. QED  BY <2>1, <2>2
<1>12. OneAtATime => RightNames(idxmap'[p]) /\ RightNames(batch'[p])
  <2>. SUFFICES ASSUME OneAtATime
                PROVE  RightNames(idxmap'[p]) /\ RightNames(batch'[p])
    OBVIOUS
  <2>0. RightNames(idxmap[p]) /\ RightNames(batch[p]) /\ RightNames(nodes)
    BY DEF DInv, AllRight
  <2>1. RightNames(idxmap'[p])
    BY <2>0, <1>5 DEF RightNames
  <2>2. ASSUME NEW j \in DOMAIN batch'[p] \ {Nil},
               NEW n \in Own(batch'[p][j].names)
        PROVE  Content(n) = j
    <3>1. CASE j \in DOMAIN batch[p] /\ batch'[p][j] = batch[p][j]
      BY <3>1, <2>0, <2>2 DEF RightNames
    <3>2. CASE ~(j \in DOMAIN batch[p] /\ batch'[p][j] = batch[p][j])
      <4>1. j = k /\ batch'[p][j].names = Joined(p, k)
        BY <3>2, <2>2, <1>8
      <4>2. \/ n \in Own(idxmap[p][k].names)
            \/ k \in DOMAIN nodes /\ n \in Own(nodes[k].names)
        BY <4>1, <2>2 DEF Own, Joined
      <4>3. QED  BY <4>1, <4>2, <2>0, <2>2, <1>3 DEF RightNames
    <3>3. QED  BY <3>1, <3>2
  <2>3. QED  BY <2>1, <2>2 DEF RightNames
<1>13. AllRight'
  BY <1>1, <1>2, <1>4, <1>12 DEF DInv, AllRight, RightNames, Own, Content
<1>14. QED  BY <1>2, <1>9, <1>10, <1>11, <1>13 DEF DInv

LEMMA FlushStep ==
  ASSUME IInv, DInv, NEW p \in Indexers, Flush(p)
  PROVE  /\ DInv'
         /\ OneAtATime => \A k \in DOMAIN nodes :
              k \in DOMAIN nodes' /\ nodes[k].names \subseteq nodes'[k].names
<1>1. /\ UNCHANGED <<image, idxmap, offset, hashing, misread>>
      /\ UNCHANGED <<begun, left>> /\ OneAtATime' = OneAtATime
      /\ pc[p] = "flush" /\ pc' = [pc EXCEPT ![p] = "result"]
      /\ \A q \in Indexers \ {p} : sending'[q] = sending[q]
      /\ batch' = [batch EXCEPT ![p] = Nothing]
  BY DEF Flush, FlushIndex, store, input, OneAtATime, IInv, TypeOK
<1>2. /\ DOMAIN batch' = Indexers /\ DOMAIN batch'[p] = {}
      /\ \A q \in Indexers \ {p} : batch'[q] = batch[q]
  BY <1>1 DEF DInv, DataType, Nothing
<1>3. PICK ks \in SUBSET DOMAIN batch[p] : nodes' = Written(ks, p)
  BY DEF Flush
<1>4. /\ DOMAIN nodes' = DOMAIN nodes \cup ks
      /\ \A k \in ks : nodes'[k] = batch[p][k]
      /\ \A k \in DOMAIN nodes \ ks : nodes'[k] = nodes[k]
  BY <1>3 DEF Written
<1>5. Running(p)
  BY <1>1 DEF Running, Ended
<1>6. DataType'
  <2>1. Nodes(nodes')
    BY <1>4 DEF DInv, DataType, Nodes
  <2>2. QED  BY <1>1, <1>2, <2>1 DEF DInv, DataType, Nodes, Node
<1>7. MergedOnly'
  BY <1>1, <1>2 DEF IInv, TypeOK, DInv, MergedOnly
<1>8. OneAtATime => \A q \in Indexers : DOMAIN batch'[q] = {}
  <2>. SUFFICES ASSUME OneAtATime, NEW q \in Indexers \ {p}
                PROVE  DOMAIN batch[q] = {}
    BY <1>2
  <2>1. ~Running(q)
    BY <1>5, OneRuns
  <2>2. QED  BY <2>1 DEF DInv, MergedOnly, Running, Ended
<1>9. Kept'
  BY <1>1, <1>8 DEF Kept
<1>10. OffsetRight'
  BY <1>1, <1>5 DEF IInv, TypeOK, DInv, OffsetRight, Running, Ended
<1>11. OneAtATime => RightNames(nodes')
  <2>. SUFFICES ASSUME OneAtATime, NEW j \in DOMAIN nodes' \ {Nil},
                       NEW n \in Own(nodes'[j].names)
                PROVE  Content(n) = j
    BY DEF RightNames
  <2>1. RightNames(batch[p]) /\ RightNames(nodes)
    BY DEF DInv, AllRight
  <2>2. CASE j \in ks
    BY <2>1, <2>2, <1>4 DEF RightNames
  <2>3. CASE j \notin ks
    BY <2>1, <2>3, <1>4 DEF RightNames
  <2>4. QED  BY <2>2, <2>3
<1>12. AllRight'
  <2>1. \A q \in Indexers : OneAtATime => RightNames(batch'[q])
    BY <1>8 DEF RightNames
  <2>2. QED  BY <1>1, <1>11, <2>1 DEF DInv, AllRight, RightNames, Own, Content
<1>13. OneAtATime => \A k \in DOMAIN nodes :
         k \in DOMAIN nodes' /\ nodes[k].names \subseteq nodes'[k].names
  BY <1>4 DEF DInv, Kept
<1>14. QED  BY <1>6, <1>7, <1>9, <1>10, <1>12, <1>13 DEF DInv

LEMMA DataInit ==
  InitIndexed => DInv
<1> SUFFICES ASSUME InitIndexed PROVE DInv
  OBVIOUS
<1>1. /\ DOMAIN idxmap = Indexers /\ DOMAIN batch = Indexers
      /\ \A p \in Indexers : DOMAIN idxmap[p] = {} /\ DOMAIN batch[p] = {}
  BY DEF InitIndexed, Nothing
<1>2. DataType
  BY <1>1, EarlierAssumption DEF InitIndexed, DataType, Nodes
<1>3. MergedOnly /\ Kept
  BY <1>1 DEF MergedOnly, Kept
<1>4. OffsetRight
  BY DEF InitIndexed, Init, OffsetRight
<1>5. AllRight
  BY <1>1, EarlierAssumption DEF InitIndexed, AllRight, RightNames, Content
<1>6. QED  BY <1>2, <1>3, <1>4, <1>5 DEF DInv

LEMMA DataStep == IInv /\ DInv /\ [NextIndexed]_allvars => DInv'
<1>. SUFFICES ASSUME IInv, DInv, [NextIndexed]_allvars PROVE DInv'
  OBVIOUS
<1>1. CASE HashPartition \/ Start
  BY <1>1, HashPartitionStep, StartStep
<1>2. CASE StoreFile
  BY <1>2, QuietStep DEF StoreFile
<1>3. ASSUME NEW p \in Indexers,
             List(p) \/ StartStoring(p) \/ MergeFails(p) \/ Rest(p)
      PROVE  DInv'
  BY <1>3, QuietStep DEF List, StartStoring, MergeFails, Rest
<1>4. ASSUME NEW p \in Indexers,
             \/ BeginHash(p) \/ HashEntry(p) \/ HashFails(p)
             \/ Merge(p) \/ Flush(p)
      PROVE  DInv'
  BY <1>4, BeginHashStep, CollectStep, MergeStep, FlushStep
<1>5. CASE UNCHANGED allvars
  BY <1>5 DEF allvars, vars, data, store, input, indexer, DInv, DataType,
     Nodes, Node, MergedOnly,
     Kept, OffsetRight, AllRight, RightNames, Own, Content, OneAtATime, Ended
<1>6. QED  BY <1>1, <1>2, <1>3, <1>4, <1>5 DEF NextIndexed

(* Who has moved the offset and what maps and batches hold stays in order, *)
(* for every image and every failure.                                      *)
THEOREM DataInvariance == SpecIndexed => [](IInv /\ DInv)
<1>1. InitIndexed => DInv
  BY DataInit
<1>2. QED  BY <1>1, DataStep, IndexedInvariance, PTL DEF SpecIndexed

(* Where one indexer runs at a time, exfat.go files a file under the hash  *)
(* of its own content, though everyone reads through one os.File: nobody   *)
(* moves the offset between its Seek and its hash.  What earlier           *)
(* operations have left is right (EarlierAssumption).                      *)
THEOREM HashesRight == SpecIndexed => []HashedRight
<1>1. DInv => HashedRight
  BY DEF DInv, OffsetRight, AllRight, RightNames, HashedRight
<1>2. QED  BY <1>1, DataInvariance, PTL

(* Where one indexer runs at a time, merging a node with the one in the    *)
(* database and writing it later takes no name from the index, even if     *)
(* the batch fails half way.                                               *)
THEOREM NamesStay == SpecIndexed => NamesKept
<1> DEFINE Stay ==
             OneAtATime => \A k \in DOMAIN nodes :
               k \in DOMAIN nodes' /\ nodes[k].names \subseteq nodes'[k].names
<1>1. IInv /\ DInv /\ [NextIndexed]_allvars => [Stay]_allvars
  <2>. SUFFICES ASSUME IInv, DInv, NextIndexed PROVE Stay
    OBVIOUS
  <2>1. CASE nodes' = nodes
    BY <2>1
  <2>2. CASE nodes' # nodes
    <3>1. PICK p \in Indexers : Flush(p)
      BY <2>2 DEF NextIndexed, HashPartition, Start, StoreFile, List,
         BeginHash, HashEntry,
         HashFails, StartStoring, Merge, MergeFails, Rest, data
    <3>2. QED  BY <3>1, FlushStep
  <2>3. QED  BY <2>1, <2>2
<1>2. QED  BY <1>1, DataInvariance, PTL DEF SpecIndexed, NamesKept

-----------------------------------------------------------------------------
(* Every file gets its name, where one indexer runs at a time and no call  *)
(* fails: an entry is in the map, in the batch or in the database, from    *)
(* the moment it is hashed.                                                *)

Sized ==
  \A p \in Indexers :
    Len(image[p]) \in Nat /\ DOMAIN image[p] = 1 .. Len(image[p])

InMap(p, i) ==
  image[p][i] \in DOMAIN idxmap[p] /\ <<p, i>> \in idxmap[p][image[p][i]].names

InBatch(p, i) ==
  image[p][i] \in DOMAIN batch[p] /\ <<p, i>> \in batch[p][image[p][i]].names

Settled(p, i) ==
  LET k == image[p][i] IN
  /\ k \in DOMAIN nodes
  /\ \/ <<p, i>> \in nodes[k].names
     \/ k \in DOMAIN before /\ \A n \in before[k].names : n \in Own({n})

Listed == {"hash", "batch", "loop", "merge", "flush", "result", "ended"}
Flushed == {"result", "ended"}

Covered(p) ==
  /\ pc[p] \in Listed => entries[p] = Len(image[p])
  /\ pc[p] = "loop" =>
       /\ left[p] <= entries[p]
       /\ \A i \in 1 .. entries[p] - left[p] : InMap(p, i)
  /\ pc[p] = "merge" =>
       \A i \in DOMAIN image[p] : InMap(p, i) \/ InBatch(p, i) \/ Settled(p, i)
  /\ pc[p] = "flush" => \A i \in DOMAIN image[p] : InBatch(p, i) \/ Settled(p, i)
  /\ pc[p] \in Flushed => \A i \in DOMAIN image[p] : Settled(p, i)

(* An indexer merges each content of its map once, and only its own names. *)
Entries(p) == {p} \X (1 .. MaxEntries)

Collected(p) ==
  /\ IsFiniteSet(DOMAIN idxmap[p])
  /\ pc[p] = "merge" => left[p] = Cardinality(DOMAIN idxmap[p])
  /\ \A k \in DOMAIN idxmap[p] :
       /\ k \notin DOMAIN batch[p]
       /\ idxmap[p][k].names # {} /\ idxmap[p][k].names \subseteq Entries(p)
  /\ \A k \in DOMAIN batch[p] : batch[p][k].names \cap Entries(p) # {}

(* A node was there before or has the name of an indexer that has written. *)
Sources ==
  /\ \A k \in DOMAIN before :
       k \in DOMAIN nodes /\ before[k].names \subseteq nodes[k].names
  /\ \A k \in DOMAIN nodes \ DOMAIN before :
       \E q \in Indexers :
         pc[q] \in Flushed /\ nodes[k].names \cap Entries(q) # {}

Named == Sources /\ \A p \in Indexers : Collected(p) /\ Covered(p)

Flawless == faults = 0 /\ OneAtATime

NameInv == Sized /\ (Flawless => Named)

(* The database only grows.                                                *)
Grows ==
  \A k \in DOMAIN nodes :
    k \in DOMAIN nodes' /\ nodes[k].names \subseteq nodes'[k].names

LEMMA StaysSettled ==
  ASSUME UNCHANGED <<image, before>>, Grows, NEW p, NEW i, Settled(p, i)
  PROVE  Settled(p, i)'
BY DEF Settled, Grows, Own

(* An indexer that takes no step.                                          *)
LEMMA OtherNamed ==
  ASSUME UNCHANGED <<image, before>>, Grows, NEW p \in Indexers,
         idxmap'[p] = idxmap[p], batch'[p] = batch[p], pc'[p] = pc[p],
         left'[p] = left[p], entries'[p] = entries[p],
         Collected(p), Covered(p)
  PROVE  Collected(p)' /\ Covered(p)'
<1>1. Collected(p)'
  BY DEF Collected, Entries
<1>2. \A i : /\ InMap(p, i) => InMap(p, i)'
             /\ InBatch(p, i) => InBatch(p, i)'
             /\ Settled(p, i) => Settled(p, i)'
  BY StaysSettled DEF InMap, InBatch
<1>3. Covered(p)'
  BY <1>2 DEF Covered
<1>4. QED  BY <1>1, <1>3

(* Without a failure nothing fails.                                        *)
LEMMA NothingFails ==
  ASSUME IInv, faults = 0, faults' = 0, NEW p \in Indexers
  PROVE  ~MayFail(p) /\ failure[p] = "none"
<1>1. failure[p] = "none"
  BY DEF IInv, Awaited
<1>2. QED  BY <1>1 DEF MayFail, Fault

(* Sources stays, as long as nothing is written.                           *)
LEMMA SameSources ==
  ASSUME UNCHANGED <<before, nodes>>, Sources,
         \A q \in Indexers : pc[q] \in Flushed => pc'[q] \in Flushed
  PROVE  Sources'
BY DEF Sources, Entries

(* StoreFile changes what an indexer has only by starting it.              *)
LEMMA StoreFileNamed ==
  ASSUME IInv, DInv, Named, HashPartition \/ Start \/ StoreFile
  PROVE  Named'
<1>1. /\ UNCHANGED <<image, before, nodes, idxmap, batch, entries, left>>
      /\ \/ pc' = pc
         \/ /\ started + 1 \in Indexers
            /\ pc' = [pc EXCEPT ![started + 1] = "open"]
  BY BoundsAssumption DEF HashPartition, Start, StoreFile, StartIndexer,
     StoreEvidence, StoreFails, AskAsync, MarkCompleted, SyncReceive, Receive,
     data, vars, indexer, IInv, TypeOK, Indexers
<1>2. Grows
  BY <1>1 DEF Grows
<1>3. \A q \in Indexers : pc'[q] = pc[q] \/ (pc'[q] = "open" /\ pc[q] = "none")
  <2>1. started \in Nat /\ started + 1 > started
    BY BoundsAssumption DEF IInv, TypeOK
  <2>2. started + 1 \in Indexers => pc[started + 1] = "none"
    BY <2>1 DEF IInv, Order
  <2>3. DOMAIN pc = Indexers
    BY DEF IInv, TypeOK
  <2>4. QED  BY <1>1, <2>2, <2>3
<1>4. Sources'
  BY <1>1, <1>3, SameSources DEF Named, Flushed
<1>5. ASSUME NEW q \in Indexers PROVE Collected(q)' /\ Covered(q)'
  <2>1. CASE pc'[q] = pc[q]
    BY <2>1, <1>1, <1>2, OtherNamed DEF Named
  <2>2. CASE pc'[q] = "open" /\ pc[q] = "none"
    BY <2>2, <1>1 DEF Named, Collected, Covered, Entries, Listed, Flushed
  <2>3. QED  BY <1>3, <2>1, <2>2
<1>6. QED  BY <1>4, <1>5 DEF Named

(* A step of one indexer that writes nothing.                              *)
LEMMA OneNamed ==
  ASSUME Named, NEW p \in Indexers, UNCHANGED <<image, before, nodes>>,
         \A q \in Indexers \ {p} :
           /\ idxmap'[q] = idxmap[q] /\ batch'[q] = batch[q]
           /\ pc'[q] = pc[q] /\ left'[q] = left[q] /\ entries'[q] = entries[q],
         pc[p] \in Flushed => pc'[p] \in Flushed,
         Collected(p)', Covered(p)'
  PROVE  Named'
<1>1. Grows
  BY DEF Grows
<1>2. \A q \in Indexers \ {p} : Collected(q)' /\ Covered(q)'
  BY <1>1, OtherNamed DEF Named
<1>3. Sources'
  BY SameSources DEF Named
<1>4. QED  BY <1>2, <1>3 DEF Named

(* The listing finds all entries, and the other calls keep them.           *)
LEMMA ListNamed ==
  ASSUME IInv, DInv, Sized, Named, faults = 0, faults' = 0,
         NEW p \in Indexers, List(p)
  PROVE  Named'
<1>1. /\ UNCHANGED <<image, before, nodes, idxmap, batch>>
      /\ pc[p] \in Calls
      /\ pc' = [pc EXCEPT ![p] = After[pc[p]]]
      /\ \A q \in Indexers \ {p} :
           /\ pc'[q] = pc[q] /\ left'[q] = left[q] /\ entries'[q] = entries[q]
      /\ left'[p] = entries'[p] /\ entries'[p] \in 0 .. MaxEntries
      /\ pc[p] # "list" => entries'[p] = entries[p]
  BY DEF List, Call, data, IInv, TypeOK
<1>2. pc[p] = "list" => entries'[p] = Len(image[p])
  BY NothingFails DEF List
<1>3. /\ pc'[p] \in {"root", "list", "hash", "batch", "loop"}
      /\ pc[p] \in Flushed => pc'[p] \in Flushed
      /\ pc'[p] \in Listed => pc[p] = "list" \/ pc[p] \in Listed
  BY <1>1 DEF Calls, After, Flushed, Listed, IInv, TypeOK
<1>4. Collected(p)'
  BY <1>1, <1>3 DEF Named, Collected, Entries
<1>5. Covered(p)'
  <2>1. pc'[p] \in Listed => entries'[p] = Len(image'[p])
    BY <1>1, <1>2, <1>3 DEF Named, Covered
  <2>2. left'[p] <= entries'[p] /\ 1 .. entries'[p] - left'[p] = {}
    BY <1>1, BoundsAssumption
  <2>3. QED  BY <2>1, <2>2, <1>3 DEF Covered, Flushed
<1>6. QED  BY <1>1, <1>3, <1>4, <1>5, OneNamed

LEMMA BeginHashNamed ==
  ASSUME Named, NEW p \in Indexers, BeginHash(p) PROVE Named'
<1>1. UNCHANGED <<image, before, nodes, idxmap, batch, pc, left, entries>>
  BY DEF BeginHash, BeginRound
<1>2. Grows
  BY <1>1 DEF Grows
<1>3. \A q \in Indexers : Collected(q)' /\ Covered(q)'
  BY <1>1, <1>2, OtherNamed DEF Named
<1>4. QED  BY <1>1, <1>3, SameSources DEF Named

(* Collecting an entry adds its name and takes none.                       *)
LEMMA CollectAll ==
  ASSUME DataType, NEW p \in Indexers, NEW k, Collect(p, k)
  PROVE  idxmap'[p][k].names = Grown(p, k)
<1> DEFINE node == IF k \in DOMAIN idxmap[p]
                     THEN [idxmap[p][k] EXCEPT !.names = @ \cup {Entry(p)}]
                     ELSE [names |-> {Entry(p)}, start |-> Entry(p)]
<1>1. idxmap'[p] = Put(idxmap[p], k, node)
  BY DEF Collect, DataType
<1>2. node.names = Grown(p, k)
  BY DEF DataType, Nodes, Node, Grown
<1> HIDE DEF node
<1>3. Put(idxmap[p], k, node)[k] = node
  BY DEF Put
<1>4. QED  BY <1>1, <1>2, <1>3

(* An entry that is hashed is in the map under the hash of its content.    *)
LEMMA HashNamed ==
  ASSUME IInv, DInv, Sized, Named, OneAtATime,
         NEW p \in Indexers, HashEntry(p)
  PROVE  Named'
<1> DEFINE n == entries[p] - left[p] + 1
           k == image[p][n]
<1>1. /\ UNCHANGED <<image, before, nodes, batch, pc, entries>>
      /\ left' = [left EXCEPT ![p] = @ - 1]
      /\ pc[p] = "loop" /\ begun[p] /\ left[p] > 0
      /\ left[p] \in Nat /\ entries[p] \in 0 .. MaxEntries
      /\ left'[p] = left[p] - 1
  BY BoundsAssumption DEF HashEntry, Round, InRound, IInv, TypeOK
<1>2. /\ left[p] <= entries[p] /\ entries[p] = Len(image[p])
      /\ \A i \in 1 .. entries[p] - left[p] : InMap(p, i)
  BY <1>1 DEF Named, Covered, Listed
<1>3. Collect(p, k)
  <2>1. offset = p
    BY <1>1 DEF DInv, OffsetRight
  <2>2. HashOf(p) = k
    BY <2>1 DEF HashOf, Content, Entry
  <2>3. QED  BY <2>2 DEF HashEntry
<1>4. n \in 1 .. MaxEntries /\ Entry(p) = <<p, n>> /\ <<p, n>> \in Entries(p)
  BY <1>1, <1>2, BoundsAssumption DEF Entry, Entries
<1> HIDE DEF n, k
<1>5. /\ DOMAIN idxmap' = Indexers
      /\ \A q \in Indexers \ {p} : idxmap'[q] = idxmap[q]
      /\ DOMAIN idxmap'[p] = DOMAIN idxmap[p] \cup {k}
      /\ \A j \in DOMAIN idxmap[p] \ {k} : idxmap'[p][j] = idxmap[p][j]
      /\ idxmap'[p][k].names = Grown(p, k)
  BY <1>3, CollectIs, CollectAll DEF DInv
<1>6. Collected(p)'
  <2>1. DOMAIN batch[p] = {}
    BY <1>1 DEF DInv, MergedOnly
  <2>2. IsFiniteSet(DOMAIN idxmap'[p])
    BY <1>5, FS_AddElement DEF Named, Collected
  <2>3. ASSUME NEW j \in DOMAIN idxmap'[p]
        PROVE  idxmap'[p][j].names # {} /\ idxmap'[p][j].names \subseteq Entries(p)
    <3>1. CASE j = k
      BY <3>1, <1>4, <1>5 DEF Named, Collected, Grown
    <3>2. CASE j # k
      BY <3>2, <1>5 DEF Named, Collected
    <3>3. QED  BY <3>1, <3>2
  <2>4. QED  BY <1>1, <2>1, <2>2, <2>3 DEF Collected, Entries
<1>7. Covered(p)'
  <2>1. ASSUME NEW i \in 1 .. entries'[p] - left'[p] PROVE InMap(p, i)'
    <3>1. CASE i = n
      BY <3>1, <1>1, <1>4, <1>5 DEF InMap, Grown, k
    <3>2. CASE i # n
      <4>1. InMap(p, i)
        BY <3>2, <2>1, <1>1, <1>2 DEF n
      <4>2. QED  BY <4>1, <1>1, <1>5 DEF InMap, Grown
    <3>3. QED  BY <3>1, <3>2
  <2>2. left'[p] <= entries'[p] /\ entries'[p] = Len(image'[p])
    BY <1>1, <1>2
  <2>3. QED  BY <2>1, <2>2, <1>1 DEF Covered, Flushed
<1>8. \A q \in Indexers \ {p} : left'[q] = left[q]
  BY <1>1 DEF IInv, TypeOK
<1>9. QED  BY <1>1, <1>5, <1>6, <1>7, <1>8, OneNamed

LEMMA StartStoringNamed ==
  ASSUME IInv, DInv, Sized, Named, NEW p \in Indexers, StartStoring(p)
  PROVE  Named'
<1>1. /\ UNCHANGED <<image, before, nodes, idxmap, batch, entries>>
      /\ pc[p] = "loop" /\ left[p] = 0 /\ pc'[p] = "merge"
      /\ left'[p] = Cardinality(DOMAIN idxmap[p])
      /\ \A q \in Indexers \ {p} : pc'[q] = pc[q] /\ left'[q] = left[q]
  BY DEF StartStoring, StartMerge, data, IInv, TypeOK
<1>2. Collected(p)'
  BY <1>1 DEF Named, Collected, Entries
<1>3. Covered(p)'
  <2>1. /\ entries[p] = Len(image[p]) /\ entries[p] \in Nat
        /\ \A i \in 1 .. entries[p] - left[p] : InMap(p, i)
    BY <1>1, BoundsAssumption DEF Named, Covered, Listed, IInv, TypeOK
  <2>2. \A i \in DOMAIN image[p] : InMap(p, i)
    BY <2>1, <1>1 DEF Sized
  <2>3. \A i \in DOMAIN image'[p] : InMap(p, i)'
    BY <2>2, <1>1 DEF InMap
  <2>4. QED  BY <2>1, <2>3, <1>1 DEF Covered, Flushed
<1>4. QED  BY <1>1, <1>2, <1>3, OneNamed DEF Flushed

(* A node to which the new names add nothing has them all, or had nothing  *)
(* but names of the indexer itself before.                                 *)
LEMMA NothingLost ==
  ASSUME Sources, NEW p \in Indexers, Collected(p), pc[p] = "merge",
         NEW k \in DOMAIN idxmap[p], k \in DOMAIN nodes,
         NothingToAdd(idxmap[p][k], nodes[k])
  PROVE  \/ idxmap[p][k].names \subseteq nodes[k].names
         \/ k \in DOMAIN before /\ \A n \in before[k].names : n \in Own({n})
<1>. SUFFICES ASSUME ~(idxmap[p][k].names \subseteq nodes[k].names)
              PROVE  /\ k \in DOMAIN before
                     /\ \A n \in before[k].names : n \in Own({n})
  OBVIOUS
<1>1. nodes[k].names \subseteq Entries(p)
  BY DEF NothingToAdd, Collected
<1>2. k \in DOMAIN before
  <2>. SUFFICES ASSUME k \notin DOMAIN before PROVE FALSE
    OBVIOUS
  <2>1. PICK q \in Indexers :
          pc[q] \in Flushed /\ nodes[k].names \cap Entries(q) # {}
    BY DEF Sources
  <2>2. q # p
    BY <2>1 DEF Flushed
  <2>3. QED  BY <1>1, <2>1, <2>2 DEF Entries
<1>3. before[k].names \subseteq Entries(p)
  BY <1>1, <1>2 DEF Sources
<1>4. QED  BY <1>2, <1>3 DEF Own, Entries

(* A merged content goes from the map to the batch, or needs no writing.   *)
LEMMA MergeNamed ==
  ASSUME IInv, DInv, Sized, Named, NEW p \in Indexers, Merge(p)
  PROVE  Named'
<1>1. /\ UNCHANGED <<image, before, nodes, pc, entries>>
      /\ pc[p] = "merge" /\ left[p] \in Nat /\ left'[p] = left[p] - 1
      /\ \A q \in Indexers \ {p} : left'[q] = left[q]
  BY BoundsAssumption DEF Merge, Round, InRound, IInv, TypeOK
<1>2. /\ DOMAIN idxmap = Indexers /\ DOMAIN batch = Indexers
      /\ Nodes(nodes) /\ Nodes(idxmap[p])
  BY DEF DInv, DataType
<1>3. PICK k \in DOMAIN idxmap[p] :
        /\ idxmap' = [idxmap EXCEPT ![p] = Drop(idxmap[p], k)]
        /\ \/ /\ batch' = batch
              /\ k \in DOMAIN nodes /\ NothingToAdd(idxmap[p][k], nodes[k])
           \/ /\ k \notin DOMAIN nodes
              /\ batch' = [batch EXCEPT ![p] = Put(batch[p], k, idxmap[p][k])]
           \/ /\ k \in DOMAIN nodes
              /\ batch' = [batch EXCEPT
                   ![p] = Put(batch[p], k, Merged(idxmap[p][k], nodes[k]))]
  BY DEF Merge
<1>4. \A q \in Indexers \ {p} : idxmap'[q] = idxmap[q] /\ batch'[q] = batch[q]
  BY <1>2, <1>3
<1>5. /\ DOMAIN idxmap'[p] = DOMAIN idxmap[p] \ {k}
      /\ \A j \in DOMAIN idxmap[p] \ {k} : idxmap'[p][j] = idxmap[p][j]
  <2>1. idxmap'[p] = Drop(idxmap[p], k)
    BY <1>2, <1>3
  <2>2. QED  BY <2>1 DEF Drop
<1>6. /\ k \notin DOMAIN batch[p]
      /\ idxmap[p][k].names # {} /\ idxmap[p][k].names \subseteq Entries(p)
  BY DEF Named, Collected
<1>7. \/ /\ batch'[p] = batch[p]
         /\ k \in DOMAIN nodes /\ NothingToAdd(idxmap[p][k], nodes[k])
      \/ /\ DOMAIN batch'[p] = DOMAIN batch[p] \cup {k}
         /\ idxmap[p][k].names \subseteq batch'[p][k].names
         /\ \A j \in DOMAIN batch[p] \ {k} : batch'[p][j] = batch[p][j]
  <2>1. CASE batch' = batch
            /\ k \in DOMAIN nodes /\ NothingToAdd(idxmap[p][k], nodes[k])
    BY <2>1
  <2>2. ASSUME NEW node, batch' = [batch EXCEPT ![p] = Put(batch[p], k, node)],
               idxmap[p][k].names \subseteq node.names
        PROVE  /\ DOMAIN batch'[p] = DOMAIN batch[p] \cup {k}
               /\ idxmap[p][k].names \subseteq batch'[p][k].names
               /\ \A j \in DOMAIN batch[p] \ {k} : batch'[p][j] = batch[p][j]
    <3>1. batch'[p] = Put(batch[p], k, node)
      BY <2>2, <1>2
    <3>2. QED  BY <3>1, <2>2 DEF Put
  <2>3. k \in DOMAIN nodes => idxmap[p][k].names
                              \subseteq Merged(idxmap[p][k], nodes[k]).names
    BY <1>2, MergedIs DEF Nodes
  <2>4. QED  BY <2>1, <2>2, <2>3, <1>3
<1>8. Collected(p)'
  <2>1. IsFiniteSet(DOMAIN idxmap[p]) /\ left[p] = Cardinality(DOMAIN idxmap[p])
    BY <1>1 DEF Named, Collected
  <2>2. /\ IsFiniteSet(DOMAIN idxmap'[p])
        /\ Cardinality(DOMAIN idxmap'[p]) = left[p] - 1
    BY <2>1, <1>5, FS_RemoveElement
  <2>3. ASSUME NEW j \in DOMAIN idxmap'[p]
        PROVE  /\ j \notin DOMAIN batch'[p]
               /\ idxmap'[p][j].names # {}
               /\ idxmap'[p][j].names \subseteq Entries(p)
    BY <2>3, <1>5, <1>7 DEF Named, Collected
  <2>4. ASSUME NEW j \in DOMAIN batch'[p]
        PROVE  batch'[p][j].names \cap Entries(p) # {}
    <3>1. CASE j \in DOMAIN batch[p]
      BY <3>1, <1>6, <1>7 DEF Named, Collected
    <3>2. CASE j \notin DOMAIN batch[p]
      BY <3>2, <2>4, <1>6, <1>7
    <3>3. QED  BY <3>1, <3>2
  <2>5. QED  BY <2>2, <2>3, <2>4, <1>1 DEF Collected, Entries
<1>9. ASSUME NEW i \in DOMAIN image[p]
      PROVE  InMap(p, i)' \/ InBatch(p, i)' \/ Settled(p, i)'
  <2>1. CASE Settled(p, i)
    BY <2>1, <1>1 DEF Settled, Own
  <2>2. CASE InBatch(p, i)
    BY <2>2, <1>1, <1>6, <1>7 DEF InBatch
  <2>3. CASE InMap(p, i) /\ image[p][i] # k
    BY <2>3, <1>1, <1>5 DEF InMap
  <2>4. CASE InMap(p, i) /\ image[p][i] = k
    <3>1. CASE k \in DOMAIN nodes /\ NothingToAdd(idxmap[p][k], nodes[k])
      <4>1. Settled(p, i)
        BY <3>1, <2>4, <1>1, NothingLost DEF Named, Settled, InMap
      <4>2. QED  BY <4>1, <1>1 DEF Settled, Own
    <3>2. CASE ~(k \in DOMAIN nodes /\ NothingToAdd(idxmap[p][k], nodes[k]))
      BY <3>2, <2>4, <1>1, <1>7 DEF InMap, InBatch
    <3>3. QED  BY <3>1, <3>2
  <2>5. QED  BY <2>1, <2>2, <2>3, <2>4, <1>1 DEF Named, Covered
<1>10. Covered(p)'
  BY <1>1, <1>9 DEF Named, Covered, Listed, Flushed
<1>11. QED  BY <1>1, <1>4, <1>8, <1>10, OneNamed

(* The loop over the map ends when nothing is left in it.                  *)
LEMMA RestNamed ==
  ASSUME IInv, DInv, Sized, Named, faults = 0, faults' = 0,
         NEW p \in Indexers, Rest(p)
  PROVE  Named'
<1>1. UNCHANGED <<image, before, nodes, idxmap, batch>>
  BY DEF Rest, data
<1>2. EndMerge(p) \/ StorePartition(p)
  BY NothingFails DEF Rest, CallFails, Panic
<1>3. /\ UNCHANGED <<entries, left>>
      /\ \A q \in Indexers \ {p} : pc'[q] = pc[q]
      /\ \/ pc[p] = "merge" /\ left[p] = 0 /\ pc'[p] = "flush"
         \/ pc[p] = "result" /\ pc'[p] = "ended"
  BY <1>2 DEF EndMerge, StorePartition, IInv, TypeOK
<1>4. Collected(p)'
  BY <1>1, <1>3 DEF Named, Collected, Entries
<1>5. \A i : /\ InBatch(p, i) => InBatch(p, i)'
             /\ Settled(p, i) => Settled(p, i)'
  BY <1>1 DEF InBatch, Settled, Own
<1>6. Covered(p)'
  <2>1. CASE pc[p] = "merge" /\ left[p] = 0 /\ pc'[p] = "flush"
    <3>1. DOMAIN idxmap[p] = {}
      BY <2>1, FS_EmptySet DEF Named, Collected
    <3>2. \A i : ~InMap(p, i)
      BY <3>1 DEF InMap
    <3>3. \A i \in DOMAIN image[p] : InBatch(p, i)' \/ Settled(p, i)'
      BY <3>2, <2>1, <1>5 DEF Named, Covered
    <3>4. QED  BY <3>3, <2>1, <1>1, <1>3 DEF Named, Covered, Listed, Flushed
  <2>2. CASE pc[p] = "result" /\ pc'[p] = "ended"
    BY <2>2, <1>1, <1>3, <1>5 DEF Named, Covered, Listed, Flushed
  <2>3. QED  BY <2>1, <2>2, <1>3
<1>7. QED  BY <1>1, <1>3, <1>4, <1>6, OneNamed DEF Flushed

(* With its batch written, an indexer's files are in the database.         *)
LEMMA FlushNamed ==
  ASSUME IInv, DInv, Sized, Named, OneAtATime, faults = 0, faults' = 0,
         NEW p \in Indexers, Flush(p)
  PROVE  Named'
<1>1. /\ UNCHANGED <<image, before, idxmap, entries, left>>
      /\ pc[p] = "flush" /\ pc'[p] = "result"
      /\ \A q \in Indexers \ {p} : pc'[q] = pc[q] /\ batch'[q] = batch[q]
      /\ DOMAIN batch'[p] = {}
  BY DEF Flush, FlushIndex, IInv, TypeOK, DInv, DataType, Nothing
<1>2. nodes' = Written(DOMAIN batch[p], p)
  BY NothingFails DEF Flush, FlushIndex
<1>3. /\ DOMAIN nodes' = DOMAIN nodes \cup DOMAIN batch[p]
      /\ \A k \in DOMAIN batch[p] : nodes'[k] = batch[p][k]
      /\ \A k \in DOMAIN nodes \ DOMAIN batch[p] : nodes'[k] = nodes[k]
  BY <1>2 DEF Written
<1>4. Grows
  BY FlushStep DEF Grows
<1>5. Sources'
  <2>1. \A k \in DOMAIN before :
          k \in DOMAIN nodes' /\ before[k].names \subseteq nodes'[k].names
    BY <1>4 DEF Named, Sources, Grows
  <2>2. ASSUME NEW k \in DOMAIN nodes', k \notin DOMAIN before
        PROVE  \E q \in Indexers :
                 pc'[q] \in Flushed /\ nodes'[k].names \cap Entries(q) # {}
    <3>1. CASE k \in DOMAIN batch[p]
      BY <3>1, <1>1, <1>3 DEF Named, Collected, Flushed
    <3>2. CASE k \notin DOMAIN batch[p]
      <4>1. PICK q \in Indexers :
              pc[q] \in Flushed /\ nodes[k].names \cap Entries(q) # {}
        BY <3>2, <2>2, <1>3 DEF Named, Sources
      <4>2. pc'[q] \in Flushed
        BY <4>1, <1>1 DEF Flushed
      <4>3. QED  BY <4>1, <4>2, <3>2, <2>2, <1>3
    <3>3. QED  BY <3>1, <3>2
  <2>3. QED  BY <2>1, <2>2, <1>1 DEF Sources, Entries
<1>6. Collected(p)'
  BY <1>1 DEF Named, Collected, Entries
<1>7. ASSUME NEW i \in DOMAIN image[p] PROVE Settled(p, i)'
  <2>1. CASE Settled(p, i)
    BY <2>1, <1>1, <1>4, StaysSettled
  <2>2. CASE InBatch(p, i)
    BY <2>2, <1>1, <1>3 DEF InBatch, Settled
  <2>3. QED  BY <2>1, <2>2, <1>1 DEF Named, Covered
<1>8. Covered(p)'
  BY <1>1, <1>7 DEF Named, Covered, Listed, Flushed
<1>9. \A q \in Indexers \ {p} : Collected(q)' /\ Covered(q)'
  BY <1>1, <1>4, OtherNamed DEF Named
<1>10. QED  BY <1>5, <1>6, <1>8, <1>9 DEF Named

LEMMA NamedStep ==
  ASSUME IInv, DInv, Sized, Named, OneAtATime, faults = 0, faults' = 0,
         NextIndexed
  PROVE  Named'
<1>1. CASE HashPartition \/ Start \/ StoreFile
  BY <1>1, StoreFileNamed
<1>2. ASSUME NEW p \in Indexers,
             \/ List(p) \/ BeginHash(p) \/ HashEntry(p) \/ StartStoring(p)
             \/ Merge(p) \/ Flush(p) \/ Rest(p)
      PROVE  Named'
  BY <1>2, ListNamed, BeginHashNamed, HashNamed, StartStoringNamed, MergeNamed,
     FlushNamed, RestNamed
<1>3. ASSUME NEW p \in Indexers, HashFails(p) \/ MergeFails(p) PROVE FALSE
  BY <1>3, NothingFails DEF HashFails, MergeFails, RoundFails
<1>4. QED  BY <1>1, <1>2, <1>3 DEF NextIndexed

(* Failures are counted, and nothing else changes while a file is stored.  *)
LEMMA FaultsGrow ==
  ASSUME IInv, [NextIndexed]_allvars
  PROVE  image' = image /\ (Flawless' => Flawless)
<1>1. image' = image
  BY DEF NextIndexed, HashPartition, Start, StoreFile, List, BeginHash,
     HashEntry, HashFails, StartStoring, Merge, MergeFails, Flush, Rest, data,
     allvars
<1>2. [Next]_vars
  BY IndexedStep
<1>3. OneAtATime' = OneAtATime
  BY <1>2 DEF Next, StoreStep, IndexerStep, StartIndexer, StoreEvidence,
     StoreFails, AskAsync, MarkCompleted, SyncReceive, Receive, Call,
     CallFails, BeginRound, Round, RoundFails, StartMerge, EndMerge,
     FlushIndex, StorePartition, Panic, vars, store, input, OneAtATime
<1>4. faults' = faults \/ faults' = faults + 1
  BY <1>2 DEF Next, StoreStep, IndexerStep, StartIndexer, StoreEvidence,
     StoreFails, AskAsync, MarkCompleted, SyncReceive, Receive, Call,
     CallFails, BeginRound, Round, RoundFails, StartMerge, EndMerge,
     FlushIndex, StorePartition, Panic, vars, MayFail, Fault
<1>5. faults' = 0 => faults = 0
  BY <1>4, BoundsAssumption DEF IInv, TypeOK
<1>6. QED  BY <1>1, <1>3, <1>5 DEF Flawless

LEMMA NameInvStep == IInv /\ DInv /\ NameInv /\ [NextIndexed]_allvars => NameInv'
<1>. SUFFICES ASSUME IInv, DInv, NameInv, [NextIndexed]_allvars PROVE NameInv'
  OBVIOUS
<1>1. image' = image /\ (Flawless' => Flawless)
  BY FaultsGrow
<1>2. Sized'
  BY <1>1 DEF NameInv, Sized
<1>3. ASSUME Flawless' PROVE Named'
  <2>1. Flawless /\ Sized /\ Named /\ faults' = 0
    BY <1>1, <1>3 DEF NameInv, Flawless
  <2>2. CASE NextIndexed
    BY <2>1, <2>2, NamedStep DEF Flawless
  <2>3. CASE UNCHANGED allvars
    <3>1. UNCHANGED <<image, before, nodes, idxmap, batch, pc, left, entries>>
      BY <2>3 DEF allvars, data, vars, indexer
    <3>2. Grows
      BY <3>1 DEF Grows
    <3>3. \A q \in Indexers : Collected(q)' /\ Covered(q)'
      BY <2>1, <3>1, <3>2, OtherNamed DEF Named
    <3>4. QED  BY <2>1, <3>1, <3>3, SameSources DEF Named
  <2>4. QED  BY <2>2, <2>3
<1>4. QED  BY <1>2, <1>3 DEF NameInv

LEMMA NameInvInit ==
  ASSUME InitIndexed PROVE NameInv
<1>1. Sized
  BY LayoutsAssumption DEF InitIndexed, Sized
<1>2. /\ nodes = before
      /\ \A p \in Indexers :
           /\ pc[p] = "none" /\ DOMAIN idxmap[p] = {} /\ DOMAIN batch[p] = {}
  BY DEF InitIndexed, Init, Nothing
<1>3. Sources
  BY <1>2 DEF Sources
<1>4. \A p \in Indexers : Collected(p) /\ Covered(p)
  BY <1>2, FS_EmptySet DEF Collected, Covered, Listed, Flushed
<1>5. QED  BY <1>1, <1>3, <1>4 DEF NameInv, Named

(* Where one indexer runs at a time and no call fails, no file is lost on  *)
(* its way from the listing over map and batch to the database: when       *)
(* cmdstore.go marks the evidence file completed, exfat.go has indexed     *)
(* every file of every partition by its name, unless the node held before  *)
(* nothing but names found again.                                          *)
THEOREM FilesNamed == SpecIndexed => []AllNamed
<1>1. InitIndexed => NameInv
  BY NameInvInit
<1>2. IInv /\ NameInv => AllNamed
  <2>. SUFFICES ASSUME IInv, NameInv, main = "done", faults = 0, OneAtATime,
                       NEW p \in 1 .. partitions, NEW i \in DOMAIN image[p]
                PROVE  Settled(p, i)
    BY DEF AllNamed, Settled
  <2>1. Ended(p)
    BY IInvCompleted DEF CompletedAfterIndexing
  <2>2. p \in Indexers
    BY BoundsAssumption DEF IInv, TypeOK, Indexers
  <2>3. QED  BY <2>1, <2>2 DEF NameInv, Flawless, Named, Covered, Ended, Flushed
<1>3. QED  BY <1>1, <1>2, NameInvStep, DataInvariance, PTL DEF SpecIndexed
=============================================================================
