-------------------------- MODULE BlockIndexProofs --------------------------
(***************************************************************************)
(* Proofs about the block index, for any number of operations, chunks and  *)
(* blocks, one after the other or together, with any number of failures    *)
(* and crashes.                                                            *)
(***************************************************************************)
EXTENDS BlockIndex, TLAPS

-----------------------------------------------------------------------------
(* Where entries are.                                                      *)

InFile(w) == \E k \in Entries(Block(w)) : file[Block(w)][2 * k][2] = w
Safe(w) == InFile(w) \/ Torn(Block(w))
Buffered(w) ==
  /\ current[w[1]] # None
  /\ \E k \in DOMAIN current[w[1]].entries : current[w[1]].entries[k] = w

(* A buffer holds entries of its own block.                                *)
OfBlock(o) ==
  current[o] # None =>
    \A k \in 1 .. Len(current[o].entries) :
      Block(current[o].entries[k]) = current[o].block

(* What a flush has written is in the file, in whole entries, unless the   *)
(* file is torn; and a hash just written is still the last piece.          *)
Copied(o) ==
  current[o] # None =>
    \A k \in 1 .. Len(current[o].entries), w \in WorkersOf(o) :
      w = current[o].entries[k] /\ 2 * k <= written[o] => Safe(w)
Half(o) ==
  current[o] # None =>
    \A k \in 1 .. Len(current[o].entries), b \in Blocks :
      b = current[o].block /\ 2 * k = written[o] + 1 =>
        \/ Torn(b)
        \/ /\ Len(file[b]) % 2 = 1
           /\ file[b][Len(file[b])] = <<"hash", current[o].entries[k]>>

(* An entry that a worker has added, or is about to flush, is somewhere.   *)
Going(w) == work[w] \in {"done", "flushFull"} /\ opc[w[1]] \in {"store", "closing"}
Kept(w) == Going(w) => Safe(w) \/ Buffered(w)
Stored(w) == opc[w[1]] = "ok" => Safe(w)

EntriesGood ==
  /\ \A o \in Ops : OfBlock(o) /\ Copied(o) /\ Half(o)
  /\ \A w \in Workers : Kept(w) /\ Stored(w)

(* One holder of the mutex flushes, and what it flushes is there; only     *)
(* operations with an error leave workers behind.                          *)
AtFlush(w) == work[w] \in {"flushOld", "flushFull"}
OneHolder(o) ==
  /\ Flushing(o) => current[o] # None
  /\ \A v, w \in WorkersOf(o) : AtFlush(v) /\ AtFlush(w) => v = w
  /\ opc[o] = "closing" => \A w \in WorkersOf(o) : ~AtFlush(w)
Finished(o) == opc[o] = "ok" \/ (opc[o] = "closing" /\ ~err[o]) => AllDone(o)

Holders == \A o \in Ops : OneHolder(o) /\ Finished(o)

IInv == TypeOK /\ Holders /\ EntriesGood

LEMMA WorkerTypes ==
  ASSUME NEW w \in Workers
  PROVE  /\ w[1] \in Ops /\ w \in WorkersOf(w[1])
         /\ Chunk(w) \in Chunks /\ Block(w) \in Blocks
<1>1. PICK o \in Ops : w \in {o} \X DOMAIN Content[o]
  BY DEF Workers
<1>2. w[1] = o /\ w[2] \in DOMAIN Content[o]
  BY <1>1
<1>3. Content[o][w[2]] \in Chunks
  BY <1>2, ContentAssumption
<1> QED
  BY <1>2, <1>3, BlocksAssumption DEF WorkersOf, Chunk, Block

-----------------------------------------------------------------------------
(* Files: what is in them stays, and so does a torn entry.                 *)

Piece == {"hash", "rest"} \X Workers

LEMMA FileTypes ==
  ASSUME TypeOK
  PROVE  \A b \in Blocks : file[b] \in Seq(Piece) /\ Len(file[b]) \in Nat
<1>1. \A b \in Blocks : file[b] \in Seq(Piece)
  BY DEF TypeOK, Piece
<1> QED
  BY <1>1

LEMMA Halves ==
  ASSUME NEW n \in Nat
  PROVE  /\ n \div 2 \in Nat
         /\ \A k \in 1 .. n \div 2 : k \in Nat /\ k >= 1 /\ 2 * k <= n
         /\ \A k \in Nat : k >= 1 /\ 2 * k <= n => k \in 1 .. n \div 2
         /\ n % 2 = 1 => \E k \in Nat : k >= 1 /\ 2 * k = n + 1
<1>1. n \div 2 \in Nat /\ 2 * (n \div 2) <= n /\ n < 2 * (n \div 2) + 2
  OBVIOUS
<1>2. \A k \in 1 .. n \div 2 : k \in Nat /\ k >= 1 /\ 2 * k <= n
  BY <1>1
<1>3. ASSUME NEW k \in Nat, k >= 1, 2 * k <= n PROVE k \in 1 .. n \div 2
  <2> DEFINE h == n \div 2
  <2>1. h \in Nat /\ n < 2 * h + 2
    BY <1>1
  <2> HIDE DEF h
  <2>2. k <= h
    BY <2>1, <1>3
  <2> QED
    BY <2>1, <2>2, <1>3 DEF h
<1>4. ASSUME n % 2 = 1 PROVE \E k \in Nat : k >= 1 /\ 2 * k = n + 1
  <2> DEFINE h == n \div 2
  <2>1. h \in Nat /\ n = 2 * h + 1
    BY <1>4
  <2> HIDE DEF h
  <2>2. h + 1 \in Nat /\ h + 1 >= 1 /\ 2 * (h + 1) = n + 1
    BY <2>1
  <2> QED
    BY <2>2
<1> QED
  BY <1>1, <1>2, <1>3, <1>4

AppendTo(b, p) == file' = [file EXCEPT ![b] = Append(@, p)]

LEMMA FilesGrow ==
  ASSUME TypeOK, NEW b \in Blocks, NEW p, AppendTo(b, p)
  PROVE  /\ \A c \in Blocks : Torn(c) => Torn(c)'
         /\ \A w \in Workers : InFile(w) => InFile(w)'
         /\ \A w \in Workers : Safe(w) => Safe(w)'
         /\ \A c \in Blocks : \A k \in Entries(c) : IsEntry(c, k)' = IsEntry(c, k)
<1>1. \A c \in Blocks : file'[c] = IF c = b THEN Append(file[c], p) ELSE file[c]
  BY DEF TypeOK, AppendTo
<1>2. ASSUME NEW c \in Blocks
      PROVE  /\ Len(file'[c]) \in Nat /\ Len(file'[c]) >= Len(file[c])
             /\ \A i \in 1 .. Len(file[c]) : file'[c][i] = file[c][i]
  <2>1. file[c] \in Seq(Piece) /\ Len(file[c]) \in Nat
    BY FileTypes
  <2>2. /\ Len(Append(file[c], p)) = Len(file[c]) + 1
        /\ \A i \in 1 .. Len(file[c]) : Append(file[c], p)[i] = file[c][i]
    BY <2>1
  <2>3. CASE c = b
    <3>1. file'[c] = Append(file[c], p)
      BY <2>3, <1>1
    <3>2. Len(file[c]) + 1 \in Nat /\ Len(file[c]) + 1 >= Len(file[c])
      BY <2>1
    <3> QED
      BY <3>1, <3>2, <2>2
  <2>4. CASE c # b
    BY <2>1, <2>4, <1>1
  <2> QED
    BY <2>3, <2>4
<1>3. \A c \in Blocks : \A i \in 1 .. Len(file[c]) : file'[c][i] = file[c][i]
  BY <1>2
<1>4. ASSUME NEW c \in Blocks, NEW k \in Entries(c)
      PROVE  k \in Entries(c)' /\ 2 * k \in 1 .. Len(file[c]) /\ 2 * k - 1 \in 1 .. Len(file[c])
             /\ IsEntry(c, k)' = IsEntry(c, k)
  <2>1. k \in Nat /\ k >= 1 /\ 2 * k <= Len(file[c])
    BY FileTypes, Halves DEF Entries
  <2>2. 2 * k <= Len(file'[c])
    BY <2>1, <1>2, FileTypes
  <2>3. k \in Entries(c)'
    BY <2>1, <2>2, <1>2, Halves DEF Entries
  <2>4. 2 * k \in 1 .. Len(file[c]) /\ 2 * k - 1 \in 1 .. Len(file[c])
    BY <2>1, FileTypes
  <2>5. IsEntry(c, k)' = IsEntry(c, k)
    <3>1. /\ file'[c][2 * k - 1] = file[c][2 * k - 1]
          /\ file'[c][2 * k] = file[c][2 * k]
      BY <2>4, <1>3
    <3> QED
      BY <2>1, <2>2, <3>1 DEF IsEntry
  <2> QED
    BY <2>3, <2>4, <2>5
<1>5. \A c \in Blocks : Torn(c) => Torn(c)'
  BY <1>4 DEF Torn
<1>6. \A w \in Workers : InFile(w) => InFile(w)'
  BY <1>4, <1>3, WorkerTypes DEF InFile
<1> QED
  BY <1>4, <1>5, <1>6, WorkerTypes DEF Safe

LEMMA FilesSame ==
  ASSUME file' = file
  PROVE  /\ \A c \in Blocks : Torn(c)' = Torn(c)
         /\ \A w \in Workers : InFile(w)' = InFile(w) /\ Safe(w)' = Safe(w)
<1>1. \A c \in Blocks : Torn(c)' = Torn(c)
  BY DEF Torn, Entries, IsEntry
<1>2. \A w \in Workers : InFile(w)' = InFile(w)
  BY DEF InFile, Entries
<1> QED
  BY <1>1, <1>2, WorkerTypes DEF Safe

(* A piece that makes the length even ends an entry: whole, if it is the   *)
(* rest of the hash before it, and torn otherwise.                         *)
LEMMA PairEnds ==
  ASSUME TypeOK, NEW b \in Blocks, NEW part \in {"hash", "rest"}, NEW w \in Workers,
         AppendTo(b, <<part, w>>), Len(file[b]) % 2 = 1
  PROVE  /\ Block(w) = b => InFile(w)'
         /\ file[b][Len(file[b])] # <<"hash", w>> \/ part = "hash" => Torn(b)'
<1> DEFINE n == Len(file[b])
<1>1. n \in Nat /\ file[b] \in Seq(Piece)
  BY FileTypes
<1>2. PICK k \in Nat : k >= 1 /\ 2 * k = n + 1
  BY <1>1, Halves
<1>3. file'[b] = Append(file[b], <<part, w>>)
  BY DEF TypeOK, AppendTo
<1>4. n \in 1 .. n /\ 2 * k - 1 = n
  BY <1>1, <1>2
<1>5. Len(file'[b]) = n + 1 /\ file'[b][n + 1] = <<part, w>> /\ file'[b][n] = file[b][n]
  BY <1>1, <1>3, <1>4
<1>6. k \in Entries(b)'
  <2>1. n + 1 \in Nat /\ 2 * k <= n + 1
    BY <1>1, <1>2
  <2>2. k \in 1 .. (n + 1) \div 2
    BY <2>1, <1>2, Halves
  <2> QED
    BY <2>2, <1>5 DEF Entries
<1>7. Block(w) = b => InFile(w)'
  BY <1>2, <1>5, <1>6 DEF InFile
<1>8. file[b][n] \in Piece
  BY <1>1, <1>4
<1>9. IsEntry(b, k)' => file[b][n] = <<"hash", w>> /\ part = "rest"
  <2>1. /\ file'[b][2 * k - 1] = file[b][n]
        /\ file'[b][2 * k] = <<part, w>>
    BY <1>2, <1>4, <1>5
  <2>2. IsEntry(b, k)' => file[b][n][1] = "hash" /\ part = "rest" /\ file[b][n][2] = w
    BY <2>1 DEF IsEntry
  <2> QED
    BY <1>8, <2>2 DEF Piece
<1> QED
  BY <1>6, <1>7, <1>9 DEF Torn

-----------------------------------------------------------------------------
(* Steps that leave files and buffers alone; a flush may be given up.      *)
LEMMA Control ==
  ASSUME IInv, file' = file, current' = current, written' \in [Ops -> Nat],
         \A o \in Ops : written'[o] = written[o] \/ written'[o] = 0,
         \A w \in Workers : Going(w)' => Going(w),
         \A w \in Workers : opc'[w[1]] = "ok" => Safe(w)
  PROVE  EntriesGood'
<1>1. \A w \in Workers : Safe(w)' = Safe(w)
  BY FilesSame
<1>2. \A b \in Blocks : Torn(b)' = Torn(b)
  BY FilesSame
<1>3. ASSUME NEW o \in Ops PROVE OfBlock(o)' /\ Copied(o)' /\ Half(o)'
  <2>1. OfBlock(o) /\ Copied(o) /\ Half(o)
    BY DEF IInv, EntriesGood
  <2>2. OfBlock(o)'
    BY <2>1 DEF OfBlock
  <2> SUFFICES ASSUME current[o] # None PROVE Copied(o)' /\ Half(o)'
    BY <2>2 DEF Copied, Half
  <2>3. current[o].block \in Blocks /\ current[o].entries \in Seq(WorkersOf(o))
    BY DEF IInv, TypeOK, Buffer
  <2>5. CASE written'[o] = written[o]
    <3>1. Copied(o)'
      BY <1>1, <2>1, <2>5 DEF Copied, WorkersOf
    <3>2. Half(o)'
      BY <1>2, <2>1, <2>5 DEF Half
    <3> QED
      BY <3>1, <3>2
  <2>6. CASE written'[o] = 0
    <3>1. \A k \in 1 .. Len(current[o].entries) : ~(2 * k <= 0) /\ 2 * k # 0 + 1
      BY <2>3
    <3>2. Copied(o)'
      BY <3>1, <2>6 DEF Copied
    <3>3. Half(o)'
      BY <3>1, <2>6 DEF Half
    <3> QED
      BY <3>2, <3>3
  <2> QED
    BY <2>5, <2>6
<1>4. ASSUME NEW w \in Workers PROVE Kept(w)' /\ Stored(w)'
  <2>1. Kept(w)
    BY DEF IInv, EntriesGood
  <2>2. Buffered(w)' = Buffered(w)
    BY DEF Buffered
  <2> QED
    BY <1>1, <2>1, <2>2 DEF Kept, Stored
<1> QED
  BY <1>3, <1>4 DEF EntriesGood

(* A worker's entry joins those that are to stay in the buffer.            *)
LEMMA PutKeeps ==
  ASSUME IInv, NEW w \in Workers, NEW entries \in Seq(WorkersOf(w[1])),
         \A k \in 1 .. Len(entries) : Block(entries[k]) = Block(w),
         Put(w, entries), UNCHANGED <<file, opc, err>>,
         \A v \in WorkersOf(w[1]) :
           Buffered(v) => Safe(v) \/ \E k \in 1 .. Len(entries) : entries[k] = v
  PROVE  /\ current' \in [Ops -> Buffer \cup {None}] /\ written' \in [Ops -> Nat]
         /\ \A o \in Ops : current'[o] # None =>
              current'[o].entries \in Seq(WorkersOf(o)) /\ written'[o] <= Pieces(o)'
         /\ work' \in [Workers -> {"none", "add", "flushOld", "flushFull", "done", "failed"}]
         /\ EntriesGood'
<1> DEFINE o == w[1]  all == Append(entries, w)
<1>1. /\ o \in Ops /\ w \in WorkersOf(o) /\ Block(w) \in Blocks
      /\ current \in [Ops -> Buffer \cup {None}] /\ written \in [Ops -> Nat]
      /\ work \in [Workers -> {"none", "add", "flushOld", "flushFull", "done", "failed"}]
  BY WorkerTypes DEF IInv, TypeOK
<1>2. /\ all \in Seq(WorkersOf(o)) /\ Len(all) = Len(entries) + 1 /\ Len(entries) \in Nat
      /\ all[Len(entries) + 1] = w
      /\ \A k \in 1 .. Len(entries) : all[k] = entries[k]
  BY <1>1
<1>3. all \in Seq(Workers)
  BY <1>2 DEF WorkersOf
<1>4. /\ current' = [current EXCEPT ![o] = [block |-> Block(w), entries |-> all]]
      /\ written' = [written EXCEPT ![o] = 0]
      /\ work' = [work EXCEPT ![w] = IF Full(all) THEN "flushFull" ELSE "done"]
  BY DEF Put, Move
<1> HIDE DEF all
<1>5. [block |-> Block(w), entries |-> all] \in Buffer
  BY <1>1, <1>3 DEF Buffer
<1>6. /\ current'[o].block = Block(w) /\ current'[o].entries = all
      /\ current'[o] # None /\ written'[o] = 0
  BY <1>1, <1>4, <1>5, NoneAssumption
<1>7. \A p \in Ops : p # o => current'[p] = current[p] /\ written'[p] = written[p]
  BY <1>1, <1>4
<1>8. /\ current' \in [Ops -> Buffer \cup {None}] /\ written' \in [Ops -> Nat]
      /\ work' \in [Workers -> {"none", "add", "flushOld", "flushFull", "done", "failed"}]
  BY <1>1, <1>4, <1>5
<1>9. ASSUME NEW p \in Ops, current'[p] # None
      PROVE  current'[p].entries \in Seq(WorkersOf(p)) /\ written'[p] <= Pieces(p)'
  <2>1. CASE p = o
    BY <2>1, <1>2, <1>6 DEF Pieces
  <2>2. CASE p # o
    BY <2>2, <1>7, <1>9 DEF IInv, TypeOK, Pieces
  <2> QED
    BY <2>1, <2>2
<1>10. \A v \in Workers : Safe(v)' = Safe(v)
  BY FilesSame
<1>11. \A b \in Blocks : Torn(b)' = Torn(b)
  BY FilesSame
<1>12. ASSUME NEW p \in Ops PROVE OfBlock(p)' /\ Copied(p)' /\ Half(p)'
  <2>1. CASE p = o
    <3>1. \A k \in 1 .. Len(all) : Block(all[k]) = Block(w) /\ 2 * k > 1
      BY <1>2
    <3>2. OfBlock(p)'
      BY <2>1, <3>1, <1>6 DEF OfBlock
    <3>3. Copied(p)' /\ Half(p)'
      <4>1. \A k \in 1 .. Len(all) : ~(2 * k <= 0) /\ 2 * k # 0 + 1
        BY <1>2
      <4>2. Copied(p)'
        BY <2>1, <4>1, <1>6 DEF Copied
      <4>3. Half(p)'
        BY <2>1, <4>1, <1>6 DEF Half
      <4> QED
        BY <4>2, <4>3
    <3> QED
      BY <3>2, <3>3
  <2>2. CASE p # o
    <3>1. OfBlock(p) /\ Copied(p) /\ Half(p)
      BY DEF IInv, EntriesGood
    <3>2. OfBlock(p)'
      BY <2>2, <3>1, <1>7 DEF OfBlock
    <3>3. Copied(p)' /\ Half(p)'
      <4>1. current'[p] = current[p] /\ written'[p] = written[p]
        BY <2>2, <1>7
      <4>2. Copied(p)'
        BY <3>1, <4>1, <1>10 DEF Copied, WorkersOf
      <4>3. Half(p)'
        BY <3>1, <4>1, <1>11 DEF Half
      <4> QED
        BY <4>2, <4>3
    <3> QED
      BY <3>2, <3>3
  <2> QED
    BY <2>1, <2>2
<1>13. ASSUME NEW v \in Workers PROVE Kept(v)' /\ Stored(v)'
  <2>1. Kept(v) /\ Stored(v) /\ v[1] \in Ops /\ v \in WorkersOf(v[1])
    BY WorkerTypes DEF IInv, EntriesGood
  <2>2. Stored(v)'
    BY <2>1, <1>10 DEF Stored
  <2>3. CASE v = w
    <3>1. Len(all) \in DOMAIN all /\ all[Len(all)] = w
      BY <1>2
    <3>2. Buffered(v)'
      BY <2>3, <3>1, <1>6 DEF Buffered
    <3> QED
      BY <2>2, <3>2 DEF Kept
  <2>4. CASE v # w /\ v[1] = o
    <3>1. work'[v] = work[v]
      BY <2>4, <1>1, <1>4
    <3>2. Buffered(v) => Safe(v) \/ Buffered(v)'
      <4>1. ASSUME NEW k \in 1 .. Len(entries), entries[k] = v PROVE Buffered(v)'
        <5>1. k \in DOMAIN all /\ all[k] = v
          BY <4>1, <1>2
        <5> QED
          BY <5>1, <2>4, <1>6 DEF Buffered
      <4> QED
        BY <4>1, <2>1, <2>4
    <3> QED
      BY <2>1, <2>2, <3>1, <3>2, <1>10 DEF Kept, Going
  <2>5. CASE v[1] # o
    <3>1. work'[v] = work[v] /\ Buffered(v)' = Buffered(v)
      BY <2>1, <2>5, <1>1, <1>4, <1>7 DEF Buffered
    <3> QED
      BY <2>1, <2>2, <3>1, <1>10 DEF Kept, Going
  <2> QED
    BY <2>3, <2>4, <2>5
<1> QED
  BY <1>8, <1>9, <1>12, <1>13 DEF EntriesGood

-----------------------------------------------------------------------------
(* The mutex.                                                              *)

LEMMA HoldersStep ==
  ASSUME TypeOK, Holders, [Next]_vars
  PROVE  Holders'
<1>1. /\ work \in [Workers -> {"none", "add", "flushOld", "flushFull", "done", "failed"}]
      /\ opc \in [Ops -> {"idle", "store", "closing", "ok", "failed", "dead"}]
      /\ err \in [Ops -> BOOLEAN]
      /\ current \in [Ops -> Buffer \cup {None}]
  BY DEF TypeOK
<1>2. \A o \in Ops : OneHolder(o) /\ Finished(o)
  BY DEF Holders
<1>3. \A o \in Ops : \A w \in WorkersOf(o) : w \in Workers /\ w[1] = o
  BY DEF WorkersOf
<1>4. \A w \in Workers : w[1] \in Ops /\ w \in WorkersOf(w[1])
  BY WorkerTypes
<1>5. ASSUME NEW o \in Ops, NewBlockManager(o) PROVE Holders'
  <2>1. /\ opc' = [opc EXCEPT ![o] = "store"] /\ UNCHANGED <<current, err>>
        /\ \A w \in Workers : work'[w] = IF w[1] = o THEN "add" ELSE work[w]
    BY <1>5 DEF NewBlockManager
  <2> QED
    BY <2>1, <1>1, <1>2, <1>3
       DEF Holders, OneHolder, Finished, Flushing, AtFlush, AllDone
<1>6. CASE Crash
  <2>1. /\ \A o \in Ops : opc'[o] = IF Running(o) THEN "dead" ELSE opc[o]
        /\ \A w \in Workers : work'[w] = IF opc[w[1]] = "ok" THEN work[w] ELSE "none"
    BY <1>6 DEF Crash
  <2>2. \A o \in Ops : opc'[o] = "ok" => opc[o] = "ok" /\ AllDone(o)
    BY <2>1, <1>2 DEF Finished
  <2>3. \A w \in Workers : ~AtFlush(w)'
    BY <2>1, <1>2, <1>3, <1>4 DEF AtFlush, Finished, AllDone
  <2>4. \A o \in Ops : opc'[o] # "closing"
    BY <2>1 DEF Running
  <2>5. \A o \in Ops : ~Flushing(o)'
    BY <2>3, <2>4, <1>3 DEF Flushing, AtFlush
  <2>6. \A o \in Ops : OneHolder(o)'
    BY <2>3, <2>4, <2>5, <1>3 DEF OneHolder
  <2>7. \A o \in Ops : Finished(o)'
    BY <2>1, <2>2, <2>4, <1>3 DEF Finished, AllDone
  <2> QED
    BY <2>6, <2>7 DEF Holders
<1>7. ASSUME NEW w \in Workers, WorkerFails(w) PROVE Holders'
  <2>1. /\ work[w] = "add" /\ work' = [work EXCEPT ![w] = "failed"]
        /\ UNCHANGED <<current, opc, err>>
    BY <1>7 DEF WorkerFails, Move
  <2> QED
    BY <2>1, <1>1, <1>2, <1>3
       DEF Holders, OneHolder, Finished, Flushing, AtFlush, AllDone
<1>8. ASSUME NEW w \in Workers, AddChunkMetadata(w) PROVE Holders'
  <2> DEFINE o == w[1]
  <2>1. /\ work[w] = "add" /\ ~Flushing(o) /\ UNCHANGED <<opc, err>>
        /\ o \in Ops /\ w \in WorkersOf(o)
    BY <1>8, <1>4 DEF AddChunkMetadata, MutexFree
  <2>2. /\ \E l \in {"done", "flushFull", "flushOld"} : work' = [work EXCEPT ![w] = l]
        /\ current'[o] # None
        /\ \A p \in Ops : p # o => current'[p] = current[p]
    <3>1. ASSUME NEW entries \in Seq(Workers), Put(w, entries)
          PROVE  /\ work' = [work EXCEPT ![w] = "done"] \/ work' = [work EXCEPT ![w] = "flushFull"]
                 /\ current'[o] # None
                 /\ \A p \in Ops : p # o => current'[p] = current[p]
      <4>1. [block |-> Block(w), entries |-> Append(entries, w)] \in Buffer
        BY WorkerTypes DEF Buffer
      <4> QED
        BY <3>1, <4>1, <2>1, <1>1, NoneAssumption DEF Put, Move
    <3>2. CASE current[o] # None /\ Put(w, current[o].entries)
      <4>1. current[o].entries \in Seq(Workers)
        BY <3>2, <2>1, <1>1 DEF Buffer
      <4> QED
        BY <3>1, <3>2, <4>1
    <3>3. CASE Put(w, <<>>)
      <4>1. <<>> \in Seq(Workers)
        OBVIOUS
      <4> QED
        BY <3>1, <3>3, <4>1
    <3>4. CASE current[o] # None /\ Move(w, "flushOld") /\ UNCHANGED current
      BY <3>4 DEF Move
    <3> QED
      BY <1>8, <3>2, <3>3, <3>4 DEF AddChunkMetadata
  <2>3. \A v \in WorkersOf(o) : ~AtFlush(v)
    BY <2>1 DEF Flushing, AtFlush
  <2>4. opc[o] # "closing" /\ opc[o] # "ok"
    BY <2>1, <1>2 DEF Flushing, Finished, AllDone
  <2>5. \A v \in Workers : v # w => work'[v] = work[v]
    BY <2>2, <1>1
  <2>6. OneHolder(o)' /\ Finished(o)'
    BY <2>1, <2>2, <2>3, <2>4, <2>5, <1>3
       DEF OneHolder, Finished, AtFlush
  <2>7. ASSUME NEW p \in Ops, p # o PROVE OneHolder(p)' /\ Finished(p)'
    <3>1. \A v \in WorkersOf(p) : work'[v] = work[v]
      BY <2>5, <2>7, <1>3
    <3> QED
      BY <3>1, <2>1, <2>2, <2>7, <1>2
         DEF OneHolder, Finished, AtFlush, Flushing, AllDone, WorkersOf
  <2> QED
    BY <2>6, <2>7 DEF Holders
<1>9. ASSUME NEW o \in Ops, WritePiece(o) PROVE Holders'
  <2>1. UNCHANGED <<current, opc, err, work>>
    BY <1>9 DEF WritePiece
  <2> QED
    BY <2>1, <1>2 DEF Holders, OneHolder, Finished, Flushing, AtFlush, AllDone,
       WorkersOf
<1>10. ASSUME NEW w \in Workers, FlushedOld(w) \/ FlushedFull(w) PROVE Holders'
  <2> DEFINE o == w[1]
  <2>1. /\ AtFlush(w) /\ UNCHANGED <<opc, err>>
        /\ o \in Ops /\ w \in WorkersOf(o)
    BY <1>10, <1>4 DEF FlushedOld, FlushedFull, AtFlush
  <2>2. /\ work' = [work EXCEPT ![w] = "done"] \/ work' = [work EXCEPT ![w] = "flushFull"]
        /\ AtFlush(w)' => current'[o] # None
        /\ \A p \in Ops : p # o => current'[p] = current[p]
    <3>1. CASE FlushedOld(w)
      <4>1. [block |-> Block(w), entries |-> Append(<<>>, w)] \in Buffer
        BY WorkerTypes DEF Buffer
      <4> QED
        BY <3>1, <4>1, <2>1, <1>1, NoneAssumption DEF FlushedOld, Put, Move
    <3>2. CASE FlushedFull(w)
      BY <3>2, <2>1, <1>1 DEF FlushedFull, Move, AtFlush
    <3> QED
      BY <1>10, <3>1, <3>2
  <2>3. \A v \in WorkersOf(o) : v # w => ~AtFlush(v)
    BY <2>1, <1>2 DEF OneHolder
  <2>4. opc[o] # "closing" /\ opc[o] # "ok"
    BY <2>1, <1>2 DEF OneHolder, Finished, AllDone, AtFlush
  <2>5. \A v \in Workers : v # w => work'[v] = work[v]
    BY <2>2, <1>1
  <2>6. OneHolder(o)' /\ Finished(o)'
    BY <2>1, <2>2, <2>3, <2>4, <2>5, <1>3
       DEF OneHolder, Finished, AtFlush, Flushing
  <2>7. ASSUME NEW p \in Ops, p # o PROVE OneHolder(p)' /\ Finished(p)'
    <3>1. \A v \in WorkersOf(p) : work'[v] = work[v]
      BY <2>5, <2>7, <1>3
    <3> QED
      BY <3>1, <2>1, <2>2, <2>7, <1>2
         DEF OneHolder, Finished, AtFlush, Flushing, AllDone, WorkersOf
  <2> QED
    BY <2>6, <2>7 DEF Holders
<1>11. ASSUME NEW o \in Ops, FlushFails(o) PROVE Holders'
  <2>1. /\ \A w \in Workers : work'[w] = IF w[1] = o /\ AtFlush(w) THEN "failed" ELSE work[w]
        /\ opc' = IF opc[o] = "closing" THEN [opc EXCEPT ![o] = "failed"] ELSE opc
        /\ UNCHANGED <<current, err>>
    BY <1>11 DEF FlushFails, AtFlush
  <2> QED
    BY <2>1, <1>1, <1>2, <1>3
       DEF Holders, OneHolder, Finished, Flushing, AtFlush, AllDone
<1>12. ASSUME NEW o \in Ops, NEW e \in BOOLEAN, Close(o, e) PROVE Holders'
  <2>1. /\ ~Flushing(o) /\ err' = [err EXCEPT ![o] = e] /\ (~e => AllDone(o))
        /\ opc' = [opc EXCEPT ![o] = IF current[o] = None THEN Result(e) ELSE "closing"]
        /\ UNCHANGED <<current, work>>
    BY <1>12 DEF Close, Returns, MutexFree
  <2>2. Result(e) # "closing" /\ (Result(e) = "ok" => ~e)
    BY DEF Result
  <2>3. AllDone(o)' = AllDone(o) /\ \A w \in WorkersOf(o) : ~AtFlush(w)'
    BY <2>1 DEF AllDone, Flushing, AtFlush, WorkersOf
  <2>4. OneHolder(o)' /\ Finished(o)'
    BY <2>1, <2>2, <2>3, <1>1 DEF OneHolder, Finished, Flushing, AtFlush
  <2>5. ASSUME NEW p \in Ops, p # o PROVE OneHolder(p)' /\ Finished(p)'
    BY <2>5, <2>1, <1>1, <1>2
       DEF OneHolder, Finished, AtFlush, Flushing, AllDone, WorkersOf
  <2> QED
    BY <2>4, <2>5 DEF Holders
<1>13. ASSUME NEW o \in Ops, Closed(o) PROVE Holders'
  <2>1. /\ opc[o] = "closing" /\ opc' = [opc EXCEPT ![o] = Result(err[o])]
        /\ UNCHANGED <<current, work, err>>
    BY <1>13 DEF Closed
  <2>2. Result(err[o]) # "closing" /\ (Result(err[o]) = "ok" => ~err[o])
    BY DEF Result
  <2> QED
    BY <2>1, <2>2, <1>1, <1>2
       DEF Holders, OneHolder, Finished, AtFlush, Flushing, AllDone, WorkersOf
<1>14. CASE UNCHANGED vars
  BY <1>14, <1>2 DEF vars, Holders, OneHolder, Finished, AtFlush, Flushing,
     AllDone, WorkersOf
<1>15. CASE AllOver
  BY <1>14, <1>15 DEF AllOver
<1> QED
  BY <1>5, <1>6, <1>7, <1>8, <1>9, <1>10, <1>11, <1>12, <1>13, <1>14, <1>15
     DEF Next

-----------------------------------------------------------------------------
(* The entries.                                                            *)

LEMMA BufferTypes ==
  ASSUME TypeOK, NEW o \in Ops, current[o] # None
  PROVE  /\ current[o].block \in Blocks
         /\ current[o].entries \in Seq(WorkersOf(o))
         /\ current[o].entries \in Seq(Workers)
         /\ Len(current[o].entries) \in Nat
         /\ \A k \in 1 .. Len(current[o].entries) :
              /\ k \in Nat /\ k >= 1
              /\ current[o].entries[k] \in WorkersOf(o)
              /\ current[o].entries[k] \in Workers
<1>1. current[o] \in Buffer /\ current[o].entries \in Seq(WorkersOf(o))
  BY DEF TypeOK
<1>2. current[o].block \in Blocks /\ current[o].entries \in Seq(Workers)
  BY <1>1 DEF Buffer
<1> QED
  BY <1>1, <1>2

(* What is buffered is in the file after the flush.                        *)
LEMMA FlushedSafe ==
  ASSUME IInv, NEW o \in Ops, Flushed(o), NEW w \in WorkersOf(o), Buffered(w)
  PROVE  Safe(w)
<1>1. w[1] = o /\ current[o] # None
  BY DEF WorkersOf, Flushed
<1>2. PICK k \in DOMAIN current[o].entries : current[o].entries[k] = w
  BY <1>1 DEF Buffered
<1>3. k \in 1 .. Len(current[o].entries) /\ k \in Nat /\ Len(current[o].entries) \in Nat
  BY <1>1, BufferTypes DEF IInv
<1>4. 2 * k <= written[o]
  BY <1>3 DEF Flushed, Pieces
<1> QED
  BY <1>1, <1>2, <1>3, <1>4 DEF IInv, EntriesGood, Copied

LEMMA Parity ==
  ASSUME NEW n \in Nat
  PROVE  /\ n % 2 # 1 => (n + 1) % 2 = 1
         /\ n % 2 = 1 => (n + 1) % 2 # 1
         /\ n % 2 = 0 \/ n % 2 = 1
         /\ \A k \in Nat : /\ 2 * k = n + 1 => k = n \div 2 + 1 /\ n % 2 # 0
                          /\ 2 * k = n + 2 => k = n \div 2 + 1 /\ n % 2 = 0
<1> DEFINE h == n \div 2  r == n % 2
<1>1. h \in Nat /\ r \in {0, 1} /\ n = 2 * h + r
  OBVIOUS
<1>2. (r # 1 => (n + 1) % 2 = 1) /\ (r = 1 => (n + 1) % 2 # 1)
  OBVIOUS
<1> HIDE DEF h, r
<1>3. \A k \in Nat : /\ 2 * k = n + 1 => k = h + 1 /\ r # 0
                    /\ 2 * k = n + 2 => k = h + 1 /\ r = 0
  BY <1>1
<1> QED
  BY <1>1, <1>2, <1>3 DEF h, r

LEMMA WriteKeeps ==
  ASSUME IInv, NEW o \in Ops, WritePiece(o)
  PROVE  (TypeOK /\ EntriesGood)'
<1>0. PICK b, n, i, w, part :
        /\ b = current[o].block /\ n = written[o] /\ i = n \div 2 + 1
        /\ w = current[o].entries[i] /\ part = IF n % 2 = 0 THEN "hash" ELSE "rest"
  OBVIOUS
<1>1. current[o] # None /\ n \in Nat /\ n < 2 * Len(current[o].entries)
  BY <1>0 DEF WritePiece, IInv, TypeOK, Holders, OneHolder, Pieces
<1>2. /\ b \in Blocks /\ Len(current[o].entries) \in Nat
      /\ current[o].entries \in Seq(WorkersOf(o))
      /\ \A k \in 1 .. Len(current[o].entries) :
           /\ k \in Nat /\ k >= 1
           /\ current[o].entries[k] \in WorkersOf(o) /\ current[o].entries[k] \in Workers
  BY <1>0, <1>1, BufferTypes DEF IInv
<1>3. i \in 1 .. Len(current[o].entries)
  BY <1>0, <1>1, <1>2
<1>4. w \in Workers /\ w \in WorkersOf(o) /\ part \in {"hash", "rest"} /\ w[1] = o
  BY <1>0, <1>2, <1>3 DEF WorkersOf
<1>5. /\ AppendTo(b, <<part, w>>) /\ written' = [written EXCEPT ![o] = n + 1]
      /\ UNCHANGED <<current, opc, err, work, overlap, faults, crashes>>
  BY <1>0 DEF WritePiece, AppendTo
<1>6. Block(w) = b /\ Copied(o) /\ Half(o)
  BY <1>0, <1>1, <1>3 DEF IInv, EntriesGood, OfBlock
<1>7. \A k \in 1 .. Len(current[o].entries) :
        /\ 2 * k = n + 1 => k = i /\ part = "rest"
        /\ 2 * k = n + 2 => k = i /\ part = "hash"
  BY <1>0, <1>1, <1>2, Parity
<1>8. TypeOK'
  <2>1. file' \in [Blocks -> Seq(Piece)]
    <3>1. file[b] \in Seq(Piece) /\ <<part, w>> \in Piece
      BY <1>2, <1>4, FileTypes DEF IInv, Piece
    <3>2. Append(file[b], <<part, w>>) \in Seq(Piece)
      BY <3>1
    <3> QED
      BY <3>2, <1>5 DEF AppendTo, IInv, TypeOK, Piece
  <2>2. written'[o] = n + 1 /\ \A p \in Ops : p # o => written'[p] = written[p]
    BY <1>5 DEF IInv, TypeOK
  <2>3. written' \in [Ops -> Nat]
    BY <1>1, <1>5 DEF IInv, TypeOK
  <2>4. ASSUME NEW p \in Ops, current'[p] # None
        PROVE  current'[p].entries \in Seq(WorkersOf(p)) /\ written'[p] <= Pieces(p)'
    <3>1. CASE p = o
      <4>1. n + 1 <= 2 * Len(current[o].entries)
        BY <1>1, <1>2
      <4> QED
        BY <3>1, <4>1, <2>2, <1>2, <1>5 DEF Pieces
    <3>2. CASE p # o
      BY <3>2, <2>2, <2>4, <1>5 DEF Pieces, IInv, TypeOK
    <3> QED
      BY <3>1, <3>2
  <2> QED
    BY <2>1, <2>3, <2>4, <1>5 DEF IInv, TypeOK, Piece
<1>9. /\ \A c \in Blocks : Torn(c) => Torn(c)'
      /\ \A v \in Workers : Safe(v) => Safe(v)'
  BY <1>2, <1>5, FilesGrow DEF IInv
<1>10. ASSUME NEW v \in Workers PROVE Kept(v)' /\ Stored(v)'
  <2>1. Kept(v) /\ Stored(v) /\ Buffered(v)' = Buffered(v)
    BY <1>5 DEF IInv, EntriesGood, Buffered
  <2> QED
    BY <2>1, <1>5, <1>9 DEF Kept, Stored, Going
<1>11. OfBlock(o)' /\ Copied(o)' /\ Half(o)'
  <2>1. written'[o] = n + 1
    BY <1>5 DEF IInv, TypeOK
  <2>2. OfBlock(o)'
    BY <1>5 DEF IInv, EntriesGood, OfBlock
  <2>3. ASSUME NEW k \in 1 .. Len(current[o].entries), NEW v \in WorkersOf(o),
               v = current[o].entries[k], 2 * k <= n + 1
        PROVE  Safe(v)'
    <3>1. CASE 2 * k <= n
      BY <3>1, <2>3, <1>0, <1>1, <1>6, <1>9 DEF Copied, WorkersOf
    <3>2. CASE 2 * k = n + 1
      <4>1. k = i /\ part = "rest" /\ v = w
        BY <3>2, <1>0, <1>7, <2>3
      <4>2. Torn(b) \/ Len(file[b]) % 2 = 1
        BY <3>2, <1>0, <1>1, <1>2, <1>6 DEF Half
      <4>3. CASE Torn(b)
        BY <4>1, <4>3, <1>2, <1>6, <1>9 DEF Safe
      <4>4. CASE Len(file[b]) % 2 = 1
        BY <4>1, <4>4, <1>2, <1>4, <1>5, <1>6, PairEnds DEF IInv, Safe
      <4> QED
        BY <4>2, <4>3, <4>4
    <3> QED
      BY <2>3, <3>1, <3>2, <1>1, <1>2
  <2>4. Copied(o)'
    BY <2>1, <2>3, <1>5 DEF Copied
  <2>5. ASSUME NEW k \in 1 .. Len(current[o].entries), 2 * k = n + 1 + 1
        PROVE  \/ Torn(b)'
               \/ /\ Len(file'[b]) % 2 = 1
                  /\ file'[b][Len(file'[b])] = <<"hash", current[o].entries[k]>>
    <3>1. k = i /\ part = "hash" /\ current[o].entries[k] = w
      <4>1. 2 * k = n + 2
        BY <2>5, <1>1
      <4> QED
        BY <4>1, <1>0, <1>7
    <3>2. file[b] \in Seq(Piece) /\ Len(file[b]) \in Nat
      BY <1>2, FileTypes DEF IInv
    <3>3. CASE Len(file[b]) % 2 = 1
      BY <3>1, <3>3, <1>2, <1>4, <1>5, PairEnds DEF IInv
    <3>4. CASE Len(file[b]) % 2 # 1
      <4>1. file'[b] = Append(file[b], <<"hash", w>>)
        BY <3>1, <1>2, <1>5 DEF AppendTo, IInv, TypeOK
      <4>2. /\ Len(file'[b]) = Len(file[b]) + 1
            /\ file'[b][Len(file[b]) + 1] = <<"hash", w>>
        BY <3>2, <4>1
      <4>3. (Len(file[b]) + 1) % 2 = 1
        BY <3>2, <3>4, Parity
      <4> QED
        BY <3>1, <4>2, <4>3
    <3> QED
      BY <3>3, <3>4
  <2>6. Half(o)'
    BY <2>1, <2>5, <1>0, <1>5 DEF Half
  <2> QED
    BY <2>2, <2>4, <2>6
<1>12. ASSUME NEW p \in Ops, p # o PROVE OfBlock(p)' /\ Copied(p)' /\ Half(p)'
  <2>1. /\ OfBlock(p) /\ Copied(p) /\ Half(p)
        /\ written'[p] = written[p] /\ current'[p] = current[p]
    BY <1>5, <1>12 DEF IInv, TypeOK, EntriesGood
  <2>2. OfBlock(p)'
    BY <2>1 DEF OfBlock
  <2>3. Copied(p)'
    BY <2>1, <1>9 DEF Copied, WorkersOf
  <2>4. ASSUME current[p] # None, NEW k \in 1 .. Len(current[p].entries), NEW c \in Blocks,
               c = current[p].block, 2 * k = written[p] + 1
        PROVE  \/ Torn(c)'
               \/ /\ Len(file'[c]) % 2 = 1
                  /\ file'[c][Len(file'[c])] = <<"hash", current[p].entries[k]>>
    <3>1. \/ Torn(c)
          \/ /\ Len(file[c]) % 2 = 1
             /\ file[c][Len(file[c])] = <<"hash", current[p].entries[k]>>
      BY <2>1, <2>4 DEF Half
    <3>2. CASE Torn(c)
      BY <3>2, <1>9
    <3>3. CASE ~Torn(c) /\ c # b
      BY <3>1, <3>3, <1>2, <1>5 DEF AppendTo, IInv, TypeOK
    <3>4. CASE ~Torn(c) /\ c = b
      <4>1. current[p].entries[k] \in WorkersOf(p)
        BY <2>4, BufferTypes DEF IInv
      <4>2. current[p].entries[k] # w
        BY <4>1, <1>4, <1>12 DEF WorkersOf
      <4>3. file[b][Len(file[b])] # <<"hash", w>> /\ Len(file[b]) % 2 = 1
        <5>1. /\ Len(file[b]) % 2 = 1
              /\ file[b][Len(file[b])] = <<"hash", current[p].entries[k]>>
          BY <3>1, <3>4
        <5>2. <<"hash", current[p].entries[k]>> # <<"hash", w>>
          BY <4>2
        <5> QED
          BY <5>1, <5>2
      <4> QED
        BY <3>4, <4>3, <1>2, <1>4, <1>5, PairEnds DEF IInv
    <3> QED
      BY <3>2, <3>3, <3>4
  <2>5. Half(p)'
    BY <2>1, <2>4 DEF Half
  <2> QED
    BY <2>2, <2>3, <2>5
<1> QED
  BY <1>8, <1>10, <1>11, <1>12 DEF EntriesGood

LEMMA FaultTypes ==
  ASSUME TypeOK
  PROVE  /\ Fault => faults' \in 0 .. MaxFaults
         /\ UNCHANGED faults => faults' \in 0 .. MaxFaults
         /\ UNCHANGED crashes => crashes' \in 0 .. MaxCrashes
BY BoundsAssumption DEF TypeOK, Fault

LEMMA EntriesStep ==
  ASSUME IInv, [Next]_vars
  PROVE  (TypeOK /\ EntriesGood)'
<1>1. TypeOK /\ EntriesGood
  BY DEF IInv
<1>2. \A w \in Workers : w[1] \in Ops /\ w \in WorkersOf(w[1])
  BY WorkerTypes
<1>3. \A w \in Workers : Kept(w) /\ Stored(w)
  BY <1>1 DEF EntriesGood
<1>4. ASSUME NEW o \in Ops, NewBlockManager(o) PROVE (TypeOK /\ EntriesGood)'
  <2>1. /\ opc' = [opc EXCEPT ![o] = "store"]
        /\ work' = [w \in Workers |-> IF w[1] = o THEN "add" ELSE work[w]]
        /\ overlap' \in BOOLEAN
        /\ UNCHANGED <<file, current, written, err, faults, crashes>>
    BY <1>1, <1>4 DEF NewBlockManager, TypeOK
  <2>2. TypeOK'
    BY <1>1, <2>1 DEF TypeOK, Pieces
  <2>3. \A w \in Workers : Going(w)' => Going(w)
    BY <1>1, <1>2, <2>1 DEF Going, TypeOK
  <2>4. \A w \in Workers : opc'[w[1]] = "ok" => Safe(w)
    BY <1>1, <1>2, <1>3, <2>1 DEF Stored, TypeOK
  <2> QED
    BY <1>1, <2>1, <2>2, <2>3, <2>4, Control DEF TypeOK
<1>5. CASE Crash
  <2>1. /\ opc' = [o \in Ops |-> IF Running(o) THEN "dead" ELSE opc[o]]
        /\ work' = [w \in Workers |-> IF opc[w[1]] = "ok" THEN work[w] ELSE "none"]
        /\ current' = [o \in Ops |-> None] /\ written' = [o \in Ops |-> 0]
        /\ crashes < MaxCrashes /\ crashes' = crashes + 1
        /\ UNCHANGED <<file, err, overlap, faults>>
    BY <1>5 DEF Crash
  <2>2. crashes' \in 0 .. MaxCrashes
    BY <1>1, <2>1, BoundsAssumption DEF TypeOK
  <2>3. TypeOK'
    BY <1>1, <2>1, <2>2 DEF TypeOK
  <2>4. ASSUME NEW w \in Workers PROVE Kept(w)' /\ Stored(w)'
    <3>1. opc'[w[1]] \notin {"store", "closing"} /\ (opc'[w[1]] = "ok" => opc[w[1]] = "ok")
      BY <1>2, <2>1 DEF Running
    <3>2. Safe(w)' = Safe(w)
      BY <2>1, FilesSame
    <3> QED
      BY <1>3, <3>1, <3>2 DEF Kept, Stored, Going
  <2>5. \A o \in Ops : OfBlock(o)' /\ Copied(o)' /\ Half(o)'
    BY <2>1 DEF OfBlock, Copied, Half
  <2> QED
    BY <2>3, <2>4, <2>5 DEF EntriesGood
<1>6. ASSUME NEW w \in Workers, WorkerFails(w) PROVE (TypeOK /\ EntriesGood)'
  <2>1. /\ Fault /\ work' = [work EXCEPT ![w] = "failed"]
        /\ UNCHANGED <<file, current, written, opc, err, overlap, crashes>>
    BY <1>6 DEF WorkerFails, Move
  <2>2. TypeOK'
    BY <1>1, <2>1, FaultTypes DEF TypeOK, Pieces
  <2>3. \A v \in Workers : Going(v)' => Going(v)
    BY <1>1, <2>1 DEF Going, TypeOK
  <2>4. \A v \in Workers : opc'[v[1]] = "ok" => Safe(v)
    BY <1>3, <2>1 DEF Stored
  <2> QED
    BY <1>1, <2>1, <2>2, <2>3, <2>4, Control DEF TypeOK
<1>7. ASSUME NEW w \in Workers, AddChunkMetadata(w) PROVE (TypeOK /\ EntriesGood)'
  <2> DEFINE o == w[1]
  <2>1. o \in Ops /\ UNCHANGED <<file, opc, err, overlap, faults, crashes>>
    BY <1>2, <1>7 DEF AddChunkMetadata
  <2>2. CASE current[o] = None /\ Put(w, <<>>)
    <3>1. \A v \in WorkersOf(o) : ~Buffered(v)
      BY <2>2 DEF Buffered, WorkersOf
    <3>2. <<>> \in Seq(WorkersOf(o)) /\ \A k \in 1 .. Len(<<>>) : FALSE
      OBVIOUS
    <3> QED
      BY <1>1, <2>1, <2>2, <3>1, <3>2, PutKeeps, FaultTypes DEF TypeOK
  <2>3. CASE current[o] # None /\ current[o].block = Block(w) /\ Put(w, current[o].entries)
    <3>1. current[o].entries \in Seq(WorkersOf(o))
      BY <1>1, <2>1, <2>3, BufferTypes
    <3>2. \A k \in 1 .. Len(current[o].entries) : Block(current[o].entries[k]) = Block(w)
      BY <1>1, <2>1, <2>3 DEF EntriesGood, OfBlock
    <3>3. \A v \in WorkersOf(o) : Buffered(v) =>
            \E k \in 1 .. Len(current[o].entries) : current[o].entries[k] = v
      BY <3>1 DEF Buffered, WorkersOf
    <3> QED
      BY <1>1, <2>1, <2>3, <3>1, <3>2, <3>3, PutKeeps, FaultTypes DEF TypeOK
  <2>4. CASE Move(w, "flushOld") /\ written' = [written EXCEPT ![o] = 0] /\ UNCHANGED current
    <3>1. work' = [work EXCEPT ![w] = "flushOld"]
      BY <2>4 DEF Move
    <3>2. \A p \in Ops : written'[p] = written[p] \/ written'[p] = 0
      BY <1>1, <2>1, <2>4 DEF TypeOK
    <3>3. ASSUME NEW p \in Ops, current'[p] # None
          PROVE  current'[p].entries \in Seq(WorkersOf(p)) /\ written'[p] <= Pieces(p)'
      <4>1. current[p].entries \in Seq(WorkersOf(p)) /\ Len(current[p].entries) \in Nat
        BY <1>1, <2>4, <3>3, BufferTypes
      <4> QED
        BY <1>1, <2>4, <3>2, <3>3, <4>1 DEF TypeOK, Pieces
    <3>4. TypeOK'
      BY <1>1, <2>1, <2>4, <3>1, <3>3, FaultTypes DEF TypeOK
    <3>5. \A v \in Workers : Going(v)' => Going(v)
      BY <1>1, <2>1, <3>1 DEF Going, TypeOK
    <3>6. \A v \in Workers : opc'[v[1]] = "ok" => Safe(v)
      BY <1>3, <2>1 DEF Stored
    <3>7. written' \in [Ops -> Nat]
      BY <3>4 DEF TypeOK
    <3> QED
      BY <2>1, <2>4, <3>2, <3>4, <3>5, <3>6, <3>7, Control
  <2> QED
    BY <1>7, <2>2, <2>3, <2>4 DEF AddChunkMetadata
<1>8. ASSUME NEW o \in Ops, WritePiece(o) PROVE (TypeOK /\ EntriesGood)'
  BY <1>8, WriteKeeps
<1>9. ASSUME NEW w \in Workers, FlushedOld(w) PROVE (TypeOK /\ EntriesGood)'
  <2>1. /\ w[1] \in Ops /\ Flushed(w[1]) /\ Put(w, <<>>)
        /\ UNCHANGED <<file, opc, err, overlap, faults, crashes>>
    BY <1>2, <1>9 DEF FlushedOld
  <2>2. <<>> \in Seq(WorkersOf(w[1])) /\ \A k \in 1 .. Len(<<>>) : FALSE
    OBVIOUS
  <2>3. \A v \in WorkersOf(w[1]) : Buffered(v) => Safe(v)
    BY <2>1, FlushedSafe
  <2> QED
    BY <1>1, <2>1, <2>2, <2>3, PutKeeps, FaultTypes DEF TypeOK
<1>10. ASSUME NEW w \in Workers, FlushedFull(w) PROVE (TypeOK /\ EntriesGood)'
  <2> DEFINE o == w[1]
  <2>1. /\ o \in Ops /\ Flushed(o) /\ work[w] = "flushFull"
        /\ work' = [work EXCEPT ![w] = "done"]
        /\ current' = [current EXCEPT ![o] = None]
        /\ written' = [written EXCEPT ![o] = 0]
        /\ UNCHANGED <<file, opc, err, overlap, faults, crashes>>
    BY <1>2, <1>10 DEF FlushedFull, Move
  <2>2. /\ current'[o] = None
        /\ \A p \in Ops : p # o => current'[p] = current[p] /\ written'[p] = written[p]
    BY <1>1, <2>1 DEF TypeOK
  <2>3. \A p \in Ops : current'[p] # None =>
          current'[p].entries \in Seq(WorkersOf(p)) /\ written'[p] <= Pieces(p)'
    BY <1>1, <2>2 DEF TypeOK, Pieces
  <2>4. TypeOK'
    BY <1>1, <2>1, <2>3, FaultTypes DEF TypeOK
  <2>5. /\ \A v \in Workers : Safe(v)' = Safe(v)
        /\ \A b \in Blocks : Torn(b)' = Torn(b)
    BY <2>1, FilesSame
  <2>6. ASSUME NEW p \in Ops PROVE OfBlock(p)' /\ Copied(p)' /\ Half(p)'
    <3>1. CASE p = o
      BY <2>2, <3>1 DEF OfBlock, Copied, Half
    <3>2. CASE p # o
      <4>1. current'[p] = current[p] /\ written'[p] = written[p]
        BY <2>2, <3>2
      <4>2. OfBlock(p)'
        BY <1>1, <4>1 DEF EntriesGood, OfBlock
      <4>3. Copied(p)'
        BY <1>1, <4>1, <2>5 DEF EntriesGood, Copied, WorkersOf
      <4>4. Half(p)'
        <5>1. Half(p) /\ file' = file
          BY <1>1, <2>1 DEF EntriesGood
        <5> QED
          BY <4>1, <2>5, <5>1 DEF Half
      <4> QED
        BY <4>2, <4>3, <4>4
    <3> QED
      BY <3>1, <3>2
  <2>7. ASSUME NEW v \in Workers PROVE Kept(v)' /\ Stored(v)'
    <3>1. Going(v)' => Going(v)
      BY <1>1, <2>1 DEF Going, TypeOK
    <3>2. Buffered(v) => Safe(v) \/ Buffered(v)'
      <4>1. CASE v[1] = o
        BY <1>2, <2>1, <4>1, FlushedSafe
      <4>2. CASE v[1] # o
        BY <1>2, <2>2, <4>2 DEF Buffered
      <4> QED
        BY <4>1, <4>2
    <3> QED
      BY <1>3, <2>1, <2>5, <3>1, <3>2 DEF Kept, Stored
  <2> QED
    BY <2>4, <2>6, <2>7 DEF EntriesGood
<1>11. ASSUME NEW o \in Ops, FlushFails(o) PROVE (TypeOK /\ EntriesGood)'
  <2>1. /\ Fault
        /\ work' = [w \in Workers |->
                      IF w[1] = o /\ work[w] \in {"flushOld", "flushFull"}
                        THEN "failed" ELSE work[w]]
        /\ opc' = IF opc[o] = "closing" THEN [opc EXCEPT ![o] = "failed"] ELSE opc
        /\ written' = [written EXCEPT ![o] = 0]
        /\ UNCHANGED <<file, current, err, overlap, crashes>>
    BY <1>11 DEF FlushFails
  <2>2. \A p \in Ops : written'[p] = written[p] \/ written'[p] = 0
    BY <1>1, <2>1 DEF TypeOK
  <2>3. ASSUME NEW p \in Ops, current'[p] # None
        PROVE  current'[p].entries \in Seq(WorkersOf(p)) /\ written'[p] <= Pieces(p)'
    <3>1. current[p].entries \in Seq(WorkersOf(p)) /\ Len(current[p].entries) \in Nat
      BY <1>1, <2>1, <2>3, BufferTypes
    <3> QED
      BY <1>1, <2>1, <2>2, <2>3, <3>1 DEF TypeOK, Pieces
  <2>4. TypeOK'
    BY <1>1, <2>1, <2>3, FaultTypes DEF TypeOK
  <2>5. \A v \in Workers : Going(v)' => Going(v)
    BY <1>1, <1>2, <2>1 DEF Going, TypeOK
  <2>6. \A v \in Workers : opc'[v[1]] = "ok" => Safe(v)
    BY <1>1, <1>2, <1>3, <2>1 DEF Stored, TypeOK
  <2>7. written' \in [Ops -> Nat]
    BY <2>4 DEF TypeOK
  <2> QED
    BY <2>1, <2>2, <2>4, <2>5, <2>6, <2>7, Control
<1>12. ASSUME NEW o \in Ops, NEW e \in BOOLEAN, Close(o, e) PROVE (TypeOK /\ EntriesGood)'
  <2>1. /\ opc[o] = "store" /\ (~e => AllDone(o)) /\ (Fault \/ UNCHANGED faults)
        /\ err' = [err EXCEPT ![o] = e]
        /\ opc' = [opc EXCEPT ![o] = IF current[o] = None THEN Result(e) ELSE "closing"]
        /\ written' = [written EXCEPT ![o] = 0]
        /\ UNCHANGED <<file, current, work, overlap, crashes>>
    BY <1>12 DEF Close, Returns
  <2>2. \A p \in Ops : written'[p] = written[p] \/ written'[p] = 0
    BY <1>1, <2>1 DEF TypeOK
  <2>3. ASSUME NEW p \in Ops, current'[p] # None
        PROVE  current'[p].entries \in Seq(WorkersOf(p)) /\ written'[p] <= Pieces(p)'
    <3>1. current[p].entries \in Seq(WorkersOf(p)) /\ Len(current[p].entries) \in Nat
      BY <1>1, <2>1, <2>3, BufferTypes
    <3> QED
      BY <1>1, <2>1, <2>2, <2>3, <3>1 DEF TypeOK, Pieces
  <2>4. Result(e) \in {"failed", "ok"} /\ (Result(e) = "ok" => ~e)
    BY DEF Result
  <2>5. TypeOK'
    BY <1>1, <2>1, <2>3, <2>4, FaultTypes DEF TypeOK
  <2>6. \A v \in Workers : Going(v)' => Going(v)
    BY <1>1, <1>2, <2>1 DEF Going, TypeOK
  <2>7. ASSUME NEW v \in Workers, opc'[v[1]] = "ok" PROVE Safe(v)
    <3>1. CASE v[1] = o
      <4>1. current[o] = None /\ AllDone(o)
        BY <1>1, <2>1, <2>4, <2>7, <3>1 DEF TypeOK
      <4>2. Going(v) /\ ~Buffered(v)
        BY <1>2, <2>1, <3>1, <4>1 DEF Going, AllDone, Buffered
      <4> QED
        BY <1>3, <4>2 DEF Kept
    <3>2. CASE v[1] # o
      BY <1>1, <1>2, <1>3, <2>1, <2>7, <3>2 DEF Stored, TypeOK
    <3> QED
      BY <3>1, <3>2
  <2>8. written' \in [Ops -> Nat]
    BY <2>5 DEF TypeOK
  <2> QED
    BY <2>1, <2>2, <2>5, <2>6, <2>7, <2>8, Control
<1>13. ASSUME NEW o \in Ops, Closed(o) PROVE (TypeOK /\ EntriesGood)'
  <2>1. /\ opc[o] = "closing" /\ Flushed(o)
        /\ opc' = [opc EXCEPT ![o] = Result(err[o])]
        /\ written' = [written EXCEPT ![o] = 0]
        /\ UNCHANGED <<file, current, err, work, overlap, faults, crashes>>
    BY <1>13 DEF Closed
  <2>2. \A p \in Ops : written'[p] = written[p] \/ written'[p] = 0
    BY <1>1, <2>1 DEF TypeOK
  <2>3. ASSUME NEW p \in Ops, current'[p] # None
        PROVE  current'[p].entries \in Seq(WorkersOf(p)) /\ written'[p] <= Pieces(p)'
    <3>1. current[p].entries \in Seq(WorkersOf(p)) /\ Len(current[p].entries) \in Nat
      BY <1>1, <2>1, <2>3, BufferTypes
    <3> QED
      BY <1>1, <2>1, <2>2, <2>3, <3>1 DEF TypeOK, Pieces
  <2>4. Result(err[o]) \in {"failed", "ok"} /\ (Result(err[o]) = "ok" => ~err[o])
    BY DEF Result
  <2>5. TypeOK'
    BY <1>1, <2>1, <2>3, <2>4, FaultTypes DEF TypeOK
  <2>6. \A v \in Workers : Going(v)' => Going(v)
    BY <1>1, <1>2, <2>1, <2>4 DEF Going, TypeOK
  <2>7. ASSUME NEW v \in Workers, opc'[v[1]] = "ok" PROVE Safe(v)
    <3>1. CASE v[1] = o
      <4>1. AllDone(o)
        BY <1>1, <2>1, <2>4, <2>7, <3>1 DEF TypeOK, IInv, Holders, Finished
      <4>2. Going(v) /\ v \in WorkersOf(o)
        BY <1>2, <2>1, <3>1, <4>1 DEF Going, AllDone
      <4> QED
        BY <1>3, <2>1, <4>2, FlushedSafe DEF Kept
    <3>2. CASE v[1] # o
      BY <1>1, <1>2, <1>3, <2>1, <2>7, <3>2 DEF Stored, TypeOK
    <3> QED
      BY <3>1, <3>2
  <2>8. written' \in [Ops -> Nat]
    BY <2>5 DEF TypeOK
  <2> QED
    BY <2>1, <2>2, <2>5, <2>6, <2>7, <2>8, Control
<1>14. CASE UNCHANGED vars
  <2>1. UNCHANGED <<file, current, written, opc, err, work, overlap, faults, crashes>>
    BY <1>14 DEF vars
  <2>2. TypeOK'
    BY <1>1, <2>1 DEF TypeOK, Pieces
  <2>3. /\ \A v \in Workers : Going(v)' => Going(v)
        /\ \A v \in Workers : opc'[v[1]] = "ok" => Safe(v)
    BY <1>3, <2>1 DEF Going, Stored
  <2> QED
    BY <1>1, <2>1, <2>2, <2>3, Control DEF TypeOK
<1>15. CASE AllOver
  BY <1>14, <1>15 DEF AllOver
<1> QED
  BY <1>4, <1>5, <1>6, <1>7, <1>8, <1>9, <1>10, <1>11, <1>12, <1>13, <1>14,
     <1>15
     DEF Next

LEMMA InitInvariant == Init => IInv
<1> SUFFICES ASSUME Init PROVE IInv
  OBVIOUS
<1>1. TypeOK
  <2>1. file \in [Blocks -> Seq({"hash", "rest"} \X Workers)]
    <3>1. <<>> \in Seq({"hash", "rest"} \X Workers)
      OBVIOUS
    <3> QED
      BY <3>1 DEF Init
  <2>2. current \in [Ops -> Buffer \cup {None}] /\ \A o \in Ops : current[o] = None
    BY DEF Init
  <2>3. written \in [Ops -> Nat] /\ faults \in 0 .. MaxFaults /\ crashes \in 0 .. MaxCrashes
    BY BoundsAssumption DEF Init
  <2> QED
    BY <2>1, <2>2, <2>3 DEF Init, TypeOK
<1>2. Holders
  BY DEF Init, Holders, OneHolder, Finished, Flushing, AtFlush, WorkersOf
<1>3. \A o \in Ops : OfBlock(o) /\ Copied(o) /\ Half(o)
  BY DEF Init, OfBlock, Copied, Half
<1>4. \A w \in Workers : Kept(w) /\ Stored(w)
  BY WorkerTypes DEF Init, Kept, Stored, Going
<1> QED
  BY <1>1, <1>2, <1>3, <1>4 DEF IInv, EntriesGood

LEMMA StepInvariant == IInv /\ [Next]_vars => IInv'
BY HoldersStep, EntriesStep DEF IInv

(* The invariant: types, one holder of the mutex, and where the entries    *)
(* are, whatever fails, crashes or runs together.                          *)
THEOREM Invariance == Spec => []IInv
BY InitInvariant, StepInvariant, PTL DEF Spec

-----------------------------------------------------------------------------
(* What follows from the invariant.                                        *)

(* Every variable has its type: a manager buffers entries of its own       *)
(* operation only, and a flush never writes more than it has.              *)
THEOREM TypeCorrect == Spec => []TypeOK
<1>1. IInv => TypeOK
  BY DEF IInv
<1> QED
  BY Invariance, <1>1, PTL

(* AddChunkMetadata, flushBlock: the entry of a worker that was told it    *)
(* has been added is in memory or in the file, unless the file is torn.    *)
THEOREM EntriesKept == Spec => []AddedKept
<1>1. IInv => AddedKept
  <2> SUFFICES ASSUME IInv, NEW w \in Workers, work[w] = "done",
                      opc[w[1]] \in {"store", "closing"}
               PROVE  \/ \E k \in Entries(Block(w)) : file[Block(w)][2 * k][2] = w
                      \/ /\ current[w[1]] # None
                         /\ \E k \in DOMAIN current[w[1]].entries :
                              current[w[1]].entries[k] = w
                      \/ Torn(Block(w))
    BY DEF AddedKept
  <2>1. Safe(w) \/ Buffered(w)
    BY DEF IInv, EntriesGood, Kept, Going
  <2> QED
    BY <2>1 DEF Safe, InFile, Buffered
<1> QED
  BY Invariance, <1>1, PTL

(* GetChunkMetadata after BlockManager.Close: each chunk of an operation   *)
(* that succeeded can be looked up, unless its block file is torn.         *)
THEOREM ChunksIndexed == Spec => []Indexed
<1>1. IInv => Indexed
  <2> SUFFICES ASSUME IInv, NEW w \in Workers, opc[w[1]] = "ok", ~Torn(Block(w))
               PROVE  Found(Chunk(w))
    BY DEF Indexed
  <2>1. InFile(w)
    BY DEF IInv, EntriesGood, Stored, Safe
  <2>2. PICK k \in Entries(Block(w)) : file[Block(w)][2 * k][2] = w
    BY <2>1 DEF InFile
  <2>3. \A j \in Entries(Block(w)) : IsEntry(Block(w), j)
    BY DEF Torn
  <2>4. \A j \in 1 .. k : j \in Entries(Block(w))
    <3>1. Len(file[Block(w)]) \in Nat
      BY WorkerTypes, FileTypes DEF IInv
    <3>2. Len(file[Block(w)]) \div 2 \in Nat
      BY <3>1, Halves
    <3>3. \A h \in Nat : \A i \in 1 .. h, j \in Nat : j >= 1 /\ j <= i => j \in 1 .. h
      OBVIOUS
    <3>4. \A i \in Entries(Block(w)) : i \in Nat
      BY <3>2 DEF Entries
    <3>5. \A j \in 1 .. k : j \in Nat /\ j >= 1 /\ j <= k
      BY <3>4
    <3> QED
      BY <3>2, <3>3, <3>5 DEF Entries
  <2> QED
    BY <2>2, <2>3, <2>4 DEF Found, Block
<1> QED
  BY Invariance, <1>1, PTL

-----------------------------------------------------------------------------
(* Without failures, crashes and operations together.                      *)

Calm == faults = 0 /\ crashes = 0 /\ ~overlap

Alone == \A o, p \in Ops : Running(o) /\ Running(p) => o = p
NoTrouble ==
  /\ \A o \in Ops : ~err[o] /\ opc[o] \in {"idle", "store", "closing", "ok"}
  /\ \A w \in Workers :
       /\ work[w] # "failed"
       /\ opc[w[1]] = "idle" => work[w] = "none"

(* An entry that is half written is being written.                         *)
Writes(o) == current[o] # None /\ written[o] % 2 = 1 /\ Flushing(o)
Whole ==
  \A b \in Blocks :
    /\ ~Torn(b)
    /\ Len(file[b]) % 2 = 1 =>
         \E o \in Ops : current[o] # None /\ current[o].block = b /\ Writes(o)

CalmGood == Calm => Alone /\ NoTrouble /\ Whole

LEMMA WritersRun ==
  ASSUME IInv, NoTrouble, NEW o \in Ops, Flushing(o)
  PROVE  Running(o)
<1>1. CASE opc[o] = "closing"
  BY <1>1 DEF Running
<1>2. CASE opc[o] # "closing"
  <2>1. PICK w \in WorkersOf(o) : work[w] \in {"flushOld", "flushFull"}
    BY <1>2 DEF Flushing
  <2>2. w \in Workers /\ w[1] = o
    BY DEF WorkersOf
  <2>3. opc[o] # "ok"
    BY <2>1 DEF IInv, Holders, Finished, AllDone
  <2> QED
    BY <1>2, <2>1, <2>2, <2>3 DEF NoTrouble, Running
<1> QED
  BY <1>1, <1>2

LEMMA WholeSame ==
  ASSUME Whole, file' = file,
         \A o \in Ops : Writes(o) => current'[o] = current[o] /\ Writes(o)'
  PROVE  Whole'
<1>1. \A b \in Blocks : Torn(b)' = Torn(b)
  BY FilesSame
<1> QED
  BY <1>1 DEF Whole

LEMMA WholeWrite ==
  ASSUME IInv, Alone, NoTrouble, Whole, NEW o \in Ops, WritePiece(o)
  PROVE  Whole'
<1>1. /\ current[o] # None /\ Flushing(o) /\ written[o] \in Nat
      /\ written[o] < 2 * Len(current[o].entries)
  BY DEF WritePiece, IInv, TypeOK, Holders, OneHolder, Pieces
<1>2. PICK b, n, i, w, part :
        /\ b = current[o].block /\ n = written[o] /\ i = n \div 2 + 1
        /\ w = current[o].entries[i] /\ part = IF n % 2 = 0 THEN "hash" ELSE "rest"
  OBVIOUS
<1>3. /\ b \in Blocks /\ Len(current[o].entries) \in Nat
      /\ \A k \in 1 .. Len(current[o].entries) : current[o].entries[k] \in Workers
  BY <1>1, <1>2, BufferTypes DEF IInv
<1>4. i \in 1 .. Len(current[o].entries)
  BY <1>1, <1>2, <1>3
<1>5. w \in Workers
  BY <1>2, <1>3, <1>4
<1>6. /\ file' = [file EXCEPT ![b] = Append(@, <<part, w>>)]
      /\ written'[o] = n + 1 /\ UNCHANGED <<current, opc, work>>
  BY <1>2 DEF WritePiece, IInv, TypeOK
<1>7. file[b] \in Seq(Piece) /\ Len(file[b]) \in Nat /\ <<part, w>> \in Piece
  BY <1>2, <1>3, <1>5, FileTypes DEF IInv, Piece
<1>8. file'[b] = Append(file[b], <<part, w>>) /\ \A c \in Blocks : c # b => file'[c] = file[c]
  BY <1>3, <1>6 DEF IInv, TypeOK
<1>9. \A p \in Ops : Writes(p) => p = o
  BY <1>1, WritersRun DEF Writes, Alone
<1>10. \A c \in Blocks : \A k \in Entries(c) : IsEntry(c, k)'
  <2>1. AppendTo(b, <<part, w>>)
    BY <1>6 DEF AppendTo
  <2>2. \A c \in Blocks : \A k \in Entries(c) : IsEntry(c, k)' = IsEntry(c, k)
    BY <1>3, <2>1, FilesGrow DEF IInv
  <2> QED
    BY <2>2 DEF Whole, Torn
<1>11. Half(o)
  BY DEF IInv, EntriesGood
<1>12. ASSUME NEW c \in Blocks PROVE ~Torn(c)'
  <2>1. CASE c # b
    BY <2>1, <1>8, <1>10 DEF Torn, Entries
  <2>2. CASE c = b /\ Len(file[b]) % 2 = 1
    <3>1. PICK p \in Ops : current[p] # None /\ current[p].block = b /\ Writes(p)
      BY <2>2 DEF Whole
    <3>2. n % 2 = 1
      BY <3>1, <1>2, <1>9 DEF Writes
    <3>3. PICK k \in Nat : k >= 1 /\ 2 * k = n + 1
      BY <3>2, <1>1, <1>2, Halves
    <3>4. k = i /\ part = "rest"
      BY <3>2, <3>3, <1>1, <1>2, Parity
    <3>5. file[b][Len(file[b])] = <<"hash", w>>
      BY <2>2, <3>3, <3>4, <1>1, <1>2, <1>3, <1>4, <1>11 DEF Half, Whole
    <3>6. PICK h \in Nat : h >= 1 /\ 2 * h = Len(file[b]) + 1
      BY <2>2, <1>7, Halves
    <3>7. /\ Len(file'[b]) = 2 * h /\ 2 * h - 1 = Len(file[b]) /\ 2 * h - 1 \in 1 .. Len(file[b])
          /\ file'[b][2 * h] = <<"rest", w>> /\ file'[b][2 * h - 1] = <<"hash", w>>
      <4>1. 2 * h - 1 = Len(file[b]) /\ 2 * h - 1 \in 1 .. Len(file[b])
        BY <3>6, <1>7
      <4>2. /\ Len(file'[b]) = Len(file[b]) + 1 /\ file'[b][Len(file[b]) + 1] = <<"rest", w>>
            /\ \A j \in 1 .. Len(file[b]) : file'[b][j] = file[b][j]
        BY <3>4, <1>7, <1>8
      <4> QED
        BY <4>1, <4>2, <3>5, <3>6
    <3>8. ASSUME NEW k1 \in Entries(b)' PROVE IsEntry(b, k1)'
      <4>1. k1 \in Nat /\ k1 >= 1 /\ 2 * k1 <= 2 * h
        BY <3>6, <3>7, Halves DEF Entries
      <4>2. CASE k1 = h
        BY <4>2, <3>6, <3>7 DEF IsEntry
      <4>3. CASE k1 # h
        <5>1. 2 * k1 <= Len(file[b])
          BY <4>1, <4>3, <3>6
        <5>2. k1 \in Entries(b)
          BY <4>1, <5>1, <1>7, Halves DEF Entries
        <5> QED
          BY <5>2, <1>3, <1>10
      <4> QED
        BY <4>2, <4>3
    <3> QED
      BY <2>2, <3>8 DEF Torn
  <2>3. CASE c = b /\ Len(file[b]) % 2 # 1
    <3>1. Len(file'[b]) = Len(file[b]) + 1
      BY <1>7, <1>8
    <3>2. ASSUME NEW k \in Entries(b)' PROVE k \in Entries(b)
      <4>1. k \in Nat /\ k >= 1 /\ 2 * k <= Len(file[b]) + 1
        <5>1. Len(file'[b]) \in Nat
          BY <3>1, <1>7
        <5> QED
          BY <3>1, <5>1, Halves DEF Entries
      <4>2. 2 * k # Len(file[b]) + 1
        <5>1. \A m, j \in Nat : 2 * j = m + 1 => m % 2 # 0
          BY Parity
        <5>2. Len(file[b]) % 2 = 0 \/ Len(file[b]) % 2 = 1
          BY <1>7, Parity
        <5> QED
          BY <4>1, <5>1, <5>2, <2>3, <1>7
      <4>3. 2 * k <= Len(file[b])
        BY <4>1, <4>2, <1>7
      <4> QED
        BY <4>1, <4>3, <1>7, Halves DEF Entries
    <3> QED
      BY <2>3, <3>2, <1>3, <1>10 DEF Torn
  <2> QED
    BY <2>1, <2>2, <2>3
<1>13. ASSUME NEW c \in Blocks, Len(file'[c]) % 2 = 1
       PROVE  \E p \in Ops : current'[p] # None /\ current'[p].block = c /\ Writes(p)'
  <2>1. CASE c # b
    <3>1. PICK p \in Ops : current[p] # None /\ current[p].block = c /\ Writes(p)
      BY <2>1, <1>8, <1>13 DEF Whole
    <3> QED
      BY <2>1, <3>1, <1>2, <1>9
  <2>2. CASE c = b
    <3>1. Len(file'[b]) = Len(file[b]) + 1
      BY <1>7, <1>8
    <3>2. Len(file[b]) % 2 # 1
      BY <2>2, <3>1, <1>7, <1>13, Parity
    <3>3. n % 2 # 1
      <4> SUFFICES ASSUME n % 2 = 1 PROVE FALSE
        OBVIOUS
      <4>1. PICK k \in Nat : k >= 1 /\ 2 * k = n + 1
        BY <1>1, <1>2, Halves
      <4>2. k = i
        BY <4>1, <1>1, <1>2, Parity
      <4> QED
        BY <3>2, <4>1, <4>2, <1>1, <1>2, <1>3, <1>4, <1>11 DEF Half, Whole
    <3>4. written'[o] % 2 = 1
      BY <3>3, <1>1, <1>2, <1>6, Parity
    <3>5. Flushing(o)'
      BY <1>1, <1>6 DEF Flushing, WorkersOf
    <3> QED
      BY <2>2, <3>4, <3>5, <1>1, <1>2, <1>6 DEF Writes
  <2> QED
    BY <2>1, <2>2
<1> QED
  BY <1>12, <1>13 DEF Whole

LEMMA CalmStep ==
  ASSUME IInv, CalmGood, [Next]_vars
  PROVE  CalmGood'
<1> SUFFICES ASSUME Calm' PROVE (Alone /\ NoTrouble /\ Whole)'
  BY DEF CalmGood
<1>1. TypeOK /\ Holders /\ faults \in Nat /\ crashes \in Nat /\ overlap \in BOOLEAN
  BY BoundsAssumption DEF IInv, TypeOK
<1>2. ~Fault /\ ~Crash /\ (UNCHANGED <<faults, crashes, overlap>> => Calm)
  BY <1>1 DEF Calm, Fault, Crash
<1>3. Calm => Alone /\ NoTrouble /\ Whole
  BY DEF CalmGood
<1>4. \A w \in Workers : w[1] \in Ops /\ w \in WorkersOf(w[1])
  BY WorkerTypes
<1>5. \A o \in Ops : \A w \in WorkersOf(o) : w \in Workers /\ w[1] = o
  BY DEF WorkersOf
<1>6. \A o \in Ops : Flushed(o) => ~Writes(o)
  <2>1. ASSUME NEW o \in Ops, Flushed(o) PROVE written[o] % 2 = 0
    <3>1. Len(current[o].entries) \in Nat /\ written[o] = 2 * Len(current[o].entries)
      BY <1>1, <2>1, BufferTypes DEF Flushed, Pieces
    <3>2. /\ Len(current[o].entries) + 1 \in Nat /\ written[o] \in Nat
          /\ 2 * (Len(current[o].entries) + 1) = written[o] + 2
      BY <3>1
    <3>3. \A k \in Nat : 2 * k = written[o] + 2 => written[o] % 2 = 0
      BY <3>2, Parity
    <3> QED
      BY <3>2, <3>3
  <2> QED
    BY <2>1 DEF Writes
<1>7. ASSUME NEW o \in Ops, NewBlockManager(o) PROVE (Alone /\ NoTrouble /\ Whole)'
  <2>1. /\ opc[o] = "idle" /\ opc' = [opc EXCEPT ![o] = "store"]
        /\ work' = [w \in Workers |-> IF w[1] = o THEN "add" ELSE work[w]]
        /\ overlap' = (overlap \/ \E p \in Ops : Running(p))
        /\ UNCHANGED <<file, current, written, err, faults, crashes>>
    BY <1>7 DEF NewBlockManager
  <2>2. Calm /\ \A p \in Ops : ~Running(p)
    BY <1>1, <2>1 DEF Calm
  <2>3. Alone'
    BY <1>1, <2>1, <2>2 DEF Alone, Running, TypeOK
  <2>4. NoTrouble'
    BY <1>1, <1>3, <1>4, <2>1, <2>2 DEF NoTrouble, TypeOK
  <2>5. \A p \in Ops : ~Writes(p)
    BY <1>3, <2>2, WritersRun DEF Writes
  <2> QED
    BY <1>3, <2>1, <2>2, <2>3, <2>4, <2>5, WholeSame
<1>8. ASSUME NEW w \in Workers, AddChunkMetadata(w) PROVE (Alone /\ NoTrouble /\ Whole)'
  <2>1. /\ work[w] = "add" /\ ~Flushing(w[1])
        /\ UNCHANGED <<file, opc, err, overlap, faults, crashes>>
    BY <1>8 DEF AddChunkMetadata, MutexFree
  <2>2. /\ \E l \in {"done", "flushFull", "flushOld"} : work' = [work EXCEPT ![w] = l]
        /\ \A p \in Ops : p # w[1] => current'[p] = current[p] /\ written'[p] = written[p]
    <3>1. \A entries : Put(w, entries) =>
            /\ work' = [work EXCEPT ![w] = "done"] \/ work' = [work EXCEPT ![w] = "flushFull"]
            /\ \A p \in Ops : p # w[1] => current'[p] = current[p] /\ written'[p] = written[p]
      BY <1>1, <1>4 DEF Put, Move, TypeOK
    <3> QED
      BY <1>1, <1>4, <1>8, <3>1 DEF AddChunkMetadata, Move, TypeOK
  <2>3. Calm
    BY <1>2, <2>1
  <2>4. \A v \in Workers : v # w => work'[v] = work[v]
    BY <1>1, <2>2 DEF TypeOK
  <2>5. Alone'
    BY <1>3, <2>1, <2>3 DEF Alone, Running
  <2>6. NoTrouble'
    <3>1. work'[w] # "failed" /\ opc[w[1]] # "idle"
      BY <1>1, <1>3, <2>1, <2>2, <2>3 DEF NoTrouble, TypeOK
    <3> QED
      BY <3>1, <1>3, <2>1, <2>3, <2>4 DEF NoTrouble
  <2>7. ASSUME NEW p \in Ops, Writes(p) PROVE current'[p] = current[p] /\ Writes(p)'
    <3>1. p # w[1] /\ \A v \in WorkersOf(p) : work'[v] = work[v]
      BY <1>5, <2>1, <2>4, <2>7 DEF Writes
    <3>2. current'[p] = current[p] /\ written'[p] = written[p]
      BY <2>2, <3>1
    <3>3. Flushing(p)'
      BY <2>1, <2>7, <3>1 DEF Writes, Flushing, WorkersOf
    <3> QED
      BY <2>7, <3>2, <3>3 DEF Writes
  <2> QED
    BY <1>3, <2>1, <2>3, <2>5, <2>6, <2>7, WholeSame
<1>9. ASSUME NEW o \in Ops, WritePiece(o) PROVE (Alone /\ NoTrouble /\ Whole)'
  <2>1. UNCHANGED <<current, opc, err, work, overlap, faults, crashes>>
    BY <1>9 DEF WritePiece
  <2>2. Calm
    BY <1>2, <2>1
  <2>3. Alone' /\ NoTrouble'
    BY <1>3, <2>1, <2>2 DEF Alone, NoTrouble, Running
  <2> QED
    BY <1>3, <1>9, <2>2, <2>3, WholeWrite
<1>10. ASSUME NEW w \in Workers, FlushedOld(w) \/ FlushedFull(w)
       PROVE  (Alone /\ NoTrouble /\ Whole)'
  <2>1. /\ AtFlush(w) /\ Flushed(w[1])
        /\ UNCHANGED <<file, opc, err, overlap, faults, crashes>>
        /\ \A p \in Ops : p # w[1] => current'[p] = current[p] /\ written'[p] = written[p]
    BY <1>1, <1>4, <1>10 DEF FlushedOld, FlushedFull, Put, AtFlush, TypeOK
  <2>2. work' = [work EXCEPT ![w] = "done"] \/ work' = [work EXCEPT ![w] = "flushFull"]
    BY <1>10 DEF FlushedOld, FlushedFull, Put, Move
  <2>3. Calm
    BY <1>2, <2>1
  <2>4. \A v \in Workers : v # w => work'[v] = work[v]
    BY <1>1, <2>2 DEF TypeOK
  <2>5. Alone'
    BY <1>3, <2>1, <2>3 DEF Alone, Running
  <2>6. NoTrouble'
    <3>1. work'[w] # "failed" /\ opc[w[1]] # "idle"
      BY <1>1, <1>3, <2>1, <2>2, <2>3 DEF NoTrouble, TypeOK, AtFlush
    <3> QED
      BY <3>1, <1>3, <2>1, <2>3, <2>4 DEF NoTrouble
  <2>7. ASSUME NEW p \in Ops, Writes(p) PROVE current'[p] = current[p] /\ Writes(p)'
    <3>1. p # w[1] /\ \A v \in WorkersOf(p) : work'[v] = work[v]
      BY <1>5, <1>6, <2>1, <2>4, <2>7
    <3>2. current'[p] = current[p] /\ written'[p] = written[p]
      BY <2>1, <3>1
    <3>3. Flushing(p)'
      BY <2>1, <2>7, <3>1 DEF Writes, Flushing, WorkersOf
    <3> QED
      BY <2>7, <3>2, <3>3 DEF Writes
  <2> QED
    BY <1>3, <2>1, <2>3, <2>5, <2>6, <2>7, WholeSame
<1>11. ASSUME NEW o \in Ops, NEW e \in BOOLEAN, Close(o, e)
       PROVE  (Alone /\ NoTrouble /\ Whole)'
  <2>1. /\ opc[o] = "store" /\ ~Flushing(o) /\ Returns(o, e)
        /\ err' = [err EXCEPT ![o] = e]
        /\ opc' = [opc EXCEPT ![o] = IF current[o] = None THEN Result(e) ELSE "closing"]
        /\ written' = [written EXCEPT ![o] = 0]
        /\ UNCHANGED <<file, current, work, overlap, crashes>>
    BY <1>11 DEF Close, MutexFree
  <2>2. UNCHANGED faults /\ (e => SomeFailed(o))
    BY <1>2, <2>1 DEF Returns
  <2>3. Calm
    BY <1>2, <2>1, <2>2
  <2>4. ~e /\ Result(e) = "ok"
    BY <1>3, <1>5, <2>2, <2>3 DEF SomeFailed, NoTrouble, Result
  <2>5. Alone'
    BY <1>1, <1>3, <2>1, <2>3 DEF Alone, Running, TypeOK
  <2>6. NoTrouble'
    BY <1>1, <1>3, <1>4, <2>1, <2>3, <2>4 DEF NoTrouble, TypeOK
  <2>7. ASSUME NEW p \in Ops, Writes(p) PROVE current'[p] = current[p] /\ Writes(p)'
    BY <1>1, <2>1, <2>7 DEF Writes, Flushing, TypeOK, WorkersOf
  <2> QED
    BY <1>3, <2>1, <2>3, <2>5, <2>6, <2>7, WholeSame
<1>12. ASSUME NEW o \in Ops, Closed(o) PROVE (Alone /\ NoTrouble /\ Whole)'
  <2>1. /\ opc[o] = "closing" /\ Flushed(o)
        /\ opc' = [opc EXCEPT ![o] = Result(err[o])]
        /\ written' = [written EXCEPT ![o] = 0]
        /\ UNCHANGED <<file, current, err, work, overlap, faults, crashes>>
    BY <1>12 DEF Closed
  <2>2. Calm
    BY <1>2, <2>1
  <2>3. Result(err[o]) = "ok"
    BY <1>3, <2>2 DEF NoTrouble, Result
  <2>4. Alone'
    BY <1>1, <1>3, <2>1, <2>2, <2>3 DEF Alone, Running, TypeOK
  <2>5. NoTrouble'
    BY <1>1, <1>3, <1>4, <2>1, <2>2, <2>3 DEF NoTrouble, TypeOK
  <2>6. ASSUME NEW p \in Ops, Writes(p) PROVE current'[p] = current[p] /\ Writes(p)'
    <3>1. p # o
      BY <1>6, <2>1, <2>6
    <3> QED
      BY <1>1, <2>1, <2>6, <3>1 DEF Writes, Flushing, TypeOK, WorkersOf
  <2> QED
    BY <1>3, <2>1, <2>2, <2>4, <2>5, <2>6, WholeSame
<1>13. CASE UNCHANGED vars
  <2>1. UNCHANGED <<file, current, written, opc, err, work, overlap, faults, crashes>>
    BY <1>13 DEF vars
  <2>2. Calm
    BY <1>2, <2>1
  <2>3. Alone' /\ NoTrouble'
    BY <1>3, <2>1, <2>2 DEF Alone, NoTrouble, Running
  <2>4. \A p \in Ops : Writes(p) => current'[p] = current[p] /\ Writes(p)'
    BY <2>1 DEF Writes, Flushing, WorkersOf
  <2> QED
    BY <1>3, <2>1, <2>2, <2>3, <2>4, WholeSame
<1>14. CASE AllOver
  BY <1>13, <1>14 DEF AllOver
<1>15. /\ \A w \in Workers : ~WorkerFails(w)
       /\ \A o \in Ops : ~FlushFails(o)
  BY <1>2 DEF WorkerFails, FlushFails
<1> QED
  BY <1>2, <1>7, <1>8, <1>9, <1>10, <1>11, <1>12, <1>13, <1>14, <1>15 DEF Next

LEMMA InitCalm == Init => CalmGood
<1> SUFFICES ASSUME Init PROVE Alone /\ NoTrouble /\ Whole
  BY DEF CalmGood
<1>1. Alone
  BY DEF Init, Alone, Running
<1>2. NoTrouble
  BY WorkerTypes DEF Init, NoTrouble
<1>3. \A b \in Blocks : file[b] = <<>> /\ Len(file[b]) = 0
  BY DEF Init
<1>4. \A b \in Blocks : Entries(b) = {}
  <2>1. \A k \in 1 .. 0 \div 2 : k \in Nat /\ k >= 1 /\ 2 * k <= 0
    BY Halves
  <2>2. \A k \in 1 .. 0 \div 2 : FALSE
    BY <2>1
  <2> QED
    BY <1>3, <2>2 DEF Entries
<1>5. 0 % 2 # 1
  OBVIOUS
<1>6. Whole
  BY <1>3, <1>4, <1>5 DEF Whole, Torn
<1> QED
  BY <1>1, <1>2, <1>6

(* flushBlock under bm.mutex: as long as no call fails, the process does   *)
(* not crash and operations come one after the other, every block file is  *)
(* made of whole entries.                                                  *)
THEOREM WholeWithoutTrouble == Spec => []TornByTroubleOnly
<1>1. CalmGood => TornByTroubleOnly
  BY DEF CalmGood, Calm, Whole, TornByTroubleOnly
<1>2. IInv /\ CalmGood /\ [Next]_vars => CalmGood'
  BY CalmStep
<1> QED
  BY <1>1, <1>2, InitCalm, Invariance, PTL DEF Spec
=============================================================================
