--------------------------- MODULE RestoreProofs ---------------------------
(***************************************************************************)
(* Proofs about Restore, for every chunk size, image and range: a regular  *)
(* range is restored byte for byte, and any other one comes out whole with *)
(* less than a chunk behind it.  Then about ContainerCache, for every      *)
(* layout of the containers: with the cache a file is restored as without  *)
(* it, and the cache keeps to its limit.                                   *)
(***************************************************************************)
EXTENDS ContainerCache, SequenceTheorems, FiniteSetTheorems, TLAPS

(* Until the last chunk is written, the output is what lies between the    *)
(* start of the range and the next chunk.                                  *)
Progress ==
  /\ restoreIndex = dbstart => out = <<>>
  /\ restoreIndex # dbstart => restoreIndex >= dbstart + ChonkSize
  /\ restoreIndex # dbstart /\ restoreIndex < end
       => out = Bytes(start, restoreIndex)

(* After it, the output is right up to the size of the range.              *)
Result ==
  restoreIndex >= end =>
    /\ Len(out) >= size /\ Len(out) < size + ChonkSize
    /\ SubSeq(out, 1, size) = Wanted
    /\ Regular => out = Wanted

Outcome ==
  /\ status = "panic" => ~Regular
  /\ status = "done" => restoreIndex >= end

IInv == TypeOK /\ Progress /\ Result /\ Outcome

-----------------------------------------------------------------------------
(* Runs of bytes: their length and elements, their parts, and how two of   *)
(* them join.                                                              *)

(* A run of bytes is the sequence it looks like.                           *)
LEMMA BytesRun ==
  ASSUME NEW p \in Int, NEW q \in Int, p <= q
  PROVE  /\ Bytes(p, q) \in Seq(Int)
         /\ Len(Bytes(p, q)) = q - p
         /\ DOMAIN Bytes(p, q) = 1 .. q - p
         /\ \A k \in 1 .. q - p : Bytes(p, q)[k] = p + k - 1
<1>1. q - p \in Nat
  OBVIOUS
<1>2. \A k \in 1 .. q - p : p + k - 1 \in Int
  OBVIOUS
<1> QED BY <1>1, <1>2 DEF Bytes

(* Slicing a run of bytes gives a run of bytes.                            *)
LEMMA BytesSlice ==
  ASSUME NEW p \in Int, NEW q \in Int, NEW r \in Int, NEW s \in Int,
         p <= r, r <= s, s <= q
  PROVE  SubSeq(Bytes(p, q), r - p + 1, s - p) = Bytes(r, s)
<1>1. PICK b : b = Bytes(p, q)
  OBVIOUS
<1>2. PICK c : c = Bytes(r, s)
  OBVIOUS
<1>3. b \in Seq(Int) /\ Len(b) = q - p
      /\ \A k \in 1 .. q - p : b[k] = p + k - 1
  <2>1. p <= q
    OBVIOUS
  <2> QED BY <1>1, <2>1, BytesRun
<1>4. c \in Seq(Int) /\ Len(c) = s - r
      /\ \A k \in 1 .. s - r : c[k] = r + k - 1
  BY <1>2, BytesRun
<1>5. SubSeq(b, r - p + 1, s - p) \in Seq(Int)
      /\ Len(SubSeq(b, r - p + 1, s - p)) = s - r
  BY <1>3
<1>6. ASSUME NEW k \in 1 .. s - r
      PROVE  SubSeq(b, r - p + 1, s - p)[k] = c[k]
  <2>1. k + r - p \in 1 .. q - p
    OBVIOUS
  <2>2. SubSeq(b, r - p + 1, s - p)[k] = b[k + r - p]
    BY <1>3
  <2> QED BY <1>3, <1>4, <2>1, <2>2
<1>7. SubSeq(b, r - p + 1, s - p) = c
  BY <1>4, <1>5, <1>6, SeqEqual
<1> QED BY <1>1, <1>2, <1>7

(* Adjacent runs of bytes join to one run.                                 *)
LEMMA BytesJoin ==
  ASSUME NEW p \in Int, NEW q \in Int, NEW r \in Int, p <= q, q <= r
  PROVE  Bytes(p, q) \o Bytes(q, r) = Bytes(p, r)
<1>1. PICK b : b = Bytes(p, q)
  OBVIOUS
<1>2. PICK c : c = Bytes(q, r)
  OBVIOUS
<1>3. PICK d : d = Bytes(p, r)
  OBVIOUS
<1>4. b \in Seq(Int) /\ Len(b) = q - p
      /\ \A k \in 1 .. q - p : b[k] = p + k - 1
  BY <1>1, BytesRun
<1>5. c \in Seq(Int) /\ Len(c) = r - q
      /\ \A k \in 1 .. r - q : c[k] = q + k - 1
  BY <1>2, BytesRun
<1>6. d \in Seq(Int) /\ Len(d) = r - p
      /\ \A k \in 1 .. r - p : d[k] = p + k - 1
  <2>1. p <= r
    OBVIOUS
  <2> QED BY <1>3, <2>1, BytesRun
<1>7. b \o c \in Seq(Int) /\ Len(b \o c) = r - p
  BY <1>4, <1>5
<1>8. ASSUME NEW k \in 1 .. r - p
      PROVE  (b \o c)[k] = d[k]
  <2>1. CASE k <= q - p
    <3>1. k \in 1 .. Len(b) /\ k \in 1 .. q - p
      BY <1>4, <2>1
    <3>2. (b \o c)[k] = b[k]
      BY <1>4, <1>5, <3>1
    <3>3. b[k] = p + k - 1 /\ d[k] = p + k - 1
      BY <1>4, <1>6, <3>1
    <3> QED BY <3>2, <3>3
  <2>2. CASE k > q - p
    <3>1. (b \o c)[k] = c[k - (q - p)]
      <4>1. Len(b) \in Int /\ Len(c) \in Int /\ k \in Int
            /\ Len(b) + 1 <= k /\ k <= Len(b) + Len(c)
        BY <1>4, <1>5, <2>2
      <4>2. (b \o c)[k] = c[k - Len(b)]
        <5>1. b \in Seq(Int) /\ c \in Seq(Int)
          BY <1>4, <1>5
        <5> QED BY <4>1, <5>1
      <4> QED BY <1>4, <4>2
    <3>2. k - (q - p) \in 1 .. r - q
      BY <2>2
    <3>3. c[k - (q - p)] = q + (k - (q - p)) - 1
      BY <1>5, <3>2
    <3>4. d[k] = p + k - 1
      BY <1>6
    <3> QED BY <3>1, <3>3, <3>4
  <2>3. k <= q - p \/ k > q - p
    OBVIOUS
  <2> QED BY <2>1, <2>2, <2>3
<1>9. b \o c = d
  BY <1>6, <1>7, <1>8, SeqEqual
<1> QED BY <1>1, <1>2, <1>3, <1>9

-----------------------------------------------------------------------------
(* Offsets of chunks.                                                      *)

(* GetDBStartOffset rounds down to a multiple of ChonkSize.                *)
LEMMA RoundsDown ==
  ASSUME NEW s \in Nat
  PROVE  /\ GetDBStartOffset(s) \in Nat
         /\ GetDBStartOffset(s) <= s
         /\ s < GetDBStartOffset(s) + ChonkSize
BY ChonkSizeAssumption DEF GetDBStartOffset

(* An image of whole chunks that is longer than a chunk's offset holds all *)
(* of that chunk.                                                          *)
LEMMA WholeChunks ==
  ASSUME NEW s \in Nat, NEW n \in Nat, s < n, n % ChonkSize = 0
  PROVE  GetDBStartOffset(s) + ChonkSize <= n
<1> DEFINE i == s \div ChonkSize
           j == n \div ChonkSize
<1>1. i \in Int /\ j \in Int /\ ChonkSize \in Nat \ {0}
  BY ChonkSizeAssumption
<1>2. i * ChonkSize <= s /\ s < n /\ n = j * ChonkSize
  BY ChonkSizeAssumption
<1> HIDE DEF i, j
<1>3. i < j
  BY <1>1, <1>2
<1>4. (i + 1) * ChonkSize <= j * ChonkSize
  BY <1>1, <1>3
<1>5. i * ChonkSize + ChonkSize <= n
  BY <1>1, <1>2, <1>4
<1> QED BY <1>5 DEF i, GetDBStartOffset

-----------------------------------------------------------------------------
(* What GetChonkData returns for the chunks of a range.                    *)

(* The state's numbers, and where the first chunk lies.                    *)
LEMMA Offsets ==
  ASSUME TypeOK
  PROVE  /\ ChonkSize \in Nat \ {0}
         /\ image \in Nat /\ start \in Nat /\ size \in Nat /\ end \in Nat
         /\ restoreIndex \in Nat /\ dbstart \in Nat
         /\ start < image /\ end = start + size /\ end <= image
         /\ dbstart <= start /\ start < dbstart + ChonkSize
<1>1. image \in Nat /\ start \in Nat /\ size \in Nat /\ restoreIndex \in Nat
      /\ start < image /\ start + size <= image
  BY ImagesAssumption DEF TypeOK
<1>2. end \in Nat /\ end = start + size
  BY <1>1 DEF end
<1> QED BY <1>1, <1>2, RoundsDown, ChonkSizeAssumption DEF dbstart

(* The end of a chunk that starts within the image.                        *)
LEMMA ChonkEnds ==
  ASSUME TypeOK, restoreIndex < end
  PROVE  /\ ChonkEnd(restoreIndex) \in Nat
         /\ restoreIndex < ChonkEnd(restoreIndex)
         /\ ChonkEnd(restoreIndex) <= restoreIndex + ChonkSize
         /\ ChonkEnd(restoreIndex) <= image
         /\ ChonkEnd(restoreIndex) < restoreIndex + ChonkSize
              => ChonkEnd(restoreIndex) = image
BY Offsets DEF ChonkEnd

(* In the first chunk the data starts where the range does.                *)
LEMMA FirstFromStart ==
  ASSUME TypeOK, restoreIndex < end, restoreIndex = dbstart,
         start < ChonkEnd(restoreIndex)
  PROVE  FromStart = Bytes(start, ChonkEnd(restoreIndex))
<1>0. restoreIndex \in Int /\ ChonkEnd(restoreIndex) \in Int
      /\ restoreIndex <= ChonkEnd(restoreIndex)
  BY Offsets, ChonkEnds
<1>1. Len(ChonkNode(restoreIndex)) = ChonkEnd(restoreIndex) - restoreIndex
  BY <1>0, BytesRun DEF ChonkNode
<1>2. SubSeq(ChonkNode(restoreIndex), start - restoreIndex + 1,
             ChonkEnd(restoreIndex) - restoreIndex)
        = Bytes(start, ChonkEnd(restoreIndex))
  <2>1. start \in Int /\ restoreIndex <= start
    BY Offsets
  <2> QED
    BY <1>0, <2>1, BytesSlice DEF ChonkNode
<1> QED BY <1>1, <1>2 DEF FromStart

(* The first chunk yields the range from its start, up to the end of the   *)
(* range or of the chunk; the one case with anything else behind it is not *)
(* a regular one.                                                          *)
LEMMA FirstChonk ==
  ASSUME TypeOK, restoreIndex < end, restoreIndex = dbstart
  PROVE  \/ /\ restoreIndex + ChonkSize <= end
            /\ GetChonkData = Bytes(start, restoreIndex + ChonkSize)
            /\ WithinSlice
         \/ /\ restoreIndex + ChonkSize > end
            /\ GetChonkData = Bytes(start, end)
            /\ WithinSlice
         \/ /\ restoreIndex + ChonkSize > end /\ ~Regular
            /\ \E n \in 0 .. ChonkSize - 1 :
                 GetChonkData = Bytes(start, end) \o [k \in 1 .. n |-> Junk]
<1> DEFINE ce == ChonkEnd(restoreIndex)
<1>1. /\ ChonkSize \in Nat \ {0}
      /\ image \in Nat /\ start \in Nat /\ size \in Nat /\ end \in Nat
      /\ restoreIndex \in Nat
      /\ start < image /\ end = start + size /\ end <= image
      /\ restoreIndex <= start /\ start < restoreIndex + ChonkSize
  BY Offsets
<1>2. ce \in Nat /\ restoreIndex < ce /\ ce <= restoreIndex + ChonkSize
      /\ ce <= image /\ (ce < restoreIndex + ChonkSize => ce = image)
  BY ChonkEnds
<1>3. FromStart = Bytes(start, ce) /\ start < ce
  BY <1>1, <1>2, FirstFromStart
<1> HIDE DEF ce
<1>4. Len(FromStart) = ce - start
  <2>1. start \in Int /\ ce \in Int /\ start <= ce
    BY <1>1, <1>2, <1>3
  <2>2. Len(Bytes(start, ce)) = ce - start
    BY <2>1, BytesRun
  <2> QED BY <1>3, <2>2
<1>5. CASE size < ce - start
  <2>1. Kept = size
    BY <1>4, <1>5 DEF Kept
  <2>2. GetChonkData = SubSeq(Bytes(start, ce), 1, size)
    BY <1>1, <1>3, <1>4, <1>5, <2>1 DEF GetChonkData, WithinSlice
  <2>3. SubSeq(Bytes(start, ce), start - start + 1, end - start)
          = Bytes(start, end)
    BY <1>1, <1>2, <1>5, BytesSlice
  <2>4. start - start + 1 = 1 /\ end - start = size
    BY <1>1
  <2>5. GetChonkData = Bytes(start, end)
    BY <2>2, <2>3, <2>4
  <2> QED BY <1>1, <1>2, <1>4, <1>5, <2>1, <2>5 DEF WithinSlice
<1>6. CASE size >= ce - start /\ restoreIndex + ChonkSize <= end
  <2>1. ce = restoreIndex + ChonkSize
    BY <1>1, <1>2, <1>6
  <2>2. Kept = ce - start
    BY <1>1, <1>2, <1>4, <1>6 DEF Kept
  <2>3. GetChonkData = SubSeq(Bytes(start, ce), 1, ce - start)
    BY <1>1, <1>2, <1>3, <1>4, <2>2 DEF GetChonkData, WithinSlice
  <2>4. SubSeq(Bytes(start, ce), start - start + 1, ce - start)
          = Bytes(start, ce)
    BY <1>1, <1>2, <1>3, BytesSlice
  <2>5. start - start + 1 = 1
    BY <1>1
  <2>6. GetChonkData = Bytes(start, ce)
    BY <2>3, <2>4, <2>5
  <2> QED BY <1>1, <1>2, <1>4, <1>6, <2>1, <2>2, <2>6 DEF WithinSlice
<1>7. CASE size >= ce - start /\ restoreIndex + ChonkSize > end
  <2>1. ce = image /\ end = image
    BY <1>1, <1>2, <1>7
  <2>2. Kept = end - restoreIndex
    BY <1>1, <1>2, <1>4, <1>7 DEF Kept
  <2>3. CASE start = restoreIndex
    <3>1. GetChonkData = SubSeq(Bytes(start, end), 1, end - start)
      BY <1>1, <1>2, <1>3, <1>4, <2>1, <2>2, <2>3 DEF GetChonkData, WithinSlice
    <3>2. SubSeq(Bytes(start, end), start - start + 1, end - start)
            = Bytes(start, end)
      BY <1>1, BytesSlice
    <3>3. start - start + 1 = 1
      BY <1>1
    <3>4. GetChonkData = Bytes(start, end)
      BY <3>1, <3>2, <3>3
    <3> QED BY <1>1, <1>4, <1>7, <2>1, <2>2, <2>3, <3>4 DEF WithinSlice
  <2>4. CASE start # restoreIndex
    <3>1. Kept - Len(FromStart) = start - restoreIndex
          /\ Kept > Len(FromStart)
      BY <1>1, <1>2, <1>4, <2>1, <2>2, <2>4
    <3>2. GetChonkData
            = Bytes(start, end) \o [k \in 1 .. start - restoreIndex |-> Junk]
      <4>1. ~(Kept <= Len(FromStart))
        BY <1>1, <1>2, <1>4, <2>2, <3>1
      <4>2. FromStart = Bytes(start, end)
        BY <1>3, <2>1
      <4> QED BY <3>1, <4>1, <4>2 DEF GetChonkData, WithinSlice
    <3>3. start - restoreIndex \in 0 .. ChonkSize - 1
      BY <1>1
    <3>4. ~Regular
      <4>1. start # dbstart /\ size < ChonkSize /\ ~(end < image)
        BY <1>1, <1>2, <1>7, <2>1, <2>4
      <4>2. image % ChonkSize # 0
        <5>1. SUFFICES ASSUME image % ChonkSize = 0 PROVE FALSE
          OBVIOUS
        <5>2. dbstart + ChonkSize <= image
          BY <1>1, <5>1, WholeChunks DEF dbstart
        <5> QED BY <1>1, <1>7, <2>1, <5>2
      <4> QED BY <1>1, <4>1, <4>2 DEF Regular
    <3>5. \E n \in 0 .. ChonkSize - 1 :
            GetChonkData = Bytes(start, end) \o [k \in 1 .. n |-> Junk]
      BY <3>2, <3>3
    <3>6. restoreIndex + ChonkSize > end
      BY <1>7
    <3> QED BY <3>4, <3>5, <3>6
  <2> QED BY <2>3, <2>4
<1>8. \/ size < ce - start
      \/ size >= ce - start /\ restoreIndex + ChonkSize <= end
      \/ size >= ce - start /\ restoreIndex + ChonkSize > end
  BY <1>1, <1>2
<1> QED BY <1>5, <1>6, <1>7, <1>8, Zenon

(* Any later chunk yields the rest of the range, or all of itself; where   *)
(* it yields more than the rest, the range is not a regular one.           *)
LEMMA LaterChonk ==
  ASSUME TypeOK, restoreIndex < end, restoreIndex >= dbstart + ChonkSize
  PROVE  /\ WithinSlice
         /\ \/ /\ restoreIndex + ChonkSize <= end
               /\ GetChonkData = Bytes(restoreIndex, restoreIndex + ChonkSize)
            \/ /\ restoreIndex + ChonkSize > end
               /\ GetChonkData = Bytes(restoreIndex, end)
            \/ /\ restoreIndex + ChonkSize > end /\ ~Regular
               /\ restoreIndex + size < end + ChonkSize
               /\ GetChonkData = Bytes(restoreIndex, restoreIndex + size)
               /\ end <= restoreIndex + size
               /\ restoreIndex + size <= image
<1> DEFINE ce == ChonkEnd(restoreIndex)
<1>1. /\ ChonkSize \in Nat \ {0}
      /\ image \in Nat /\ start \in Nat /\ size \in Nat /\ end \in Nat
      /\ restoreIndex \in Nat /\ dbstart \in Nat
      /\ start < image /\ end = start + size /\ end <= image
      /\ dbstart <= start /\ start < dbstart + ChonkSize
  BY Offsets
<1>2. ce \in Nat /\ restoreIndex < ce /\ ce <= restoreIndex + ChonkSize
      /\ ce <= image /\ (ce < restoreIndex + ChonkSize => ce = image)
  BY ChonkEnds
<1>3. FromStart = Bytes(restoreIndex, ce)
  BY <1>1 DEF FromStart, ChonkNode
<1> HIDE DEF ce
<1>4. Len(FromStart) = ce - restoreIndex
  <2>1. restoreIndex \in Int /\ ce \in Int /\ restoreIndex <= ce
    BY <1>1, <1>2
  <2>2. Len(Bytes(restoreIndex, ce)) = ce - restoreIndex
    BY <2>1, BytesRun
  <2> QED BY <1>3, <2>2
<1>5. ASSUME NEW n \in Nat, Kept = n, n <= ce - restoreIndex
      PROVE  GetChonkData = Bytes(restoreIndex, restoreIndex + n)
  <2>1. GetChonkData = SubSeq(Bytes(restoreIndex, ce), 1, n)
    BY <1>3, <1>4, <1>5 DEF GetChonkData, WithinSlice
  <2>2. SubSeq(Bytes(restoreIndex, ce), restoreIndex - restoreIndex + 1,
               (restoreIndex + n) - restoreIndex)
          = Bytes(restoreIndex, restoreIndex + n)
    BY <1>1, <1>2, <1>5, BytesSlice
  <2>3. restoreIndex - restoreIndex + 1 = 1
        /\ (restoreIndex + n) - restoreIndex = n
    BY <1>1
  <2> QED BY <2>1, <2>2, <2>3
<1>6. CASE size < ce - restoreIndex
  <2>1. Kept = size /\ Kept <= Len(FromStart)
    BY <1>1, <1>2, <1>4, <1>6 DEF Kept
  <2>2. GetChonkData = Bytes(restoreIndex, restoreIndex + size)
    BY <1>1, <1>2, <1>5, <1>6, <2>1
  <2>3. restoreIndex + ChonkSize > end /\ end <= restoreIndex + size
        /\ restoreIndex + size < end + ChonkSize /\ restoreIndex + size <= image
    BY <1>1, <1>2, <1>6
  <2>4. start # dbstart /\ size < ChonkSize /\ ~(end <= dbstart + ChonkSize)
    BY <1>1, <1>2, <1>6
  <2>5. ~Regular
    BY <1>1, <2>4 DEF Regular
  <2> QED BY <2>1, <2>2, <2>3, <2>5 DEF WithinSlice
<1>7. CASE size >= ce - restoreIndex /\ restoreIndex + ChonkSize > end
  <2>1. Kept = end - restoreIndex /\ end - restoreIndex <= ce - restoreIndex
        /\ end - restoreIndex \in Nat
    BY <1>1, <1>2, <1>4, <1>7 DEF Kept
  <2>2. GetChonkData = Bytes(restoreIndex, restoreIndex + (end - restoreIndex))
    BY <1>5, <2>1
  <2>3. restoreIndex + (end - restoreIndex) = end
    BY <1>1
  <2> QED BY <1>4, <1>7, <2>1, <2>2, <2>3 DEF WithinSlice
<1>8. CASE size >= ce - restoreIndex /\ restoreIndex + ChonkSize <= end
  <2>1. ce = restoreIndex + ChonkSize
    BY <1>1, <1>2, <1>8
  <2>2. Kept = ChonkSize /\ ce - restoreIndex = ChonkSize
    BY <1>1, <1>2, <1>4, <1>8, <2>1 DEF Kept
  <2>3. GetChonkData = Bytes(restoreIndex, restoreIndex + ChonkSize)
    <3>1. ChonkSize \in Nat /\ ChonkSize <= ce - restoreIndex
      BY <1>1, <2>2
    <3> QED BY <1>5, <2>2, <3>1
  <2> QED BY <1>1, <1>4, <1>8, <2>2, <2>3 DEF WithinSlice
<1> QED BY <1>1, <1>2, <1>6, <1>7, <1>8

-----------------------------------------------------------------------------
(* The output at the end.                                                  *)

(* A sequence is the beginning of itself, and of what it is continued to.  *)
LEMMA Beginning ==
  ASSUME NEW S, NEW s \in Seq(S), NEW t \in Seq(S)
  PROVE  SubSeq(s \o t, 1, Len(s)) = s
<1>1. s \o t \in Seq(S) /\ Len(s \o t) = Len(s) + Len(t)
      /\ Len(s) \in Nat /\ Len(t) \in Nat
      /\ \A k \in 1 .. Len(s) : (s \o t)[k] = s[k]
  BY ConcatProperties, LenProperties
<1>2. SubSeq(s \o t, 1, Len(s)) \in Seq(S)
      /\ Len(SubSeq(s \o t, 1, Len(s))) = Len(s)
      /\ \A k \in 1 .. Len(s) : SubSeq(s \o t, 1, Len(s))[k] = (s \o t)[k]
  BY <1>1
<1> QED BY <1>1, <1>2, SeqEqual

(* The bytes of a part of the image are bytes of the image.                *)
LEMMA BytesOfImage ==
  ASSUME NEW p \in Nat, NEW q \in Nat, p <= q, image \in Nat, q <= image
  PROVE  Bytes(p, q) \in Seq(0 .. image - 1 \cup {Junk})
<1>1. q - p \in Nat /\ \A k \in 1 .. q - p : p + k - 1 \in 0 .. image - 1
  OBVIOUS
<1>2. Bytes(p, q) \in [1 .. q - p -> 0 .. image - 1 \cup {Junk}]
  BY <1>1 DEF Bytes
<1> QED BY <1>1, <1>2

(* Junk is accounted for in the type of the output.                        *)
LEMMA JunkRun ==
  ASSUME NEW n \in Nat
  PROVE  /\ [k \in 1 .. n |-> Junk] \in Seq(0 .. image - 1 \cup {Junk})
         /\ Len([k \in 1 .. n |-> Junk]) = n
OBVIOUS

(* Init establishes the invariant: a range that needs no chunk is empty.   *)
LEMMA InitIInv == Init => IInv
<1> SUFFICES ASSUME Init PROVE IInv
  OBVIOUS
<1>1. image \in Images /\ start \in 0 .. image - 1
      /\ size \in 0 .. image - start /\ restoreIndex = dbstart
      /\ out = <<>> /\ status = "running"
  BY DEF Init
<1>2. start \in Nat /\ image \in Nat /\ size \in Nat
  BY <1>1, ImagesAssumption
<1>3. dbstart \in Nat /\ dbstart <= start
  BY <1>2, RoundsDown DEF dbstart
<1>4. TypeOK
  BY <1>1, <1>3 DEF TypeOK
<1>5. Progress
  BY <1>1 DEF Progress
<1>6. Result
  <2>1. SUFFICES ASSUME restoreIndex >= end PROVE Result
    BY DEF Result
  <2>2. size = 0 /\ end = start
    BY <1>1, <1>2, <1>3, <2>1 DEF end
  <2>3. Bytes(start, start) = <<>>
    <3>1. Bytes(start, start) \in Seq(Int) /\ Len(Bytes(start, start)) = 0
      BY <1>2, BytesRun
    <3> QED BY <3>1, EmptySeq
  <2>4. out = Wanted
    BY <1>1, <2>2, <2>3 DEF Wanted
  <2>5. Len(out) = 0 /\ SubSeq(out, 1, size) = out
    BY <1>1, <2>2
  <2>6. Len(out) >= size /\ Len(out) < size + ChonkSize
    BY <2>2, <2>5, ChonkSizeAssumption
  <2> QED BY <2>4, <2>5, <2>6 DEF Result
<1>7. Outcome
  BY <1>1 DEF Outcome
<1> QED BY <1>4, <1>5, <1>6, <1>7 DEF IInv

(* One round of the loop keeps the invariant.                              *)
LEMMA RestoreChonkIInv ==
  ASSUME IInv, RestoreChonk
  PROVE  IInv'
<1>1. /\ status = "running" /\ restoreIndex < end
      /\ out' = out \o GetChonkData
      /\ restoreIndex' = restoreIndex + ChonkSize
      /\ image' = image /\ start' = start /\ size' = size /\ status' = status
  BY DEF RestoreChonk, range
<1>2. TypeOK /\ Progress
  BY DEF IInv
<1>3. /\ ChonkSize \in Nat \ {0}
      /\ image \in Nat /\ start \in Nat /\ size \in Nat /\ end \in Nat
      /\ restoreIndex \in Nat /\ dbstart \in Nat
      /\ start < image /\ end = start + size /\ end <= image
      /\ dbstart <= start /\ start < dbstart + ChonkSize
  BY <1>2, Offsets
<1>4. end' = end /\ dbstart' = dbstart /\ Wanted' = Wanted
      /\ (Regular' <=> Regular)
  BY <1>1 DEF end, dbstart, Wanted, Regular
<1> DEFINE OutType == Seq(0 .. image - 1 \cup {Junk})
           next == restoreIndex + ChonkSize
(* What the output is after the round, in both cases.                      *)
<1>5. \/ next <= end /\ out' = Bytes(start, next)
      \/ next > end /\ out' = Bytes(start, end)
      \/ /\ next > end /\ ~Regular
         /\ \E rest \in OutType :
              Len(rest) < ChonkSize /\ out' = Bytes(start, end) \o rest
  <2>1. CASE restoreIndex = dbstart
    <3>1. out = <<>>
      BY <1>2, <2>1 DEF Progress
    <3>2. CASE next <= end /\ GetChonkData = Bytes(start, next)
      <4>1. Bytes(start, next) \in Seq(Int)
        BY <1>3, <2>1, BytesRun
      <4>2. out' = Bytes(start, next)
        BY <1>1, <3>1, <3>2, <4>1, ConcatEmptySeq
      <4> QED BY <3>2, <4>2
    <3>3. CASE next > end /\ GetChonkData = Bytes(start, end)
      <4>1. Bytes(start, end) \in Seq(Int)
        BY <1>3, BytesRun
      <4>2. out' = Bytes(start, end)
        BY <1>1, <3>1, <3>3, <4>1, ConcatEmptySeq
      <4> QED BY <3>3, <4>2
    <3>4. ASSUME next > end, ~Regular,
                 NEW n \in 0 .. ChonkSize - 1,
                 GetChonkData = Bytes(start, end) \o [k \in 1 .. n |-> Junk]
          PROVE  \E rest \in OutType :
                   Len(rest) < ChonkSize /\ out' = Bytes(start, end) \o rest
      <4>1. PICK rest : rest = [k \in 1 .. n |-> Junk]
        OBVIOUS
      <4>2. n \in Nat /\ n < ChonkSize
        BY <1>3
      <4>3. rest \in OutType /\ Len(rest) = n
        BY <4>1, <4>2, JunkRun
      <4>4. Bytes(start, end) \in OutType
        BY <1>3, BytesOfImage
      <4>5. Bytes(start, end) \o rest \in OutType
        BY <4>3, <4>4, ConcatProperties
      <4>6. out' = Bytes(start, end) \o rest
        BY <1>1, <3>1, <3>4, <4>1, <4>5, ConcatEmptySeq
      <4> QED BY <4>2, <4>3, <4>6
    <3>5. \/ next <= end /\ GetChonkData = Bytes(start, next)
          \/ next > end /\ GetChonkData = Bytes(start, end)
          \/ /\ next > end /\ ~Regular
             /\ \E n \in 0 .. ChonkSize - 1 :
                  GetChonkData = Bytes(start, end) \o [k \in 1 .. n |-> Junk]
      BY <1>1, <1>2, <2>1, FirstChonk, Zenon
    <3> QED BY <3>2, <3>3, <3>4, <3>5, Zenon
  <2>2. CASE restoreIndex # dbstart
    <3>1. restoreIndex >= dbstart + ChonkSize /\ out = Bytes(start, restoreIndex)
      BY <1>1, <1>2, <2>2 DEF Progress
    <3>2. start <= restoreIndex
      BY <1>3, <3>1
    <3>3. CASE next <= end /\ GetChonkData = Bytes(restoreIndex, next)
      <4>1. Bytes(start, restoreIndex) \o Bytes(restoreIndex, next)
              = Bytes(start, next)
        BY <1>3, <3>2, BytesJoin
      <4> QED BY <1>1, <3>1, <3>3, <4>1
    <3>4. CASE next > end /\ GetChonkData = Bytes(restoreIndex, end)
      <4>1. Bytes(start, restoreIndex) \o Bytes(restoreIndex, end)
              = Bytes(start, end)
        BY <1>1, <1>3, <3>2, BytesJoin
      <4> QED BY <1>1, <3>1, <3>4, <4>1
    <3>5. ASSUME next > end, ~Regular,
                 restoreIndex + size < end + ChonkSize,
                 GetChonkData = Bytes(restoreIndex, restoreIndex + size),
                 end <= restoreIndex + size, restoreIndex + size <= image
          PROVE  \E rest \in OutType :
                   Len(rest) < ChonkSize /\ out' = Bytes(start, end) \o rest
      <4>1. PICK last : last = restoreIndex + size
        OBVIOUS
      <4>2. last \in Nat /\ end <= last /\ restoreIndex <= last
            /\ start <= end /\ last - end < ChonkSize
        BY <1>3, <3>5, <4>1
      <4>3. out' = Bytes(start, last)
        <5>1. Bytes(start, restoreIndex) \o Bytes(restoreIndex, last)
                = Bytes(start, last)
          BY <1>3, <3>2, <4>2, BytesJoin
        <5> QED BY <1>1, <3>1, <3>5, <4>1, <5>1
      <4>4. Bytes(start, end) \o Bytes(end, last) = Bytes(start, last)
        <5>1. start \in Int /\ end \in Int /\ last \in Int
          BY <1>3, <4>2
        <5> QED BY <4>2, <5>1, BytesJoin
      <4>5. Bytes(end, last) \in OutType
        <5>1. last <= image
          BY <3>5, <4>1
        <5> QED BY <1>3, <4>2, <5>1, BytesOfImage
      <4>6. Len(Bytes(end, last)) = last - end
        <5>1. end \in Int /\ last \in Int
          BY <1>3, <4>2
        <5> QED BY <4>2, <5>1, BytesRun
      <4> QED BY <4>2, <4>3, <4>4, <4>5, <4>6
    <3>6. \/ next <= end /\ GetChonkData = Bytes(restoreIndex, next)
          \/ next > end /\ GetChonkData = Bytes(restoreIndex, end)
          \/ /\ next > end /\ ~Regular
             /\ restoreIndex + size < end + ChonkSize
             /\ GetChonkData = Bytes(restoreIndex, restoreIndex + size)
             /\ end <= restoreIndex + size /\ restoreIndex + size <= image
      BY <1>1, <1>2, <3>1, LaterChonk, Zenon
    <3> QED BY <3>3, <3>4, <3>5, <3>6, Zenon
  <2> QED BY <2>1, <2>2
<1>6. restoreIndex' = next /\ next \in Nat /\ next # dbstart
      /\ next >= dbstart + ChonkSize /\ start <= next
  <2>1. restoreIndex >= dbstart
    BY <1>2, <1>3 DEF Progress
  <2> QED BY <1>1, <1>3, <2>1
<1>7. TypeOK'
  <2>1. next <= end => Bytes(start, next) \in OutType
    BY <1>3, <1>6, BytesOfImage
  <2>2. Bytes(start, end) \in OutType
    BY <1>3, BytesOfImage
  <2>3. \A rest \in OutType : Bytes(start, end) \o rest \in OutType
    BY <2>2, ConcatProperties
  <2>4. out' \in OutType
    BY <1>5, <2>1, <2>2, <2>3
  <2> QED BY <1>1, <1>2, <1>6, <2>4 DEF TypeOK
<1>8. Progress'
  <2>1. next < end => out' = Bytes(start, next)
    BY <1>3, <1>5
  <2> QED BY <1>1, <1>4, <1>6, <2>1 DEF Progress
<1>9. Result'
  <2> SUFFICES ASSUME next >= end
               PROVE  /\ Len(out') >= size /\ Len(out') < size + ChonkSize
                      /\ SubSeq(out', 1, size) = Wanted
                      /\ Regular => out' = Wanted
    BY <1>1, <1>4, <1>6 DEF Result
  <2>1. Wanted = Bytes(start, end) /\ Wanted \in OutType /\ Len(Wanted) = size
    <3>1. Wanted = Bytes(start, end)
      BY DEF Wanted
    <3>2. Bytes(start, end) \in OutType
      BY <1>3, BytesOfImage
    <3>3. Len(Bytes(start, end)) = end - start
      <4>1. start \in Int /\ end \in Int /\ start <= end
        BY <1>3
      <4> QED BY <4>1, BytesRun
    <3>4. end - start = size
      BY <1>3
    <3> QED BY <3>1, <3>2, <3>3, <3>4
  <2>2. CASE out' = Wanted
    <3>1. SubSeq(Wanted \o <<>>, 1, Len(Wanted)) = Wanted
      BY <2>1, Beginning
    <3>2. Wanted \o <<>> = Wanted
      BY <2>1, ConcatEmptySeq
    <3> QED BY <1>3, <2>1, <2>2, <3>1, <3>2
  <2>3. ASSUME ~Regular, NEW rest \in OutType, Len(rest) < ChonkSize,
               out' = Wanted \o rest
        PROVE  /\ Len(out') >= size /\ Len(out') < size + ChonkSize
               /\ SubSeq(out', 1, size) = Wanted
    <3>1. Len(out') = size + Len(rest) /\ Len(rest) \in Nat
      BY <2>1, <2>3, ConcatProperties, LenProperties
    <3>2. SubSeq(out', 1, size) = Wanted
      BY <2>1, <2>3, Beginning
    <3> QED BY <1>3, <2>3, <3>1, <3>2
  <2>4. next <= end => next = end
    BY <1>3
  <2> QED BY <1>5, <2>1, <2>2, <2>3, <2>4
<1>10. Outcome'
  BY <1>1 DEF Outcome
<1> QED BY <1>7, <1>8, <1>9, <1>10 DEF IInv

(* So do the three ways it ends; it panics only for irregular ranges.        *)
LEMMA EndIInv ==
  ASSUME IInv, SlicePanics \/ ChonkFails \/ Finish
  PROVE  IInv'
<1>1. /\ out' = out /\ restoreIndex' = restoreIndex
      /\ image' = image /\ start' = start /\ size' = size
  BY DEF SlicePanics, ChonkFails, Finish, range
<1>2. end' = end /\ dbstart' = dbstart /\ Wanted' = Wanted
      /\ (Regular' <=> Regular)
  BY <1>1 DEF end, dbstart, Wanted, Regular
<1>3. status' \in {"done", "failed", "panic"}
  BY DEF SlicePanics, ChonkFails, Finish
<1>4. TypeOK' /\ Progress' /\ Result'
  BY <1>1, <1>2, <1>3 DEF IInv, TypeOK, Progress, Result
<1>5. CASE SlicePanics
  <2>1. status' = "panic" /\ restoreIndex < end /\ ~WithinSlice
    BY <1>5 DEF SlicePanics
  <2>2. restoreIndex = dbstart
    BY <2>1, LaterChonk DEF IInv, Progress
  <2>3. ~Regular
    BY <2>1, <2>2, FirstChonk DEF IInv
  <2> QED BY <1>2, <1>4, <2>1, <2>3 DEF IInv, Outcome
<1>6. CASE Finish
  BY <1>1, <1>2, <1>4, <1>6 DEF Finish, IInv, Outcome
<1>7. CASE ChonkFails
  BY <1>1, <1>2, <1>4, <1>7 DEF ChonkFails, IInv, Outcome
<1> QED BY <1>5, <1>6, <1>7

LEMMA StepIInv == IInv /\ [Next]_vars => IInv'
<1>. SUFFICES ASSUME IInv, [Next]_vars PROVE IInv'
  OBVIOUS
<1>1. CASE RestoreChonk
  BY <1>1, RestoreChonkIInv
<1>2. CASE SlicePanics \/ ChonkFails \/ Finish
  BY <1>2, EndIInv
<1>3. CASE UNCHANGED vars
  BY <1>3 DEF vars, range, IInv, TypeOK, Progress, Result, Outcome, end,
     dbstart, Wanted, Regular
<1>4. QED  BY <1>1, <1>2, <1>3 DEF Next

(* The invariant holds in every reachable state.                           *)
THEOREM Invariance == Spec => []IInv
<1> QED BY InitIInv, StepIInv, PTL DEF Spec

(* A range that starts at a chunk, is no smaller than one, or lies within  *)
(* one (and not at the end of a short one) is restored byte for byte.      *)
THEOREM RegularSafe == Spec => []RegularRestored
<1>1. IInv => RegularRestored
  BY DEF IInv, Outcome, Result, RegularRestored
<1> QED BY <1>1, Invariance, PTL

(* Whatever the range, restoreData that ends has written all of it, with   *)
(* less than a chunk of other bytes behind it.                             *)
THEOREM WholeRangeSafe == Spec => []NothingLost
<1>1. IInv => NothingLost
  BY DEF IInv, Outcome, Result, NothingLost
<1> QED BY <1>1, Invariance, PTL

-----------------------------------------------------------------------------
(* The cache of decompressed containers.                                   *)

(* With the chunk it wants, GetChonkData cuts what Restore's cuts.         *)
LEMMA SameChonk ==
  Chonk(restoreIndex)!GetChonkData = GetChonkData
  /\ (Chonk(restoreIndex)!WithinSlice <=> WithinSlice)
BY DEF Chonk!GetChonkData, Chonk!WithinSlice, Chonk!Kept, Chonk!FromStart, Chonk!ChonkNode, Chonk!end, Chonk!dbstart, Chonk!GetDBStartOffset, Chonk!Bytes, Chonk!ChonkEnd, GetChonkData, WithinSlice, Kept, FromStart, ChonkNode, end, dbstart, GetDBStartOffset, Bytes, ChonkEnd

(* Where chunks start, and that containers hold every chunk of an image.   *)
ChonkOffsets == {n * ChonkSize : n \in Nat}

LEMMA ChunksStored ==
  \A l \in Layouts, im \in Images : \A at \in ChonkOffsets :
    at < im => \E p \in Paths : \E i \in DOMAIN l.content[p] :
                 l.content[p][i] = at
<1>. SUFFICES ASSUME NEW l \in Layouts, NEW im \in Images,
                     NEW n \in Nat, n * ChonkSize < im
              PROVE  \E p \in Paths : \E i \in DOMAIN l.content[p] :
                       l.content[p][i] = n * ChonkSize
  BY DEF ChonkOffsets
<1>1. n <= n * ChonkSize
  BY ChonkSizeAssumption
<1>2. n \in 0 .. im
  BY <1>1, ImagesAssumption, ChonkSizeAssumption
<1>3. QED  BY <1>2, LayoutsAssumption

(* What has been decompressed or read is the chunk to be written next.     *)
CacheInv ==
  /\ layout \in Layouts /\ restoreIndex \in ChonkOffsets
  /\ loaded # None => /\ loaded = path /\ got = None /\ restoreIndex < end
                      /\ Compressed(path)
  /\ got # None => got = restoreIndex /\ restoreIndex < end

LEMMA OffsetsFollow ==
  ASSUME NEW at \in ChonkOffsets PROVE at + ChonkSize \in ChonkOffsets
<1>1. PICK n \in Nat : at = n * ChonkSize
  BY DEF ChonkOffsets
<1>2. ChonkSize \in Nat
  BY ChonkSizeAssumption
<1>3. at + ChonkSize = (n + 1) * ChonkSize
  BY <1>1, <1>2
<1>4. QED  BY <1>3 DEF ChonkOffsets

LEMMA StartsAtOffset ==
  ASSUME NEW s \in Nat PROVE GetDBStartOffset(s) \in ChonkOffsets
<1>1. s \div ChonkSize \in Nat
  BY ChonkSizeAssumption
<1>2. QED  BY <1>1 DEF GetDBStartOffset, ChonkOffsets

(* The chunk at its offset in its container is the one that is wanted.     *)
LEMMA ExtractsWanted ==
  ASSUME TypeOK, CacheInv, restoreIndex < end
  PROVE  Extract(path) = restoreIndex
<1>1. restoreIndex < image
  BY Offsets
<1>2. \E p \in Paths : \E i \in DOMAIN layout.content[p] :
        layout.content[p][i] = restoreIndex
  BY <1>1, ChunksStored DEF CacheInv, TypeOK
<1>3. \E i \in DOMAIN layout.content[PathOf(restoreIndex)] :
        layout.content[PathOf(restoreIndex)][i] = restoreIndex
  BY <1>2 DEF PathOf
<1>4. layout.content[PathOf(restoreIndex)][OffsetOf(restoreIndex)]
        = restoreIndex
  BY <1>3 DEF OffsetOf
<1>5. QED  BY <1>4 DEF Extract, path

LEMMA CacheInit ==
  ASSUME CachedInit PROVE CacheInv
<1>1. start \in Nat
  BY ImagesAssumption DEF CachedInit, Init
<1>2. restoreIndex \in ChonkOffsets
  BY <1>1, StartsAtOffset DEF CachedInit, Init, dbstart
<1>3. QED  BY <1>2 DEF CachedInit, CacheInv

(* A step with the cache is a step of restoreData without it, or nothing   *)
(* that it would notice.                                                   *)
LEMMA CacheStep ==
  ASSUME TypeOK, CacheInv, [CachedNext]_cachedVars
  PROVE  CacheInv' /\ [Next]_vars
<1>1. CASE ReadPlain \/ Hit
  <2>1. UNCHANGED <<vars, layout, loaded>> /\ got' = restoreIndex
        /\ restoreIndex < end
    BY <1>1, ExtractsWanted DEF ReadPlain, Hit, Reading, Wants
  <2>2. loaded = None
    BY <1>1 DEF ReadPlain, Hit, Wants, CacheInv
  <2>3. QED  BY <2>1, <2>2 DEF CacheInv, vars, range, end
<1>2. CASE Load
  BY <1>2 DEF Load, Reading, Wants, CacheInv, vars, range, end, path, PathOf,
     Compressed
<1>3. CASE Keep \/ ReadDisk
  <2>1. /\ UNCHANGED <<vars, layout>> /\ got' = Extract(loaded)
        /\ loaded # None /\ loaded' = None
    BY <1>3 DEF Keep, ReadDisk, TooLarge, Loaded
  <2>2. got' = restoreIndex /\ restoreIndex < end
    BY <2>1, ExtractsWanted DEF CacheInv
  <2>3. QED  BY <2>1, <2>2 DEF CacheInv, vars, range, end
<1>4. CASE Decompress \/ Disable
  BY <1>4 DEF Decompress, Disable, CacheInv, vars, range, end, path, PathOf,
     Compressed
<1>5. CASE WriteChonk
  <2>1. got = restoreIndex /\ restoreIndex < end /\ loaded = None
    BY <1>5 DEF WriteChonk, CacheInv
  <2>2. out' = out \o GetChonkData
    BY <1>5, <2>1, SameChonk DEF WriteChonk
  <2>3. RestoreChonk
    BY <1>5, <2>1, <2>2 DEF WriteChonk, RestoreChonk
  <2>4. restoreIndex' \in ChonkOffsets
    BY <1>5, OffsetsFollow DEF WriteChonk, CacheInv
  <2>5. CacheInv'
    BY <1>5, <2>1, <2>4 DEF WriteChonk, CacheInv
  <2>6. QED  BY <2>3, <2>5 DEF Next
<1>6. CASE WritePanics
  <2>1. got = restoreIndex /\ restoreIndex < end
    BY <1>6 DEF WritePanics, CacheInv
  <2>2. ~WithinSlice
    BY <1>6, <2>1, SameChonk DEF WritePanics
  <2>3. SlicePanics
    BY <1>6, <2>1, <2>2 DEF WritePanics, SlicePanics
  <2>4. CacheInv'
    BY <1>6 DEF WritePanics, CacheInv, range, end, path, PathOf, Compressed
  <2>5. QED  BY <2>3, <2>4 DEF Next
<1>7. CASE AnyFails \/ AllWritten
  BY <1>7 DEF AnyFails, AllWritten, ChonkFails, Finish, Next, CacheInv, range,
     end, path, PathOf, Compressed
<1>8. CASE UNCHANGED cachedVars
  BY <1>8 DEF cachedVars, vars, CacheInv, range, end, path, PathOf,
     Compressed
<1>9. QED
  BY <1>1, <1>2, <1>3, <1>4, <1>5, <1>6, <1>7, <1>8 DEF CachedNext

(* Restoring through container_cache.go restores as without it, whatever   *)
(* is cached, evicted or decompressed to disk and whatever fails: every    *)
(* behaviour is one of Restore, and all its theorems hold.                 *)
THEOREM CacheRestores == CachedSpec => RestoresAlike
<1>1. CachedInit => Init /\ CacheInv /\ IInv
  BY CacheInit, InitIInv DEF CachedInit
<1>2. IInv /\ CacheInv /\ [CachedNext]_cachedVars
        => IInv' /\ CacheInv' /\ [Next]_vars
  <2>. SUFFICES ASSUME IInv, CacheInv, [CachedNext]_cachedVars
                PROVE  IInv' /\ CacheInv' /\ [Next]_vars
    OBVIOUS
  <2>1. CacheInv' /\ [Next]_vars
    BY CacheStep DEF IInv
  <2>2. IInv'
    BY <2>1, StepIInv
  <2>3. QED  BY <2>1, <2>2
<1>3. QED  BY <1>1, <1>2, PTL DEF CachedSpec, Spec, RestoresAlike

-----------------------------------------------------------------------------
(* Sums over finite sets.  A statement about all subsets of a finite set   *)
(* is proved by a smallest counterexample, which is induction without a    *)
(* theorem that takes the statement as a parameter.                        *)

(* A set of subsets of a finite set has a smallest one: induction over     *)
(* finite sets as a minimal counterexample.                                *)
LEMMA Smallest ==
  ASSUME NEW S, IsFiniteSet(S), NEW T, T \subseteq SUBSET S, T # {}
  PROVE  \E s \in T : \A t \in T : t \subseteq s => t = s
<1>1. IsWellFoundedOn(StrictSubsetOrdering(S), FiniteSubsetsOf(S))
  BY FS_StrictSubsetOrderingWellFounded
<1>2. FiniteSubsetsOf(S) = SUBSET S
  BY FS_FiniteSubsetsOfFinite
<1>3. IsWellFoundedOn(StrictSubsetOrdering(S), SUBSET S)
  BY <1>1, <1>2
<1>4. PICK s \in T : \A t \in T : ~(<<t, s>> \in StrictSubsetOrdering(S))
  BY <1>3, WFMin
<1>5. \A t \in T : t \subseteq s => t = s
  BY <1>4 DEF StrictSubsetOrdering
<1>6. QED  BY <1>5

(* What MapThenSumSet computes: the sums over all subsets.                 *)
Pick(s) == CHOOSE x \in s : TRUE

SumRound(w, f, s) == IF s = {} THEN 0 ELSE w[Pick(s)] + f[s \ {Pick(s)}]

IsSums(w, f, S) == f = [s \in SUBSET S |-> SumRound(w, f, s)]

Sums(w, S) == CHOOSE f : IsSums(w, f, S)

LEMMA PickIs == ASSUME NEW s, s # {} PROVE Pick(s) \in s
BY DEF Pick

LEMMA SumsAgree ==
  ASSUME NEW S, NEW T, IsFiniteSet(S), NEW w, NEW f, NEW g,
         IsSums(w, f, S), IsSums(w, g, T)
  PROVE  \A s \in SUBSET (S \cap T) : f[s] = g[s]
<1> DEFINE Bad == {s \in SUBSET (S \cap T) : f[s] # g[s]}
<1>. SUFFICES ASSUME Bad # {} PROVE FALSE
  OBVIOUS
<1>1. PICK s \in Bad : \A t \in Bad : t \subseteq s => t = s
  <2>1. IsFiniteSet(S \cap T) /\ Bad \subseteq SUBSET (S \cap T)
    BY FS_Intersection
  <2> HIDE DEF Bad
  <2> QED BY <2>1, Smallest
<1>2. f[s] = SumRound(w, f, s) /\ g[s] = SumRound(w, g, s) /\ s \subseteq S \cap T
  BY <1>1 DEF IsSums
<1>3. CASE s = {}
  BY <1>1, <1>2, <1>3 DEF SumRound
<1>4. CASE s # {}
  <2>1. Pick(s) \in s
    BY <1>4, PickIs
  <2>2. s \ {Pick(s)} \notin Bad
    BY <2>1, <1>1
  <2>3. f[s \ {Pick(s)}] = g[s \ {Pick(s)}]
    BY <2>2, <1>2
  <2>4. QED  BY <2>3, <1>1, <1>2, <1>4 DEF SumRound
<1>5. QED  BY <1>3, <1>4

LEMMA SumsDefined ==
  ASSUME NEW S, IsFiniteSet(S), NEW w
  PROVE  IsSums(w, Sums(w, S), S)
<1> DEFINE Bad == {T \in SUBSET S : ~IsSums(w, Sums(w, T), T)}
<1>. SUFFICES ASSUME Bad # {} PROVE FALSE
  OBVIOUS
<1>1. PICK T \in Bad : \A U \in Bad : U \subseteq T => U = T
  <2>1. Bad \subseteq SUBSET S
    OBVIOUS
  <2> HIDE DEF Bad
  <2> QED BY <2>1, Smallest
<1>2. ASSUME NEW U, U \subseteq T, U # T PROVE IsSums(w, Sums(w, U), U)
  BY <1>1, <1>2
<1> DEFINE h == [s \in SUBSET T |->
                   IF s = {} THEN 0
                   ELSE w[Pick(s)] + Sums(w, s \ {Pick(s)})[s \ {Pick(s)}]]
<1>3. ASSUME NEW s \in SUBSET T, s # T PROVE h[s] = Sums(w, s)[s]
  <2>1. IsSums(w, Sums(w, s), s)
    BY <1>2, <1>3
  <2>2. Sums(w, s)[s] = SumRound(w, Sums(w, s), s)
    BY <2>1 DEF IsSums
  <2>3. CASE s = {}
    BY <2>2, <2>3 DEF SumRound
  <2>4. CASE s # {}
    <3>1. PICK U : U = s \ {Pick(s)}
      OBVIOUS
    <3>2. U \subseteq s /\ U \subseteq T /\ U # T
      BY <3>1, <2>4, PickIs
    <3>3. IsSums(w, Sums(w, U), U) /\ IsFiniteSet(U)
      BY <3>2, <1>2, FS_Subset
    <3>4. U \in SUBSET (U \cap s)
      BY <3>2
    <3>5. Sums(w, U)[U] = Sums(w, s)[U]
      BY <3>3, <3>4, <2>1, SumsAgree
    <3>6. QED  BY <3>1, <3>5, <2>2, <2>4 DEF SumRound
  <2>5. QED  BY <2>3, <2>4
<1>4. ASSUME NEW s \in SUBSET T PROVE h[s] = SumRound(w, h, s)
  <2>1. CASE s = {}
    BY <2>1 DEF SumRound
  <2>2. CASE s # {}
    <3>1. s \ {Pick(s)} \in SUBSET T /\ s \ {Pick(s)} # T
      BY <2>2, PickIs
    <3>2. h[s \ {Pick(s)}] = Sums(w, s \ {Pick(s)})[s \ {Pick(s)}]
      BY <3>1, <1>3
    <3>3. h[s] = w[Pick(s)] + Sums(w, s \ {Pick(s)})[s \ {Pick(s)}]
      BY <2>2
    <3>4. SumRound(w, h, s) = w[Pick(s)] + h[s \ {Pick(s)}]
      BY <2>2 DEF SumRound
    <3>5. QED  BY <3>2, <3>3, <3>4
  <2>3. QED  BY <2>1, <2>2
<1>5. h = [s \in SUBSET T |-> h[s]]
  OBVIOUS
<1> HIDE DEF h
<1>6. h = [s \in SUBSET T |-> SumRound(w, h, s)]
  BY <1>4, <1>5
<1>7. IsSums(w, Sums(w, T), T)
  BY <1>6 DEF IsSums, Sums
<1>8. QED  BY <1>1, <1>7

LEMMA SumIs ==
  ASSUME NEW S PROVE MapThenSumSet(Size, S) = Sums(layout.size, S)[S]
BY DEF MapThenSumSet, MapThenFoldSet, Size, Sums, IsSums, SumRound, Pick

(* The sums over the subsets of S, and that their order does not matter.   *)
LEMMA SumsAdd ==
  ASSUME NEW S, IsFiniteSet(S), NEW w \in [S -> Nat],
         NEW f, f = Sums(w, S)
  PROVE  /\ f[{}] = 0
         /\ \A s \in SUBSET S : f[s] \in Nat
         /\ \A s \in SUBSET S : \A x \in s : f[s] = w[x] + f[s \ {x}]
<1>1. \A s \in SUBSET S : f[s] = SumRound(w, f, s)
  <2>1. IsSums(w, f, S)
    BY SumsDefined
  <2>2. QED  BY <2>1 DEF IsSums
<1>2. f[{}] = 0
  BY <1>1 DEF SumRound
<1>3. \A s \in SUBSET S : f[s] \in Nat
  <2> DEFINE Bad == {s \in SUBSET S : f[s] \notin Nat}
  <2>. SUFFICES ASSUME Bad # {} PROVE FALSE
    OBVIOUS
  <2>1. PICK s \in Bad : \A t \in Bad : t \subseteq s => t = s
    <3>1. Bad \subseteq SUBSET S
      OBVIOUS
    <3> HIDE DEF Bad
    <3> QED BY <3>1, Smallest
  <2>2. s # {}
    <3>. SUFFICES ASSUME s = {} PROVE FALSE
      OBVIOUS
    <3>1. f[s] \notin Nat /\ f[s] = 0
      BY <1>2, <2>1
    <3>2. QED  BY <3>1
  <2>3. Pick(s) \in s /\ f[s \ {Pick(s)}] \in Nat
    BY <2>1, <2>2, PickIs
  <2>4. f[s] = w[Pick(s)] + f[s \ {Pick(s)}]
    BY <1>1, <2>1, <2>2 DEF SumRound
  <2>5. QED  BY <2>1, <2>3, <2>4
<1>4. \A s \in SUBSET S : \A x \in s : f[s] = w[x] + f[s \ {x}]
  <2> DEFINE Bad == {s \in SUBSET S : \E x \in s : f[s] # w[x] + f[s \ {x}]}
  <2>. SUFFICES ASSUME Bad # {} PROVE FALSE
    OBVIOUS
  <2>1. PICK s \in Bad : \A t \in Bad : t \subseteq s => t = s
    <3>1. Bad \subseteq SUBSET S
      OBVIOUS
    <3> HIDE DEF Bad
    <3> QED BY <3>1, Smallest
  <2>2. PICK x \in s : f[s] # w[x] + f[s \ {x}]
    BY <2>1
  <2>3. PICK y : y = Pick(s)
    OBVIOUS
  <2>4. y \in s /\ f[s] = w[y] + f[s \ {y}]
    BY <1>1, <2>1, <2>2, <2>3, PickIs DEF SumRound
  <2>5. x # y
    BY <2>2, <2>4
  <2>6. s \ {x} \notin Bad /\ s \ {y} \notin Bad
    BY <2>1, <2>2, <2>4
  <2>7. PICK r : r = (s \ {y}) \ {x}
    OBVIOUS
  <2>8. f[s \ {y}] = w[x] + f[r]
    BY <2>1, <2>2, <2>5, <2>6, <2>7
  <2>9. f[s \ {x}] = w[y] + f[r]
    <3>1. r = (s \ {x}) \ {y}
      BY <2>7
    <3>2. QED  BY <2>1, <2>4, <2>5, <2>6, <3>1
  <2>10. f[r] \in Nat /\ w[x] \in Nat /\ w[y] \in Nat
    BY <1>3, <2>1, <2>2, <2>4, <2>7
  <2>11. QED  BY <2>2, <2>4, <2>8, <2>9, <2>10
<1>5. QED  BY <1>2, <1>3, <1>4

(* What is taken away is subtracted.                                       *)
LEMMA SumsSubtract ==
  ASSUME NEW S, IsFiniteSet(S), NEW w \in [S -> Nat],
         NEW f, f = Sums(w, S), NEW A \in SUBSET S
  PROVE  \A B \in SUBSET A : f[A \ B] = f[A] - f[B]
<1> DEFINE Bad == {B \in SUBSET A : f[A \ B] # f[A] - f[B]}
<1>. SUFFICES ASSUME Bad # {} PROVE FALSE
  OBVIOUS
<1>1. PICK B \in Bad : \A C \in Bad : C \subseteq B => C = B
  <2>1. IsFiniteSet(A) /\ Bad \subseteq SUBSET A
    BY FS_Subset
  <2> HIDE DEF Bad
  <2> QED BY <2>1, Smallest
<1>2. /\ f[{}] = 0
      /\ \A s \in SUBSET S : f[s] \in Nat
      /\ \A s \in SUBSET S : \A x \in s : f[s] = w[x] + f[s \ {x}]
  BY SumsAdd
<1>3. CASE B = {}
  <2>1. A \ B = A /\ f[A] \in Nat
    BY <1>2, <1>3
  <2>2. QED  BY <2>1, <1>1, <1>2, <1>3
<1>4. CASE B # {}
  <2>1. PICK x : x \in B
    BY <1>4
  <2>2. PICK C : C = B \ {x}
    OBVIOUS
  <2>3. C \subseteq A /\ C \notin Bad /\ B \subseteq A
    BY <1>1, <2>1, <2>2
  <2>4. f[A \ C] = f[A] - f[C]
    BY <2>3
  <2>5. f[B] = w[x] + f[C]
    BY <1>2, <2>1, <2>2, <2>3
  <2>6. f[A \ C] = w[x] + f[A \ B]
    <3>1. (A \ C) \ {x} = A \ B /\ x \in A \ C /\ A \ C \in SUBSET S
      BY <2>1, <2>2, <2>3
    <3>2. QED  BY <1>2, <3>1
  <2>7. /\ f[A] \in Nat /\ f[B] \in Nat /\ f[C] \in Nat /\ f[A \ B] \in Nat
        /\ w[x] \in Nat
    BY <1>2, <2>1, <2>3
  <2>8. f[A \ B] = f[A] - f[B]
    BY <2>4, <2>5, <2>6, <2>7
  <2>9. QED  BY <1>1, <2>8
<1>5. QED  BY <1>3, <1>4

(* MapThenSumSet over a subset.                                            *)
LEMMA SumWithin ==
  ASSUME NEW S, IsFiniteSet(S), NEW T \in SUBSET S
  PROVE  MapThenSumSet(Size, T) = Sums(layout.size, S)[T]
<1>1. PICK w : w = layout.size
  OBVIOUS
<1>2. IsFiniteSet(T) /\ T \in SUBSET (T \cap S)
  BY FS_Subset
<1>3. IsSums(w, Sums(w, S), S) /\ IsSums(w, Sums(w, T), T)
  BY <1>2, SumsDefined
<1>4. Sums(w, T)[T] = Sums(w, S)[T]
  BY <1>2, <1>3, SumsAgree
<1>5. QED  BY <1>1, <1>4, SumIs

-----------------------------------------------------------------------------
(* The size of the cache.                                                  *)

SizeInv ==
  /\ maxCacheSize \in Nat
  /\ DOMAIN cached \subseteq Paths
  /\ loaded # None => loaded \in Paths \ DOMAIN cached
  /\ CacheBounded

LEMMA SameSizes ==
  ASSUME UNCHANGED <<layout, cached, cacheSize, maxCacheSize>>,
         loaded' = None \/ loaded' = loaded, SizeInv
  PROVE  SizeInv'
BY DEF SizeInv, CacheBounded, MapThenSumSet, MapThenFoldSet, Size

(* The container that is wanted is one of those there are.                 *)
LEMMA PathThere ==
  ASSUME TypeOK, CacheInv, restoreIndex < end
  PROVE  path \in Paths
<1>1. restoreIndex < image
  BY Offsets
<1>2. \E p \in Paths : \E i \in DOMAIN layout.content[p] :
        layout.content[p][i] = restoreIndex
  BY <1>1, ChunksStored DEF CacheInv, TypeOK
<1>3. QED  BY <1>2 DEF path, PathOf

(* What is evicted makes room for what is kept instead.                    *)
LEMMA KeepSizes ==
  ASSUME CacheInv, SizeInv, Keep PROVE SizeInv'
<1>1. PICK w : w = layout.size
  OBVIOUS
<1>2. PICK f : f = Sums(w, Paths)
  OBVIOUS
<1>3. w \in [Paths -> Nat] /\ IsFiniteSet(Paths) /\ maxCacheSize \in Nat
  BY <1>1, LayoutsAssumption DEF CacheInv, SizeInv
<1>4. PICK D : D = DOMAIN cached
  OBVIOUS
<1>5. /\ loaded \in Paths \ D /\ D \subseteq Paths
      /\ Size(loaded) = w[loaded] /\ w[loaded] \in Nat
      /\ w[loaded] <= maxCacheSize
  BY <1>1, <1>3, <1>4 DEF Keep, Loaded, SizeInv, Size
<1>6. PICK evicted \in Evictions(Size(loaded)) :
        /\ DOMAIN cached' = (D \ evicted) \cup {loaded}
        /\ cacheSize' = SizeAfter(evicted)
  BY <1>4 DEF Keep
<1>7. /\ evicted \in SUBSET D
      /\ Fits(evicted, Size(loaded)) \/ evicted = D
  BY <1>4, <1>6 DEF Evictions
<1>8. \A T \in SUBSET Paths : MapThenSumSet(Size, T) = f[T]
  BY <1>1, <1>2, <1>3, SumWithin
<1>9. /\ f[{}] = 0
      /\ \A s \in SUBSET Paths : f[s] \in Nat
      /\ \A s \in SUBSET Paths : \A x \in s : f[s] = w[x] + f[s \ {x}]
  <2>1. f[{}] = 0
    BY <1>2, <1>3, SumsAdd
  <2>2. \A s \in SUBSET Paths : f[s] \in Nat
    BY <1>2, <1>3, SumsAdd
  <2>3. ASSUME NEW s \in SUBSET Paths, NEW x \in s
        PROVE  f[s] = w[x] + f[s \ {x}]
    BY <1>2, <1>3, SumsAdd
  <2>4. QED BY <2>1, <2>2, <2>3
<1>10. f[D \ evicted] = f[D] - f[evicted]
  BY <1>2, <1>3, <1>5, <1>7, SumsSubtract
<1>11. f[(D \ evicted) \cup {loaded}] = w[loaded] + f[D \ evicted]
  <2>1. ((D \ evicted) \cup {loaded}) \ {loaded} = D \ evicted
    BY <1>5
  <2>2. (D \ evicted) \cup {loaded} \in SUBSET Paths
    BY <1>5
  <2>3. QED  BY <1>9, <2>1, <2>2
<1>12. cacheSize = f[D] /\ MapThenSumSet(Size, evicted) = f[evicted]
  BY <1>4, <1>5, <1>7, <1>8 DEF SizeInv, CacheBounded
<1>13. cacheSize' = f[D] - f[evicted] + w[loaded]
  BY <1>5, <1>6, <1>12 DEF SizeAfter
<1>14. f[D] \in Nat /\ f[evicted] \in Nat
  BY <1>5, <1>7, <1>9
<1>15. cacheSize' <= maxCacheSize
  <2>1. CASE evicted = D
    BY <2>1, <1>3, <1>5, <1>13, <1>14
  <2>2. CASE Fits(evicted, Size(loaded))
    BY <2>2, <1>5, <1>12, <1>13 DEF Fits
  <2>3. QED  BY <1>7, <2>1, <2>2
<1>16. /\ UNCHANGED <<layout, maxCacheSize>> /\ loaded' = None
       /\ DOMAIN cached' \subseteq Paths
  BY <1>5, <1>6 DEF Keep
<1>17. MapThenSumSet(Size, DOMAIN cached)' = f[DOMAIN cached']
  <2>1. PICK T : T = DOMAIN cached'
    OBVIOUS
  <2>2. MapThenSumSet(Size, T) = f[T]
    BY <2>1, <1>8, <1>16
  <2>3. MapThenSumSet(Size, DOMAIN cached)' = MapThenSumSet(Size, T)
    BY <2>1, <1>16 DEF MapThenSumSet, MapThenFoldSet, Size
  <2>4. QED  BY <2>1, <2>2, <2>3
<1>18. cacheSize' = f[DOMAIN cached']
  BY <1>6, <1>5, <1>7, <1>9, <1>10, <1>11, <1>13, <1>14
<1>19. QED
  BY <1>3, <1>15, <1>16, <1>17, <1>18 DEF SizeInv, CacheBounded

(* An empty cache has size zero.                                           *)
LEMMA EmptySum == MapThenSumSet(Size, {}) = 0
<1>1. IsFiniteSet({})
  BY FS_EmptySet
<1>2. MapThenSumSet(Size, {}) = Sums(layout.size, {})[{}]
  BY SumIs
<1>3. IsSums(layout.size, Sums(layout.size, {}), {})
  BY <1>1, SumsDefined
<1>4. Sums(layout.size, {})[{}] = 0
  BY <1>3 DEF IsSums, SumRound
<1>5. QED  BY <1>2, <1>4

LEMMA SizeStep ==
  ASSUME TypeOK, CacheInv, SizeInv,
         [CachedNext]_cachedVars
  PROVE  SizeInv'
<1>1. CASE \/ ReadPlain \/ Decompress \/ ReadDisk \/ WriteChonk \/ WritePanics
           \/ AnyFails \/ AllWritten \/ UNCHANGED cachedVars
  <2>1. /\ UNCHANGED <<layout, cached, cacheSize, maxCacheSize>>
        /\ loaded' = None \/ loaded' = loaded
    BY <1>1 DEF ReadPlain, Decompress, ReadDisk, WriteChonk, WritePanics,
       AnyFails, AllWritten, cachedVars, cacheVars
  <2>2. QED  BY <2>1, SameSizes
<1>2. CASE Hit
  BY <1>2 DEF Hit, SizeInv, CacheBounded, MapThenSumSet, MapThenFoldSet, Size
<1>3. CASE Load
  <2>1. UNCHANGED <<layout, cached, cacheSize, maxCacheSize>> /\ loaded' = path
        /\ path \in Paths \ DOMAIN cached
    BY <1>3, PathThere DEF Load, Reading, Wants, cacheVars
  <2>2. CacheBounded'
    BY <2>1 DEF SizeInv, CacheBounded, MapThenSumSet, MapThenFoldSet, Size
  <2>3. QED  BY <2>1, <2>2 DEF SizeInv
<1>4. CASE Keep
  BY <1>4, KeepSizes
<1>5. CASE Disable
  <2>1. /\ cached' = <<>> /\ cacheSize' = 0
        /\ UNCHANGED <<layout, maxCacheSize, loaded>>
    BY <1>5 DEF Disable
  <2>2. MapThenSumSet(Size, DOMAIN cached)' = MapThenSumSet(Size, {})
    BY <2>1 DEF MapThenSumSet, MapThenFoldSet, Size
  <2>3. CacheBounded'
    BY <2>1, <2>2, EmptySum DEF SizeInv, CacheBounded
  <2>4. QED  BY <2>1, <2>3 DEF SizeInv
<1>6. QED
  BY <1>1, <1>2, <1>3, <1>4, <1>5 DEF CachedNext

(* Whatever is loaded and evicted, container_cache.go counts what it holds *)
(* and never holds more than maxCacheSize: evictLRUContainers makes room   *)
(* before a container is kept.  Sizes are numbers, containers finitely     *)
(* many, and they hold the chunks of the file.                             *)
THEOREM CacheStaysBounded == CachedSpec => []CacheBounded
<1>1. CachedInit => IInv /\ CacheInv /\ SizeInv
  <2>. SUFFICES ASSUME CachedInit PROVE IInv /\ CacheInv /\ SizeInv
    OBVIOUS
  <2>1. CacheBounded
    <3>1. DOMAIN cached = {} /\ cacheSize = 0 /\ maxCacheSize \in Nat
      BY LayoutsAssumption DEF CachedInit
    <3>2. QED  BY <3>1, EmptySum DEF CacheBounded
  <2>2. SizeInv
    BY <2>1, LayoutsAssumption DEF CachedInit, SizeInv
  <2>3. QED  BY <2>2, CacheInit, InitIInv DEF CachedInit
<1>2. IInv /\ CacheInv /\ SizeInv /\ [CachedNext]_cachedVars
        => IInv' /\ CacheInv' /\ SizeInv'
  BY CacheStep, SizeStep, StepIInv DEF IInv
<1>3. SizeInv => CacheBounded
  BY DEF SizeInv
<1>4. QED  BY <1>1, <1>2, <1>3, PTL DEF CachedSpec
=============================================================================
