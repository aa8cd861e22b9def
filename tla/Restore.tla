------------------------------ MODULE Restore ------------------------------
(***************************************************************************)
(* Restoring a file: restoreData of lib/store/restore.go and GetChonkData  *)
(* of lib/dbio/dbio.go, which search and the chunk maps of the server use  *)
(* in the same way.                                                        *)
(*                                                                         *)
(* An evidence file is stored in chunks of ChonkSize bytes, the last one   *)
(* shorter.  A partition or an indexed file is a range of an evidence      *)
(* file; to restore it, the chunks it touches are cut at its two ends.  A  *)
(* byte is identified by its offset in the evidence file.                  *)
(***************************************************************************)
EXTENDS Integers, Sequences

CONSTANTS
  ChonkSize,   \* cnst.ChonkSize
  Images,      \* bound: the sizes of evidence files
  Junk         \* a byte of memory behind the data of a chunk

ASSUME ChonkSizeAssumption == ChonkSize \in Nat \ {0}
ASSUME ImagesAssumption == Images \subseteq Nat \ {0}
ASSUME JunkAssumption == Junk \notin Int

VARIABLES
  image,         \* size of the evidence file
  start, size,   \* the range it is asked for: meta.Start, meta.Size
  restoreIndex,  \* where the next chunk starts
  out,           \* what has been written to the destination
  status         \* "running", "done", "failed" or "panic"

range == <<image, start, size>>
vars == <<range, restoreIndex, out, status>>

end == start + size

(* The bytes of the evidence file from one offset up to another.           *)
Bytes(from, to) == [k \in 1 .. to - from |-> from + k - 1]

(* storeEvidenceData cuts the last chunk at the end of the file.           *)
ChonkEnd(at) == IF at + ChonkSize < image THEN at + ChonkSize ELSE image

(* GetChonkNode: the chunk stored for an offset.                           *)
ChonkNode(at) == Bytes(at, ChonkEnd(at))

GetDBStartOffset(startIndex) == (startIndex \div ChonkSize) * ChonkSize

dbstart == GetDBStartOffset(start)

-----------------------------------------------------------------------------
(* Mutant: the first chunk is not cut at the start of the range.           *)
MutFromStart == ChonkNode(restoreIndex)

(* data[actualStart:], in the first chunk.                                 *)
FromStart ==
  LET data == ChonkNode(restoreIndex)
  IN IF restoreIndex = dbstart
       THEN SubSeq(data, start - restoreIndex + 1, Len(data))
       ELSE data

(* Mutant: the last chunk is not cut at the end of the range.              *)
MutKept == IF size < Len(FromStart) THEN size ELSE Len(FromStart)

(* How much of that GetChonkData keeps: data[:size] or data[:actualEnd].   *)
Kept ==
  IF size < Len(FromStart) THEN size
  ELSE IF restoreIndex + ChonkSize > end THEN end - restoreIndex
  ELSE Len(FromStart)

WithinSlice == Kept <= Len(FromStart)

(* GetChonkData.  A slice may reach behind the length of its data, into    *)
(* the rest of its array.                                                  *)
GetChonkData ==
  IF WithinSlice THEN SubSeq(FromStart, 1, Kept)
  ELSE FromStart \o [k \in 1 .. Kept - Len(FromStart) |-> Junk]

-----------------------------------------------------------------------------
Init ==
  /\ image \in Images
  /\ start \in 0 .. image - 1
  /\ size \in 0 .. image - start
  /\ restoreIndex = dbstart
  /\ out = <<>>
  /\ status = "running"

(* One round of the loop of restoreData.                                   *)
RestoreChonk ==
  /\ status = "running" /\ restoreIndex < end
  /\ out' = out \o GetChonkData
  /\ restoreIndex' = restoreIndex + ChonkSize
  /\ UNCHANGED <<range, status>>

(* Where the array ends there, the slice panics.                           *)
SlicePanics ==
  /\ status = "running" /\ restoreIndex < end
  /\ ~WithinSlice
  /\ status' = "panic"
  /\ UNCHANGED <<range, restoreIndex, out>>

(* A relation or a chunk cannot be read, or the destination not be written. *)
ChonkFails ==
  /\ status = "running" /\ restoreIndex < end
  /\ status' = "failed"
  /\ UNCHANGED <<range, restoreIndex, out>>

Finish ==
  /\ status = "running" /\ restoreIndex >= end
  /\ status' = "done"
  /\ UNCHANGED <<range, restoreIndex, out>>

Next == RestoreChonk \/ SlicePanics \/ ChonkFails \/ Finish

Spec == Init /\ [][Next]_vars

-----------------------------------------------------------------------------
Wanted == Bytes(start, end)

TypeOK ==
  /\ image \in Images
  /\ start \in 0 .. image - 1 /\ size \in 0 .. image - start
  /\ restoreIndex \in Nat
  /\ out \in Seq(0 .. image - 1 \cup {Junk})
  /\ status \in {"running", "done", "failed", "panic"}

(* The ranges GetChonkData cuts right: aligned ones (evidence files are),  *)
(* those no smaller than a chunk, and those in a single chunk, unless they *)
(* are the end of the last, short one.                                     *)
Regular ==
  \/ start = dbstart
  \/ size >= ChonkSize
  \/ end <= dbstart + ChonkSize /\ (end < image \/ image % ChonkSize = 0)

(* A regular range is restored byte for byte.                              *)
RegularRestored ==
  Regular => /\ status # "panic"
             /\ status = "done" => out = Wanted

(* Any other range that is restored at all comes out whole, with less than *)
(* a chunk of other bytes behind it.                                       *)
NothingLost ==
  status = "done" =>
    /\ Len(out) >= size /\ Len(out) < size + ChonkSize
    /\ SubSeq(out, 1, size) = Wanted

(* HIERARCHICAL_INDEX.md: every file that is stored can be restored.       *)
Restored == status = "done" => out = Wanted
=============================================================================
