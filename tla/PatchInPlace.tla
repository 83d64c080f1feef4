---------------------------- MODULE PatchInPlace ----------------------------
(***************************************************************************)
(* The patchers that write at absolute offsets of the output: PpfPatcher   *)
(* (lib/patcher/ppf_patcher.dart) and ApsGbaPatcher (aps_gba_patcher.dart) *)
(* over a copy of the ROM, DpsPatcher (dps_patcher.dart) from nothing.     *)
(*                                                                         *)
(* A byte is a number; those of a record's data differ from each other and *)
(* from those of the ROM, but in APS files, where a byte is one bit.  A    *)
(* patch is a sequence of cells: one for the header of a record, one for   *)
(* each byte of its data.  The CRC16 of a block is the block itself.       *)
(***************************************************************************)
EXTENDS Integers, Sequences, FiniteSets
Lists == INSTANCE SequencesExt

(***************************************************************************)
(* A job is a record; every job has fmt, "ppf", "gba" or "dps", rom, and   *)
(* ignore, ignoreChecksum.                                                 *)
(*   "ppf", "dps"  check, what the ROM's size and data block compared with *)
(*                 the patch's give: "holds", "fails", "short" when the ROM*)
(*                 ends before the block, "none" when there is nothing to  *)
(*                 compare; records, sequence of [at, len, src], src being *)
(*                 a place in the ROM or -1; kept, the cells of the patch  *)
(*                 that are there                                          *)
(*   "ppf"         version; undo; fileId, length of the FileID text        *)
(*   "gba"         x and y, the files the patch was made of; blocks, those *)
(*                 that are stored; cut, whether the last one is cut short *)
(***************************************************************************)
CONSTANTS
  NoBlockJob,   \* the value of `blk' while none of these runs
  Chunk,        \* bytes of a block of an APS file (_chunkSize)
  MaxFileId     \* the longest FileID text that is believed (3072)

ASSUME BlockAssumption == Chunk \in Nat \ {0} /\ MaxFileId \in Nat

VARIABLES
  blk,      \* the job that runs, or NoBlockJob
  blkStep,  \* "open", "apply", "done", "failed"
  at,       \* cells of the patch that were read
  seen,     \* isOriginal, isModified
  image     \* the output file

blkVars == <<blk, blkStep, at, seen, image>>

Smaller(a, b) == IF a <= b THEN a ELSE b
Larger(a, b) == IF a >= b THEN a ELSE b

Fill(n) == [i \in 1..n |-> 0]

\* n bytes of a file from a position on, or as many as there are.
ReadAt(file, from, n) == SubSeq(file, from + 1, Smaller(from + n, Len(file)))

\* setPosition and writeFrom: nothing is written for no bytes.
Overwrite(file, from, bytes) ==
  IF bytes = << >> THEN file
  ELSE SubSeq(file \o Fill(Larger(from - Len(file), 0)), 1, from) \o bytes
         \o SubSeq(file, from + Len(bytes) + 1, Len(file))

Truncate(file, n) == SubSeq(file \o Fill(Larger(n - Len(file), 0)), 1, n)

XorBit(a, b) == (a + b) % 2

-----------------------------------------------------------------------------
\* The formats, as the tools that make patches write them.
DataByte(k, j) == 10 * k + j
UndoByte(k, j) == 50 + 10 * k + j

Literal(Byte(_, _), k, n) == [j \in 1..n |-> <<"byte", Byte(k, j)>>]

FileIdBlock(n) ==
  IF n = 0 THEN << >>
  ELSE <<<<"begin">>>> \o [i \in 1..n |-> <<"text">>] \o <<<<"end">>, <<"size", n>>>>

PpfCellsOf(j, k) ==
  LET r == j.records[k]
  IN <<<<"head", r.at, r.len>>>> \o Literal(DataByte, k, r.len)
       \o IF j.undo THEN Literal(UndoByte, k, r.len) ELSE << >>

PpfCells(j) ==
  Lists!FlattenSeq([k \in DOMAIN j.records |-> PpfCellsOf(j, k)])
    \o FileIdBlock(j.fileId)

DpsCellsOf(j, k) ==
  LET r == j.records[k]
  IN IF r.src >= 0 THEN <<<<"copy", r.at, r.src, r.len>>>>
     ELSE <<<<"data", r.at, r.len>>>> \o Literal(DataByte, k, r.len)

DpsCells(j) == Lists!FlattenSeq([k \in DOMAIN j.records |-> DpsCellsOf(j, k)])

\* A block of a file, filled up with zeros.
Padded(file, from) == Truncate(ReadAt(file, from, Chunk), Chunk)

\* What an APS file stores of one: its checksums in both files, and their XOR.
StoredBlock(x, y, from) ==
  [at |-> from, crc1 |-> Padded(x, from), crc2 |-> Padded(y, from),
   xor |-> [i \in 1..Chunk |-> XorBit(Padded(x, from)[i], Padded(y, from)[i])]]

\* The blocks of an APS file: those that differ, or all of them.
GbaBlocks(x, y, all) ==
  LET size == Larger(Len(x), Len(y))
  IN SelectSeq([c \in 1..((size + Chunk - 1) \div Chunk) |->
                  StoredBlock(x, y, (c - 1) * Chunk)],
               LAMBDA b : all \/ b.crc1 # b.crc2)

\* The patch as far as it is there.
Stored ==
  IF blk.fmt = "gba" THEN blk.blocks
  ELSE SubSeq(IF blk.fmt = "ppf" THEN PpfCells(blk) ELSE DpsCells(blk), 1, blk.kept)

-----------------------------------------------------------------------------
Runs(fmt, s) == blk # NoBlockJob /\ blk.fmt = fmt /\ blkStep = s

BlockFail == blkStep' = "failed" /\ UNCHANGED <<blk, at, seen, image>>

\* "ROM is not compatible with this patch."
Refused == ~blk.ignore /\ blk.check \in {"fails", "short"}

\* Under 61 bytes, which only a header without a data block and with nothing
\* behind it is.
TooSmall ==
  /\ blk.kept = 0
  /\ blk.version = 1 \/ (blk.version = 3 /\ blk.check = "none")

\* The checks of PPF come after the copy: a refused ROM leaves it on disk.
PpfOpen ==
  /\ Runs("ppf", "open")
  /\ IF TooSmall THEN BlockFail
     ELSE /\ image' = blk.rom
          /\ blkStep' = IF Refused THEN "failed" ELSE "apply"
          /\ UNCHANGED <<blk, at, seen>>

\* _getSizeFileId: the block is found by its end, its length capped.
FileIdSize ==
  LET n == Len(Stored)
  IN IF blk.version > 1 /\ n > 1 /\ Stored[n - 1] = <<"end">>
     THEN Smaller(Stored[n][2], MaxFileId) ELSE 0

\* Mutant of DataEnd: the FileID block is part of the data.
WholeFile == Len(Stored)

DataEnd ==
  IF FileIdSize > 0 THEN Len(Stored) - (1 + FileIdSize + 1 + 1) ELSE Len(Stored)

PpfRecord ==
  /\ Runs("ppf", "apply")
  /\ at < DataEnd
  /\ LET head == Stored[at + 1]
         chunk == ReadAt(Stored, at + 1, head[3])
     IN /\ head[1] = "head"
        /\ IF head[3] = 0
           THEN blkStep' = "done" /\ UNCHANGED <<at, image>>
           ELSE /\ image' = Overwrite(image, head[2],
                                      [j \in DOMAIN chunk |-> chunk[j][2]])
                /\ at' = at + 1 + Len(chunk) + IF blk.undo THEN head[3] ELSE 0
                /\ UNCHANGED blkStep
  /\ UNCHANGED <<blk, seen>>

\* What is no header is read as one, for a write to anywhere.
PpfGarbled ==
  /\ Runs("ppf", "apply")
  /\ at < DataEnd
  /\ Stored[at + 1][1] # "head"
  /\ image' = <<-1>>
  /\ blkStep' \in {"done", "failed"}
  /\ UNCHANGED <<blk, at, seen>>

PpfEnd ==
  /\ Runs("ppf", "apply")
  /\ at >= DataEnd
  /\ blkStep' = "done"
  /\ UNCHANGED <<blk, at, seen, image>>

-----------------------------------------------------------------------------
GbaOpen ==
  /\ Runs("gba", "open")
  /\ image' = blk.rom
  /\ blkStep' = "apply"
  /\ UNCHANGED <<blk, at, seen>>

\* Which of the two files a block of the ROM is from.
Recognised(block, bytes) ==
  IF bytes = block.crc1 THEN {"original"}
  ELSE IF bytes = block.crc2 THEN {"modified"} ELSE {}

\* A block is XORed in place; "Not a valid APS patch" when it is cut short or
\* blocks of both files were met, "ROM is not compatible" when of neither.
GbaBlock ==
  /\ Runs("gba", "apply")
  /\ at < Len(Stored)
  /\ LET block == Stored[at + 1]
         bytes == Padded(image, block.at)
         known == Recognised(block, bytes)
     IN IF \/ blk.cut /\ at + 1 = Len(Stored)
           \/ known = {} /\ ~blk.ignore
           \/ Cardinality(seen \cup known) = 2
        THEN BlockFail
        ELSE /\ image' = Overwrite(image, block.at,
                           [i \in 1..Chunk |-> XorBit(bytes[i], block.xor[i])])
             /\ seen' = seen \cup known
             /\ at' = at + 1
             /\ UNCHANGED <<blk, blkStep>>

\* The output gets the size of the file it has become.
GbaEnd ==
  /\ Runs("gba", "apply")
  /\ at = Len(Stored)
  /\ image' = IF "original" \in seen THEN Truncate(image, Len(blk.y))
              ELSE IF "modified" \in seen THEN Truncate(image, Len(blk.x))
              ELSE image
  /\ blkStep' = "done"
  /\ UNCHANGED <<blk, at, seen>>

-----------------------------------------------------------------------------
DpsOpen ==
  /\ Runs("dps", "open")
  /\ blkStep' = IF Refused THEN "failed" ELSE "apply"
  /\ UNCHANGED <<blk, at, seen, image>>

DpsRecord ==
  /\ Runs("dps", "apply")
  /\ at < Len(Stored)
  /\ LET r == Stored[at + 1]
         bytes == IF r[1] = "copy" THEN ReadAt(blk.rom, r[3], r[4])
                  ELSE LET cells == ReadAt(Stored, at + 1, r[3])
                       IN [j \in DOMAIN cells |-> cells[j][2]]
     IN /\ image' = Overwrite(image, r[2], bytes)
        /\ at' = at + 1 + IF r[1] = "copy" THEN 0 ELSE Len(bytes)
  /\ UNCHANGED <<blk, blkStep, seen>>

\* Fewer than five bytes are left.
DpsEnd ==
  /\ Runs("dps", "apply")
  /\ at = Len(Stored)
  /\ blkStep' = "done"
  /\ UNCHANGED <<blk, at, seen, image>>

-----------------------------------------------------------------------------
BlockIdle ==
  /\ blk = NoBlockJob
  /\ blkStep = "open" /\ at = 0 /\ seen = {} /\ image = << >>

StartBlock(j) ==
  /\ blk = NoBlockJob
  /\ blk' = j
  /\ UNCHANGED <<blkStep, at, seen, image>>

BlockStep ==
  \/ PpfOpen \/ PpfRecord \/ PpfGarbled \/ PpfEnd
  \/ GbaOpen \/ GbaBlock \/ GbaEnd
  \/ DpsOpen \/ DpsRecord \/ DpsEnd

-----------------------------------------------------------------------------
\* What the records mean: at each place the last one counts, elsewhere the ROM
\* under a PPF and zeros under a DPS.
Base == IF blk.fmt = "ppf" THEN blk.rom ELSE << >>

Hits(x) == {k \in DOMAIN blk.records :
              LET r == blk.records[k] IN r.at <= x /\ x < r.at + r.len}

Meant(x) ==
  IF Hits(x) # {}
  THEN LET k == CHOOSE k \in Hits(x) : \A l \in Hits(x) : l <= k
           r == blk.records[k]
       IN IF r.src >= 0 THEN blk.rom[r.src + x - r.at + 1]
          ELSE DataByte(k, x - r.at + 1)
  ELSE IF x < Len(Base) THEN Base[x + 1] ELSE 0

MeantLength ==
  CHOOSE n \in {Len(Base)} \cup {blk.records[k].at + blk.records[k].len :
                                   k \in DOMAIN blk.records} :
    /\ n >= Len(Base)
    /\ \A k \in DOMAIN blk.records : blk.records[k].at + blk.records[k].len <= n

\* The whole patch for this ROM, none of its records empty, its copies inside the
\* ROM, its FileID text no longer than is believed, a PPF not its header alone.
WholePatch ==
  /\ ~Refused
  /\ blk.kept = Len(IF blk.fmt = "ppf" THEN PpfCells(blk) ELSE DpsCells(blk))
  /\ \A k \in DOMAIN blk.records :
       LET r == blk.records[k]
       IN r.len > 0 /\ (r.src >= 0 => r.src + r.len <= Len(blk.rom))
  /\ blk.fmt = "ppf" => blk.fileId <= MaxFileId /\ ~TooSmall

\* The other of the two files, of which the blocks can be told apart: a block
\* equal in both always counts as the original's.
GbaGoal == IF blk.rom = blk.x THEN blk.y ELSE blk.x

Reversible ==
  /\ ~blk.cut
  /\ blk.blocks # << >>
  /\ \/ blk.rom = blk.x
     \/ blk.rom = blk.y /\ \A b \in DOMAIN blk.blocks :
                             blk.blocks[b].crc1 # blk.blocks[b].crc2

\* Records over, across and past the end of the ROM in any order, undo data, a
\* FileID block behind them, blocks that reach past the end of either file: the
\* output is what the patch means, in its bytes and in its length.
BlocksApplied ==
  blk # NoBlockJob /\ (IF blk.fmt = "gba" THEN Reversible ELSE WholePatch) =>
    /\ blkStep # "failed"
    /\ blkStep = "done" =>
         image = IF blk.fmt = "gba" THEN GbaGoal
                 ELSE [i \in 1..MeantLength |-> Meant(i - 1)]

-----------------------------------------------------------------------------
\* The inductive invariant.

ByteAt(file, p) == IF p < Len(file) THEN file[p + 1] ELSE 0

\* An APS file of two files: its blocks, in any order, lie apart, and each byte
\* that differs is in one.
GbaJobOK(j) ==
  /\ j.x \in Seq({0, 1}) /\ j.y \in Seq({0, 1}) /\ j.rom \in Seq({0, 1})
  /\ j.cut \in BOOLEAN
  /\ j.blocks \in Seq({StoredBlock(j.x, j.y, j.blocks[b].at) : b \in DOMAIN j.blocks})
  /\ \A b \in DOMAIN j.blocks :
       /\ j.blocks[b].at \in Nat
       /\ j.blocks[b] = StoredBlock(j.x, j.y, j.blocks[b].at)
  /\ \A b, c \in DOMAIN j.blocks :
       b # c => \/ j.blocks[b].at + Chunk <= j.blocks[c].at
                \/ j.blocks[c].at + Chunk <= j.blocks[b].at
  /\ \A p \in 0..(Larger(Len(j.x), Len(j.y)) - 1) :
       ByteAt(j.x, p) # ByteAt(j.y, p) =>
         \E b \in DOMAIN j.blocks : p \in j.blocks[b].at..(j.blocks[b].at + Chunk - 1)

\* A PPF or DPS patch; the first version of PPF has no FileID block.
RecordJobOK(j) ==
  /\ j.rom \in Seq(Int) /\ j.kept \in Nat
  /\ j.records \in Seq([at : Nat, len : Nat, src : Nat \cup {-1}])
  /\ j.fmt = "ppf" =>
       /\ j.undo \in BOOLEAN /\ j.fileId \in Nat /\ j.version \in 1..3
       /\ j.version = 1 => j.fileId = 0
       /\ \A k \in DOMAIN j.records : j.records[k].src = -1

BlockJobOK(j) ==
  /\ j.fmt \in {"ppf", "gba", "dps"}
  /\ IF j.fmt = "gba" THEN GbaJobOK(j) ELSE RecordJobOK(j)

\* The blocks so far are the other file's, the rest is the ROM; every one was
\* recognised.
InBlocks(n, p) ==
  \E b \in 1..n : p \in blk.blocks[b].at..(blk.blocks[b].at + Chunk - 1)

GbaInv ==
  /\ blkStep \in {"open", "apply", "done"}
  /\ blkStep = "open" => at = 0 /\ seen = {}
  /\ blkStep = "apply" =>
       /\ image \in Seq({0, 1})
       /\ at \in 0..Len(blk.blocks)
       /\ seen = IF at = 0 THEN {}
                 ELSE IF blk.rom = blk.x THEN {"original"} ELSE {"modified"}
       /\ \A p \in Nat :
            ByteAt(image, p) = IF InBlocks(at, p) THEN ByteAt(GbaGoal, p)
                               ELSE ByteAt(blk.rom, p)
  /\ blkStep = "done" => image = GbaGoal

\* How many cells a record has.
CellCount(k) ==
  1 + IF blk.records[k].src >= 0 THEN 0
      ELSE IF blk.fmt = "ppf" /\ blk.undo THEN 2 * blk.records[k].len
      ELSE blk.records[k].len

\* Record k is the last one, up to the n-th, that has byte p.
LastAt(n, k, p) ==
  /\ k \in 1..n /\ k \in Hits(p)
  /\ \A l \in (k + 1)..n : l \notin Hits(p)

ByteOf(k, p) ==
  IF blk.records[k].src >= 0 THEN blk.rom[blk.records[k].src + p - blk.records[k].at + 1]
  ELSE DataByte(k, p - blk.records[k].at + 1)

EndOfRecord(k) == blk.records[k].at + blk.records[k].len

\* The output has the first n records.
AppliedTo(n) ==
  /\ image \in Seq(Int)
  /\ Len(image) >= Len(Base)
  /\ Len(image) = Len(Base) \/ \E k \in 1..n : Len(image) = EndOfRecord(k)
  /\ \A k \in 1..n : EndOfRecord(k) <= Len(image)
  /\ \A p \in Nat :
       \/ \E k \in 1..n : LastAt(n, k, p) /\ ByteAt(image, p) = ByteOf(k, p)
       \/ /\ \A k \in 1..n : k \notin Hits(p)
          /\ ByteAt(image, p) = ByteAt(Base, p)

\* Where the records of the patch start; the last place is their end.
Places ==
  {P \in [0..Len(blk.records) -> Nat] :
     P[0] = 0 /\ \A k \in 1..Len(blk.records) : P[k] = P[k - 1] + CellCount(k)}

RecordInv ==
  /\ blkStep \in {"open", "apply", "done"}
  /\ blkStep = "open" => at = 0 /\ image = << >>
  /\ blkStep = "apply" =>
       \E n \in 0..Len(blk.records) :
         AppliedTo(n) /\ \E P \in Places : at = P[n]
  /\ blkStep = "done" => AppliedTo(Len(blk.records))

BlkInv ==
  IF blk = NoBlockJob
  THEN blkStep = "open" /\ at = 0 /\ seen = {} /\ image = << >>
  ELSE /\ BlockJobOK(blk)
       /\ IF blk.fmt = "gba" THEN Reversible => GbaInv ELSE WholePatch => RecordInv
=============================================================================
