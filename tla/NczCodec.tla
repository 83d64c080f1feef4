------------------------------ MODULE NczCodec ------------------------------
(***************************************************************************)
(* Ncz.compress and Ncz.decompress (lib/switch/ncz.dart) on the body of one*)
(* NCA: _partition with _parseBktr2, the decryption of the pieces into one *)
(* stream, the two layouts the stream is stored in, and _BodyEmitter, which*)
(* encrypts the pieces again.                                              *)
(*                                                                         *)
(* A byte is the pair of its place in the NCA and the set of key stream    *)
(* positions it is XORed with, beyond what the NCA itself has there; {} is *)
(* the byte of the NCA.  AES-CTR takes the position from the absolute      *)
(* offset of the piece, rounded down to a cipher block (_counterAtOffset). *)
(* zstd keeps what it is given; its decoder hands it out in pieces of any  *)
(* length.                                                                 *)
(***************************************************************************)
EXTENDS Integers, Sequences

CONSTANTS
  HeaderSize,   \* bytes copied verbatim (nczUncompressedHeaderSize)
  CtrBlock,     \* bytes of an AES block
  ChunkSize,    \* bytes read from the NCA at a time
  BlockSize,    \* bytes of a block of the block layout
  Ncas,         \* the NCAs to compress: their size and set of sections
  Foreign       \* files of the reference tool: size of the NCA, section table

VARIABLES
  phase,        \* "partition", "bktr", "compress", "stored", "decompress", "done"
  nca,          \* the NCA, or what a foreign file was made from
  todo,         \* its sections not yet partitioned
  pointer,      \* _partition's pointer: what lies below it is covered
  body,         \* the pieces found so far, the NCZSECTN table in the end
  cut,          \* the BKTR section being cut up: its range and the next entry
  cur,          \* the piece being compressed and how much of it was
  stream,       \* plaintext given to the encoder; what the file gives back
  file,         \* how the stream is stored
  table,        \* the emitter's pieces
  em,           \* the emitter: its piece, what is left of it, its key stream
  taken,        \* bytes of the stream decoded so far
  chunk,        \* decoded bytes not yet written
  out           \* the rebuilt NCA

vars == <<phase, nca, todo, pointer, body, cut, cur, stream, file, table, em,
          taken, chunk, out>>
partVars == <<nca, todo, pointer, cut>>
readVars == <<file, table, em, taken, chunk, out>>

NoNonce == <<0, 0>>
NoCut == [from |-> 0, to |-> 0]

Least(a, b) == IF a <= b THEN a ELSE b
Most(a, b) == IF a >= b THEN a ELSE b

Piece(from, to, nonce) == [offset |-> from, size |-> to - from, nonce |-> nonce]

-----------------------------------------------------------------------------
\* The key stream.
AlignDown(x) == (x \div CtrBlock) * CtrBlock

\* What a cipher seeded at the offset of piece p applies to byte x of it.
KeyAt(p, x) ==
  IF p.nonce = NoNonce THEN {}
  ELSE {<<p.nonce, AlignDown(p.offset) + (x - p.offset)>>}

Xor(a, b) == (a \ b) \cup (b \ a)

Original(x) == [at |-> x, ks |-> {}]
Image(n) == [i \in 1..n |-> Original(i - 1)]

-----------------------------------------------------------------------------
\* The BKTR2 table of a section is a sequence of buckets, each with an end and
\* its entries; << >> stands for a table the code does not accept.
Bucket == cut.sec.table[cut.bucket]

\* Where entry e of bucket b ends, relative to the section.
EntryEnd(b, e) ==
  IF e < Len(b.entries) THEN b.entries[e + 1].at ELSE b.end

\* section.baseCounter
BaseNonce(s) == IF s.crypto = "none" THEN NoNonce ELSE <<s.nonce, 0>>

\* Mutant of EntryNonce: the whole section under its base counter.
BaseNonceOnly(s, ctr) == <<s.nonce, 0>>

\* bktrCounterForEntry
EntryNonce(s, ctr) == <<s.nonce, ctr>>

UsesTable(s) == s.crypto = "aesCtrEx" /\ s.table # << >>

\* addNone
Gap(from, to) == IF to > from THEN <<Piece(from, to, NoNonce)>> ELSE << >>

\* sorted: sections with the same offset come in any order.
IsNext(s) == s \in todo /\ \A t \in todo : s.offset <= t.offset

Start(s) == Most(s.offset, pointer)
ClampedEnd(s) == Least(s.end, nca.size)

\* A section that ends in the header or in what is already covered.
SkipSection(s) ==
  /\ phase = "partition"
  /\ IsNext(s)
  /\ s.end <= HeaderSize \/ Start(s) >= s.end
  /\ todo' = todo \ {s}
  /\ UNCHANGED <<phase, nca, pointer, body, cut, cur, stream, readVars>>

\* Mutant of TakeSection: the start is not clamped to the pointer.
TakeSectionUnclamped(s) ==
  /\ phase = "partition"
  /\ IsNext(s)
  /\ s.end > HeaderSize /\ Start(s) < s.end
  /\ ~UsesTable(s)
  /\ body' = body \o Gap(pointer, s.offset)
                  \o <<Piece(s.offset, ClampedEnd(s), BaseNonce(s))>>
  /\ pointer' = ClampedEnd(s)
  /\ todo' = todo \ {s}
  /\ UNCHANGED <<phase, nca, cut, cur, stream, readVars>>

\* A section that becomes one piece.
TakeSection(s) ==
  /\ phase = "partition"
  /\ IsNext(s)
  /\ s.end > HeaderSize /\ Start(s) < s.end
  /\ ~UsesTable(s)
  /\ body' = body \o Gap(pointer, Start(s))
                  \o <<Piece(Start(s), ClampedEnd(s), BaseNonce(s))>>
  /\ pointer' = ClampedEnd(s)
  /\ todo' = todo \ {s}
  /\ UNCHANGED <<phase, nca, cut, cur, stream, readVars>>

\* A section cut up by its BKTR2 table: _parseBktr2 is called.
OpenTable(s) ==
  /\ phase = "partition"
  /\ IsNext(s)
  /\ s.end > HeaderSize /\ Start(s) < s.end
  /\ UsesTable(s)
  /\ body' = body \o Gap(pointer, Start(s))
  /\ cut' = [from |-> Start(s), to |-> ClampedEnd(s), sec |-> s,
             bucket |-> 1, entry |-> 1, pieces |-> << >>, last |-> -1]
  /\ phase' = "bktr"
  /\ UNCHANGED <<nca, todo, pointer, cur, stream, readVars>>

\* One entry of the table, clipped to the range of the section.
CutEntry ==
  /\ phase = "bktr"
  /\ cut.bucket <= Len(cut.sec.table)
  /\ cut.entry <= Len(Bucket.entries)
  /\ LET e == Bucket.entries[cut.entry]
         from == Most(cut.sec.offset + e.at, cut.from)
         last == cut.sec.offset + EntryEnd(Bucket, cut.entry)
         to == Least(last, cut.to)
         piece == Piece(from, to, EntryNonce(cut.sec, e.ctr))
     IN cut' = [cut EXCEPT !.entry = @ + 1,
                           !.last = last,
                           !.pieces = IF from < to THEN Append(@, piece) ELSE @]
  /\ UNCHANGED <<phase, nca, todo, pointer, body, cur, stream, readVars>>

NextBucket ==
  /\ phase = "bktr"
  /\ cut.bucket <= Len(cut.sec.table)
  /\ cut.entry > Len(Bucket.entries)
  /\ cut' = [cut EXCEPT !.bucket = @ + 1, !.entry = 1]
  /\ UNCHANGED <<phase, nca, todo, pointer, body, cur, stream, readVars>>

\* What follows the last entry is under the section's own counter.
TableTail == IF cut.last >= cut.from /\ cut.last < cut.to
        THEN <<Piece(cut.last, cut.to, BaseNonce(cut.sec))>>
        ELSE << >>

\* The end of _parseBktr2: the tail, or one piece when the table gave none.
CloseTable ==
  /\ phase = "bktr"
  /\ cut.bucket > Len(cut.sec.table)
  /\ body' = body \o IF cut.pieces \o TableTail = << >>
                     THEN <<Piece(cut.from, cut.to, BaseNonce(cut.sec))>>
                     ELSE cut.pieces \o TableTail
  /\ pointer' = cut.to
  /\ todo' = todo \ {cut.sec}
  /\ cut' = NoCut
  /\ phase' = "partition"
  /\ UNCHANGED <<nca, cur, stream, readVars>>

\* The sections are done: what is left is plain.
EndPartition ==
  /\ phase = "partition"
  /\ todo = {}
  /\ body' = body \o Gap(pointer, nca.size)
  /\ pointer' = nca.size
  /\ phase' = "compress"
  /\ UNCHANGED <<nca, todo, cut, cur, stream, readVars>>

-----------------------------------------------------------------------------
\* One chunk of a piece is read, decrypted and given to the encoder.
CompressChunk ==
  /\ phase = "compress"
  /\ cur.piece <= Len(body)
  /\ cur.fed < body[cur.piece].size
  /\ LET p == body[cur.piece]
         take == Least(p.size - cur.fed, ChunkSize)
         at == p.offset + cur.fed - 1
     IN /\ stream' = stream \o [i \in 1..take |->
                                 [at |-> at + i, ks |-> KeyAt(p, at + i)]]
        /\ cur' = [cur EXCEPT !.fed = @ + take]
  /\ UNCHANGED <<phase, partVars, body, readVars>>

NextPiece ==
  /\ phase = "compress"
  /\ cur.piece <= Len(body)
  /\ cur.fed >= body[cur.piece].size
  /\ cur' = [piece |-> cur.piece + 1, fed |-> 0]
  /\ UNCHANGED <<phase, partVars, body, stream, readVars>>

\* encoder.finish(): the .ncz is on disk, as one solid stream.
FinishCompress ==
  /\ phase = "compress"
  /\ cur.piece > Len(body)
  /\ file' = [layout |-> "solid", size |-> Len(stream), framed |-> {}]
  /\ phase' = "stored"
  /\ UNCHANGED <<partVars, body, cur, stream, table, em, taken, chunk, out>>

-----------------------------------------------------------------------------
\* _prepareForDecompress: the stream starts at the end of the header, where a
\* foreign table need not start.
Prepare(t) ==
  IF t = << >> \/ t[1].offset = HeaderSize THEN t
  ELSE IF t[1].offset > HeaderSize
       THEN Gap(HeaderSize, t[1].offset) \o t
       ELSE IF t[1].offset + t[1].size <= HeaderSize
            THEN SubSeq(t, 2, Len(t))
            ELSE <<Piece(HeaderSize, t[1].offset + t[1].size, t[1].nonce)>>
                   \o SubSeq(t, 2, Len(t))

\* _initCipherForCurrent for piece i of the table t.
At(t, i) ==
  [idx |-> i,
   left |-> IF i <= Len(t) THEN t[i].size ELSE 0,
   pos |-> IF i <= Len(t) THEN AlignDown(t[i].offset) ELSE 0]

\* decompress() opens a file, of which kept bytes of the stream are there, and
\* copies the header.
OpenNcz(kept) ==
  /\ phase = "stored"
  /\ phase' = "decompress"
  /\ stream' = SubSeq(stream, 1, kept)
  /\ table' = Prepare(body)
  /\ em' = At(Prepare(body), 1)
  /\ out' = Image(HeaderSize)
  /\ UNCHANGED <<partVars, body, cur, file, taken, chunk>>

\* The solid layout: a chunk of the file gives any part of what is to come.
DecodeSolid(n) ==
  /\ phase = "decompress" /\ file.layout = "solid"
  /\ chunk = << >>
  /\ n \in 1..(Len(stream) - taken)
  /\ chunk' = SubSeq(stream, taken + 1, taken + n)
  /\ taken' = taken + n
  /\ UNCHANGED <<phase, partVars, body, cur, stream, file, table, em, out>>

-----------------------------------------------------------------------------
\* The block layout: block b (from 0) holds BlockSize bytes, the last one the
\* rest; it is stored as it is unless zstd made it shorter.
BlockLen(b) == Least(BlockSize, file.size - b * BlockSize)
StoredSize(b) == IF b \in file.framed THEN BlockLen(b) - 1 ELSE BlockLen(b)
BlockCount == (file.size + BlockSize - 1) \div BlockSize

\* Mutant of DecompressedLen: the last block is taken for a full one.
AlwaysBlockSize(b) == BlockSize

\* _decompressBlocks' decompressedBlockSize
DecompressedLen(b) ==
  IF b = BlockCount - 1 /\ file.size % BlockSize > 0
  THEN file.size % BlockSize ELSE BlockSize

\* What the decoder makes of bytes that are no frame, or what is written when a
\* frame is not decoded.
Garbage(s) == [i \in DOMAIN s |-> [s[i] EXCEPT !.ks = {<<NoNonce, 0>>}]]

DecodeBlock ==
  /\ phase = "decompress" /\ file.layout = "blocks"
  /\ chunk = << >>
  /\ taken < Len(stream)
  /\ LET b == taken \div BlockSize
         upto == Least(taken + BlockLen(b), Len(stream))
         data == SubSeq(stream, taken + 1, upto)
     IN /\ chunk' = IF (StoredSize(b) < DecompressedLen(b)) = (b \in file.framed)
                    THEN data ELSE Garbage(data)
        /\ taken' = upto
  /\ UNCHANGED <<phase, partVars, body, cur, stream, file, table, em, out>>

-----------------------------------------------------------------------------
\* _BodyEmitter.consume, one turn of its loop each.

\* More than the table accounts for is written as it is.
EmitExcess ==
  /\ phase = "decompress"
  /\ chunk # << >>
  /\ em.idx > Len(table)
  /\ out' = out \o chunk
  /\ chunk' = << >>
  /\ UNCHANGED <<phase, partVars, body, cur, stream, file, table, em, taken>>

EmitNext ==
  /\ phase = "decompress"
  /\ chunk # << >>
  /\ em.idx <= Len(table)
  /\ em.left = 0
  /\ em' = At(table, em.idx + 1)
  /\ UNCHANGED <<phase, partVars, body, cur, stream, file, table, taken, chunk,
                 out>>

\* The part of the chunk that belongs to the current piece is encrypted.
EmitSlice ==
  /\ phase = "decompress"
  /\ chunk # << >>
  /\ em.idx <= Len(table)
  /\ em.left # 0
  /\ LET p == table[em.idx]
         take == Least(Len(chunk), em.left)
         Key(i) == IF p.nonce = NoNonce THEN {} ELSE {<<p.nonce, em.pos + i - 1>>}
     IN /\ out' = out \o [i \in 1..take |->
                            [chunk[i] EXCEPT !.ks = Xor(@, Key(i))]]
        /\ chunk' = SubSeq(chunk, take + 1, Len(chunk))
        /\ em' = [em EXCEPT !.left = @ - take, !.pos = @ + take]
  /\ UNCHANGED <<phase, partVars, body, cur, stream, file, table, taken>>

\* The file is read to its end; nothing checks that the pieces are filled.
FinishDecompress ==
  /\ phase = "decompress"
  /\ chunk = << >>
  /\ taken = Len(stream)
  /\ phase' = "done"
  /\ UNCHANGED <<partVars, body, cur, stream, readVars>>

-----------------------------------------------------------------------------
\* A foreign file: the reference tool compresses the body from the end of the
\* header on, each byte under the piece of the table it lies in.
OwnerIn(t, x) == {i \in DOMAIN t : t[i].offset <= x /\ x < t[i].offset + t[i].size}

\* Byte k of the stream made under table t.
CellOf(t, k) ==
  LET x == HeaderSize + k - 1
  IN [at |-> x, ks |-> UNION {KeyAt(t[i], x) : i \in OwnerIn(t, x)}]

ForeignStream(f) == [k \in 1..(f.size - HeaderSize) |-> CellOf(f.table, k)]

ForeignFile(f, layout, framed) ==
  [layout |-> layout, size |-> f.size - HeaderSize, framed |-> framed]

NotRead ==
  /\ table = << >> /\ em = At(<< >>, 1)
  /\ taken = 0 /\ chunk = << >> /\ out = << >>

InitOwn ==
  /\ phase = "partition"
  /\ nca \in Ncas
  /\ todo = nca.sections
  /\ body = << >> /\ stream = << >>
  /\ file = [layout |-> "solid", size |-> 0, framed |-> {}]

\* The codec is not run.
CodecIdle ==
  /\ phase = "done"
  /\ nca = [size |-> 0, table |-> << >>]
  /\ todo = {} /\ pointer = 0 /\ body = << >> /\ cut = NoCut
  /\ cur = [piece |-> 1, fed |-> 0]
  /\ stream = << >>
  /\ file = [layout |-> "solid", size |-> 0, framed |-> {}]
  /\ NotRead

Blocks(n) == 0..((n + BlockSize - 1) \div BlockSize - 1)

InitForeign ==
  /\ phase = "stored"
  /\ \E f \in Foreign :
       /\ nca = f
       /\ body = f.table
       /\ stream = ForeignStream(f)
       /\ \/ file = ForeignFile(f, "solid", {})
          \/ \E framed \in SUBSET Blocks(f.size - HeaderSize) :
               file = ForeignFile(f, "blocks", framed)
  /\ todo = {}

Init ==
  /\ InitOwn \/ InitForeign
  /\ pointer = HeaderSize
  /\ cut = NoCut
  /\ cur = [piece |-> 1, fed |-> 0]
  /\ NotRead

Partition ==
  \/ \E s \in todo : SkipSection(s) \/ TakeSection(s) \/ OpenTable(s)
  \/ CutEntry \/ NextBucket \/ CloseTable
  \/ EndPartition

Compress == CompressChunk \/ NextPiece \/ FinishCompress

Decompress ==
  \/ \E kept \in 0..Len(stream) : OpenNcz(kept)
  \/ \E n \in 1..Len(stream) : DecodeSolid(n)
  \/ DecodeBlock
  \/ EmitExcess \/ EmitNext \/ EmitSlice
  \/ FinishDecompress

Next == Partition \/ Compress \/ Decompress

Spec == Init /\ [][Next]_vars

-----------------------------------------------------------------------------
\* The file is made by this codec.
Own == "sections" \in DOMAIN nca

PieceEnd(p) == p.offset + p.size

\* The pieces of t follow each other from start on.
Chain(t, start) ==
  \A i \in DOMAIN t :
    /\ t[i].size >= 0
    /\ t[i].offset = IF i = 1 THEN start ELSE PieceEnd(t[i - 1])

CoverEnd(t, start) == IF t = << >> THEN start ELSE PieceEnd(t[Len(t)])

\* "a gap-free list of body sections": the table the compressor writes covers
\* the body, each byte once, however the sections of the NCA lie (gaps,
\* overlaps, partly in the header, past the end of a truncated NCA) and whatever
\* their BKTR2 tables leave to the tail.
BodyCovered ==
  Own =>
    /\ Chain(body, HeaderSize)
    /\ phase = "partition" => CoverEnd(body, HeaderSize) = pointer
    /\ phase \notin {"partition", "bktr"} =>
         CoverEnd(body, HeaderSize) = nca.size

\* What NCA n itself is encrypted under at byte x: the first section there
\* counts, and in a section with a table the entry there.
EntryAt(s, x) ==
  UNION {{<<b, e>> : e \in {k \in DOMAIN s.table[b].entries :
                             /\ s.offset + s.table[b].entries[k].at <= x
                             /\ x < s.offset + EntryEnd(s.table[b], k)}} :
           b \in DOMAIN s.table}

SectionsAt(n, x) == {s \in n.sections : s.offset <= x /\ x < s.end}

NonceIn(s, x) ==
  IF UsesTable(s) /\ EntryAt(s, x) # {}
  THEN LET be == CHOOSE be \in EntryAt(s, x) : TRUE
       IN <<s.nonce, s.table[be[1]].entries[be[2]].ctr>>
  ELSE BaseNonce(s)

FirstAt(n, x) ==
  CHOOSE s \in SectionsAt(n, x) : \A t \in SectionsAt(n, x) : s.offset <= t.offset

NonceAt(n, x) ==
  IF SectionsAt(n, x) = {} THEN NoNonce ELSE NonceIn(FirstAt(n, x), x)

OnBlock(x) == x % CtrBlock = 0

\* The sections of a real NCA: no two at one place, they and the entries of
\* their tables on cipher blocks.
WellFormed(n) ==
  \A s \in n.sections :
    /\ \A t \in n.sections : s.offset = t.offset => s = t
    /\ OnBlock(s.offset) /\ OnBlock(s.end)
    /\ \A b \in DOMAIN s.table :
         /\ OnBlock(s.table[b].end)
         /\ \A e \in DOMAIN s.table[b].entries : OnBlock(s.table[b].entries[e].at)

\* The key stream position it is encrypted with.
NcaKey(n, x) == IF NonceAt(n, x) = NoNonce THEN {} ELSE {<<NonceAt(n, x), x>>}

\* The encoder is given plaintext: on each byte the very key stream the NCA has
\* there is applied.  Under another counter the stream would be noise, which
\* comes back all the same, and no round trip would tell.
StreamIsPlain ==
  Own /\ WellFormed(nca) =>
    \A k \in DOMAIN stream : stream[k].ks = NcaKey(nca, stream[k].at)

\* What is rebuilt is the NCA from its first byte on, without a gap, and all of
\* it when the file is whole: for the files of this codec and for those of the
\* reference tool, in both layouts, whatever the decoder hands out at a time.
Rebuilt ==
  /\ Len(out) <= nca.size
  /\ \A i \in DOMAIN out : out[i] = Original(i - 1)
  /\ phase = "done" /\ Len(stream) = file.size => Len(out) = nca.size

-----------------------------------------------------------------------------
Nonces == Nat \X Nat
Pieces == [offset : Nat, size : Nat, nonce : Nonces]
Cells == [at : Nat, ks : SUBSET (Nonces \X Int)]
Buckets == [end : Nat, entries : Seq([at : Nat, ctr : Nat])]

\* The entries of table t follow each other from 0 on.
Contiguous(t) ==
  \A b \in 1..Len(t) :
    LET first == IF b = 1 THEN 0 ELSE t[b - 1].end
    IN /\ t[b].entries = << >> => t[b].end = first
       /\ \A e \in 1..Len(t[b].entries) :
            /\ t[b].entries[e].at <= EntryEnd(t[b], e)
            /\ e = 1 => t[b].entries[e].at = first

\* An NCA holds its header and the start of each section; the tables the code
\* accepts have no gap.  The pieces of a foreign file follow each other, and the
\* first alone may begin in the header.
ASSUME NczAssumption ==
  /\ CtrBlock \in Nat \ {0} /\ ChunkSize \in Nat \ {0} /\ BlockSize \in Nat \ {0}
  /\ HeaderSize \in Nat /\ OnBlock(HeaderSize)
  /\ \A n \in Ncas :
       /\ "sections" \in DOMAIN n
       /\ n.size \in Nat /\ HeaderSize <= n.size
       /\ \A s \in n.sections :
            /\ s.offset \in 0..n.size /\ s.end \in Nat /\ s.nonce \in Nat
            /\ s.table \in Seq(Buckets) /\ Contiguous(s.table)
  /\ \A f \in Foreign :
       /\ "sections" \notin DOMAIN f
       /\ f.size \in Nat /\ HeaderSize <= f.size
       /\ f.table \in Seq(Pieces)
       /\ f.table # << >> =>
            OnBlock(f.table[1].offset) /\ Chain(f.table, f.table[1].offset)
       /\ \A i \in 2..Len(f.table) : HeaderSize <= f.table[i].offset

\* Where the table being cut up goes on, relative to the section.
NextAt ==
  LET t == cut.sec.table
  IN IF cut.bucket > Len(t) THEN t[Len(t)].end
     ELSE IF cut.entry <= Len(Bucket.entries) THEN Bucket.entries[cut.entry].at
     ELSE Bucket.end

\* The pieces of a table cover the section up to the next entry.
CutOK ==
  /\ cut \in [from : Nat, to : Nat, sec : todo, bucket : Nat \ {0}, entry : Nat \ {0},
              pieces : Seq(Pieces), last : Int]
  /\ UsesTable(cut.sec)
  /\ cut.from \in cut.sec.offset..cut.to /\ cut.to <= nca.size
  /\ HeaderSize <= cut.from
  /\ cut.bucket <= Len(cut.sec.table) + 1
  /\ cut.bucket <= Len(cut.sec.table) => cut.entry <= Len(Bucket.entries) + 1
  /\ IF cut.last = -1 THEN NextAt = 0 /\ cut.pieces = << >>
     ELSE cut.last = cut.sec.offset + NextAt
  /\ Chain(cut.pieces, cut.from)
  /\ CoverEnd(cut.pieces, cut.from)
       = Most(cut.from, Least(cut.sec.offset + NextAt, cut.to))
  /\ cut.pieces # << >> => CoverEnd(cut.pieces, cut.from) > cut.from

\* The inductive invariant: the loop of _partition has covered what lies below
\* its pointer.
PartitionInv ==
  Own =>
    /\ nca \in Ncas /\ todo \subseteq nca.sections
    /\ body \in Seq(Pieces) /\ Chain(body, HeaderSize)
    /\ phase = "partition" =>
         pointer \in HeaderSize..nca.size /\ CoverEnd(body, HeaderSize) = pointer
    /\ phase = "bktr" => CutOK /\ CoverEnd(body, HeaderSize) = cut.from
    /\ phase \notin {"partition", "bktr"} => CoverEnd(body, HeaderSize) = nca.size

-----------------------------------------------------------------------------
\* The stream is what the table says of it, up to the piece being compressed.
StreamOK ==
  /\ stream \in Seq(Cells) /\ HeaderSize + Len(stream) <= nca.size
  /\ \A k \in 1..Len(stream) : stream[k] = CellOf(body, k)
  /\ phase \in {"partition", "bktr"} => stream = << >> /\ cur = [piece |-> 1, fed |-> 0]
  /\ Own => \A k \in 1..Len(stream) : OwnerIn(body, HeaderSize + k - 1) # {}

CurOK ==
  /\ cur \in [piece : 1..(Len(body) + 1), fed : Nat]
  /\ IF cur.piece > Len(body) THEN HeaderSize + Len(stream) = CoverEnd(body, HeaderSize)
     ELSE LET p == body[cur.piece]
          IN cur.fed <= p.size /\ HeaderSize + Len(stream) = p.offset + cur.fed

\* The chunk is the last of what was taken of the stream.
ChunkOK ==
  /\ taken \in 0..Len(stream)
  /\ chunk \in Seq(Cells) /\ Len(chunk) <= taken
  /\ \A i \in 1..Len(chunk) : chunk[i] = stream[taken - Len(chunk) + i]
  /\ file.layout = "blocks" => taken % BlockSize = 0 \/ taken = Len(stream)

\* All before it is rebuilt, and the emitter is there, within its piece.
EmitterOK ==
  /\ out \in Seq(Cells) /\ Len(out) + Len(chunk) = HeaderSize + taken
  /\ \A i \in 1..Len(out) : out[i] = Original(i - 1)
  /\ table = Prepare(body)
  /\ em \in [idx : 1..(Len(table) + 1), left : Nat, pos : Int]
  /\ IF em.idx > Len(table) THEN Len(out) >= CoverEnd(table, HeaderSize)
     ELSE LET p == table[em.idx]
          IN /\ em.left <= p.size
             /\ Len(out) = PieceEnd(p) - em.left
             /\ em.pos = AlignDown(p.offset) + p.size - em.left

\* The inductive invariant of the round trip.
CodecInv ==
  /\ PartitionInv
  /\ phase \in {"partition", "bktr", "compress", "stored", "decompress", "done"}
  /\ ~Own => nca \in Foreign /\ body = nca.table
  /\ phase \in {"partition", "bktr", "compress"} => Own
  /\ StreamOK
  /\ phase = "compress" => CurOK
  /\ phase \in {"stored", "decompress", "done"} => file.size = nca.size - HeaderSize
  /\ IF phase \in {"decompress", "done"} THEN ChunkOK /\ EmitterOK
     ELSE taken = 0 /\ chunk = << >> /\ out = << >>
  /\ phase = "done" => chunk = << >> /\ taken = Len(stream)

-----------------------------------------------------------------------------
\* The pieces of t are under the key stream of NCA n.
InKey(n, t) ==
  \A i \in DOMAIN t : \A x \in t[i].offset..(PieceEnd(t[i]) - 1) :
    KeyAt(t[i], x) = NcaKey(n, x)

\* The sections done lie below the pointer, so what is cut next belongs to the
\* section at hand.
KeysInv ==
  Own /\ WellFormed(nca) =>
    /\ InKey(nca, body)
    /\ phase \in {"partition", "bktr"} =>
         /\ OnBlock(pointer) \/ pointer = nca.size
         /\ \A s \in nca.sections \ todo : ClampedEnd(s) <= pointer \/ s.end <= s.offset
    /\ phase = "bktr" =>
         /\ IsNext(cut.sec) /\ pointer \in HeaderSize..nca.size
         /\ cut.from = Start(cut.sec) /\ cut.to = ClampedEnd(cut.sec)
         /\ InKey(nca, cut.pieces)
=============================================================================
