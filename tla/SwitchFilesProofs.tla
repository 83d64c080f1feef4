------------------------- MODULE SwitchFilesProofs -------------------------
(***************************************************************************)
(* Proofs about the converters of Switch files.                            *)
(*                                                                         *)
(* Ncz.compress and Ncz.decompress, for any NCA and any sizes of chunks    *)
(* and blocks:                                                             *)
(*   - the table _partition makes covers the body, each byte once;         *)
(*   - what is rebuilt is the NCA, for foreign files too;                  *)
(*   - the encoder is given plaintext: each piece is under the key stream  *)
(*     of the NCA.                                                         *)
(*                                                                         *)
(* XczArchive.compress and XczArchive.decompress, for any card image:      *)
(*   - the headers written last and in front of what they describe find    *)
(*     every file again.                                                   *)
(***************************************************************************)
EXTENDS SwitchFiles, WellFoundedInduction, TLAPS

\* Lists of pieces, and where they end.
ChainTo(t, start, end) ==
  t \in Seq(Pieces) /\ Chain(t, start) /\ CoverEnd(t, start) = end

\* No pieces cover nothing.
LEMMA EmptyChain ==
  ASSUME NEW start \in Nat
  PROVE  ChainTo(<< >>, start, start)
  BY DEF ChainTo, Chain, CoverEnd

\* A piece covers its range.
LEMMA PieceChain ==
  ASSUME NEW from \in Nat, NEW to \in Nat, from <= to, NEW nonce \in Nonces
  PROVE  ChainTo(<<Piece(from, to, nonce)>>, from, to)
<1> DEFINE p == Piece(from, to, nonce)
<1>1. /\ p.offset = from /\ p.size = to - from /\ p.size \in Nat
      /\ p \in Pieces /\ from + (to - from) = to
  BY DEF Piece, Pieces
<1> HIDE DEF p
<1>2. <<p>> \in Seq(Pieces) /\ Len(<<p>>) = 1 /\ <<p>>[1] = p /\ DOMAIN <<p>> = 1..1
      /\ <<p>> # << >>
  BY <1>1
<1>3. Chain(<<p>>, from)
  BY <1>1, <1>2 DEF Chain
<1>4. CoverEnd(<<p>>, from) = to
  BY <1>1, <1>2 DEF CoverEnd, PieceEnd
<1>5. QED
  BY <1>2, <1>3, <1>4 DEF ChainTo, p

\* A gap is covered by plain bytes.
LEMMA GapChain ==
  ASSUME NEW from \in Nat, NEW to \in Nat, from <= to
  PROVE  ChainTo(Gap(from, to), from, to)
<1>1. NoNonce \in Nonces
  BY DEF NoNonce, Nonces
<1>2. CASE to > from
  BY <1>1, <1>2, PieceChain DEF Gap
<1>3. CASE to = from
  BY <1>3, EmptyChain DEF Gap
<1>4. QED
  BY <1>2, <1>3

\* Pieces may be added where the others end.
LEMMA ChainConcat ==
  ASSUME NEW start \in Nat, NEW mid \in Nat, NEW end \in Nat, NEW t, NEW u,
         ChainTo(t, start, mid), ChainTo(u, mid, end)
  PROVE  ChainTo(t \o u, start, end)
<1>1. /\ t \in Seq(Pieces) /\ u \in Seq(Pieces)
      /\ Chain(t, start) /\ CoverEnd(t, start) = mid
      /\ Chain(u, mid) /\ CoverEnd(u, mid) = end
  BY DEF ChainTo
<1> DEFINE tu == t \o u
<1>2. /\ tu \in Seq(Pieces) /\ Len(tu) = Len(t) + Len(u) /\ DOMAIN tu = 1..Len(tu)
      /\ Len(t) \in Nat /\ Len(u) \in Nat /\ DOMAIN t = 1..Len(t) /\ DOMAIN u = 1..Len(u)
      /\ \A i \in 1..Len(t) : tu[i] = t[i]
      /\ \A i \in 1..Len(u) : tu[Len(t) + i] = u[i]
      /\ t = << >> <=> Len(t) = 0
      /\ u = << >> <=> Len(u) = 0
      /\ tu = << >> <=> Len(tu) = 0
  BY <1>1
<1> HIDE DEF tu
<1>3. Chain(tu, start)
  <2> SUFFICES ASSUME NEW i \in 1..Len(tu)
               PROVE  /\ tu[i].size >= 0
                      /\ tu[i].offset = IF i = 1 THEN start ELSE PieceEnd(tu[i - 1])
    BY <1>2 DEF Chain
  <2>1. CASE i <= Len(t)
    <3>1. tu[i] = t[i] /\ (i # 1 => tu[i - 1] = t[i - 1])
      BY <1>2, <2>1
    <3>2. i \in DOMAIN t
      BY <1>2, <2>1
    <3>3. QED
      BY <1>1, <3>1, <3>2 DEF Chain
  <2>2. CASE i = Len(t) + 1
    <3>1. tu[i] = u[1] /\ 1 \in DOMAIN u
      BY <1>2, <2>2
    <3>2. u[1].size >= 0 /\ u[1].offset = mid
      BY <1>1, <3>1 DEF Chain
    <3>3. i # 1 => t # << >> /\ tu[i - 1] = t[Len(t)]
      BY <1>2, <2>2
    <3>4. i = 1 => t = << >>
      BY <1>2, <2>2
    <3>5. mid = IF i = 1 THEN start ELSE PieceEnd(tu[i - 1])
      BY <1>1, <3>3, <3>4 DEF CoverEnd
    <3>6. QED
      BY <3>1, <3>2, <3>5
  <2>3. CASE i > Len(t) + 1
    <3>1. PICK j \in 1..Len(u) : i = Len(t) + j
      <4>1. i - Len(t) \in 1..Len(u) /\ i = Len(t) + (i - Len(t))
        BY <1>2, <2>3
      <4>2. QED
        BY <4>1
    <3>2. j # 1 /\ j - 1 \in 1..Len(u) /\ i - 1 = Len(t) + (j - 1) /\ i # 1
      BY <1>2, <2>3, <3>1
    <3>3. tu[i] = u[j] /\ tu[i - 1] = u[j - 1]
      BY <1>2, <3>1, <3>2
    <3>4. u[j].size >= 0 /\ u[j].offset = PieceEnd(u[j - 1])
      BY <1>1, <1>2, <3>1, <3>2 DEF Chain
    <3>5. QED
      BY <3>2, <3>3, <3>4
  <2>4. QED
    BY <1>2, <2>1, <2>2, <2>3
<1>4. CoverEnd(tu, start) = end
  <2>1. CASE u = << >>
    <3>1. tu = t /\ end = mid
      BY <1>1, <2>1 DEF CoverEnd, tu
    <3>2. QED
      BY <1>1, <3>1
  <2>2. CASE u # << >>
    <3>1. tu # << >> /\ tu[Len(tu)] = u[Len(u)]
      BY <1>2, <2>2
    <3>2. QED
      BY <1>1, <2>2, <3>1 DEF CoverEnd
  <2>3. QED
    BY <2>1, <2>2
<1>5. QED
  BY <1>2, <1>3, <1>4 DEF ChainTo, tu

-----------------------------------------------------------------------------
\* What is known of an NCA and of its sections.
LEMMA NcaTypes ==
  ASSUME nca \in Ncas
  PROVE  /\ HeaderSize \in Nat /\ nca.size \in Nat /\ HeaderSize <= nca.size
         /\ Own
         /\ \A s \in nca.sections :
              /\ s.offset \in Nat /\ s.offset <= nca.size /\ s.end \in Nat
              /\ s.table \in Seq(Buckets) /\ Contiguous(s.table)
              /\ BaseNonce(s) \in Nonces
              /\ \A c \in Nat : EntryNonce(s, c) \in Nonces
<1>1. /\ HeaderSize \in Nat /\ nca.size \in Nat /\ HeaderSize <= nca.size /\ Own
      /\ \A s \in nca.sections :
           /\ s.offset \in 0..nca.size /\ s.end \in Nat
           /\ s.table \in Seq(Buckets) /\ Contiguous(s.table)
  BY NczAssumption DEF NczAssumption, Own
<1>2. ASSUME NEW s \in nca.sections
      PROVE  BaseNonce(s) \in Nonces /\ \A c \in Nat : EntryNonce(s, c) \in Nonces
  <2>1. s.nonce \in Nat
    BY NczAssumption DEF NczAssumption
  <2>2. QED
    BY <2>1 DEF BaseNonce, EntryNonce, Nonces, NoNonce
<1>3. QED
  BY <1>1, <1>2

\* A section that is not skipped has a range after the pointer.
LEMMA SectionRange ==
  ASSUME nca \in Ncas, NEW s \in nca.sections, pointer \in HeaderSize..nca.size,
         Start(s) < s.end
  PROVE  /\ Start(s) \in Nat /\ ClampedEnd(s) \in Nat
         /\ pointer <= Start(s) /\ s.offset <= Start(s) /\ Start(s) <= ClampedEnd(s)
         /\ ClampedEnd(s) \in HeaderSize..nca.size
<1>1. /\ HeaderSize \in Nat /\ nca.size \in Nat /\ s.offset \in Nat
      /\ s.offset <= nca.size /\ s.end \in Nat /\ pointer \in Nat
  BY NcaTypes
<1>2. QED
  BY <1>1 DEF Start, ClampedEnd, Most, Least

LEMMA InitInv == Init => PartitionInv
<1> SUFFICES ASSUME Init, Own PROVE PartitionInv
  BY DEF PartitionInv
<1>1. InitOwn
  BY NczAssumption DEF Init, InitForeign, Own, NczAssumption
<1>2. nca \in Ncas /\ phase = "partition" /\ body = << >> /\ pointer = HeaderSize
      /\ todo = nca.sections
  BY <1>1 DEF Init, InitOwn
<1>3. HeaderSize \in Nat /\ pointer \in HeaderSize..nca.size
  BY <1>2, NcaTypes
<1>4. ChainTo(body, HeaderSize, HeaderSize)
  BY <1>2, <1>3, EmptyChain
<1>5. QED
  BY <1>2, <1>3, <1>4 DEF PartitionInv, ChainTo

\* A turn of the loop that takes a section, or starts to cut it up.
LEMMA SectionStep ==
  ASSUME PartitionInv, Own, NEW s \in todo, SkipSection(s) \/ TakeSection(s)
  PROVE  PartitionInv'
<1>0. /\ nca \in Ncas /\ todo \subseteq nca.sections /\ s \in nca.sections
      /\ phase = "partition" /\ ChainTo(body, HeaderSize, pointer)
      /\ pointer \in HeaderSize..nca.size
      /\ HeaderSize \in Nat /\ nca.size \in Nat /\ pointer \in Nat
      /\ phase' = phase /\ nca' = nca /\ todo' = todo \ {s}
  BY NcaTypes DEF PartitionInv, ChainTo, SkipSection, TakeSection
<1>1. pointer' \in HeaderSize..nca.size /\ ChainTo(body', HeaderSize, pointer')
  <2>1. CASE SkipSection(s)
    BY <1>0, <2>1 DEF SkipSection
  <2>2. CASE TakeSection(s)
    <3>1. /\ Start(s) < s.end /\ pointer' = ClampedEnd(s)
          /\ body' = body \o Gap(pointer, Start(s))
                         \o <<Piece(Start(s), ClampedEnd(s), BaseNonce(s))>>
      BY <2>2 DEF TakeSection
    <3>2. /\ Start(s) \in Nat /\ ClampedEnd(s) \in Nat
          /\ pointer <= Start(s) /\ Start(s) <= ClampedEnd(s)
          /\ ClampedEnd(s) \in HeaderSize..nca.size
      BY <1>0, <3>1, SectionRange
    <3>3. ChainTo(Gap(pointer, Start(s)), pointer, Start(s))
      BY <1>0, <3>2, GapChain
    <3>4. ChainTo(body \o Gap(pointer, Start(s)), HeaderSize, Start(s))
      BY <1>0, <3>2, <3>3, ChainConcat
    <3>5. BaseNonce(s) \in Nonces
      BY <1>0, NcaTypes
    <3>6. ChainTo(<<Piece(Start(s), ClampedEnd(s), BaseNonce(s))>>,
                  Start(s), ClampedEnd(s))
      BY <3>2, <3>5, PieceChain
    <3>7. ChainTo(body', HeaderSize, ClampedEnd(s))
      BY <1>0, <3>1, <3>2, <3>4, <3>6, ChainConcat
    <3>8. QED
      BY <3>1, <3>2, <3>7
  <2>3. QED
    BY <2>1, <2>2
<1>2. QED
  BY <1>0, <1>1 DEF PartitionInv, ChainTo

\* Where a table in which no entry is passed yet goes on.
LEMMA FirstEntry ==
  ASSUME NEW t \in Seq(Buckets), t # << >>, Contiguous(t)
  PROVE  /\ Len(t) \in Nat /\ Len(t) >= 1 /\ t[1] \in Buckets
         /\ t[1].entries = << >> => t[1].end = 0
         /\ t[1].entries # << >> =>
              Len(t[1].entries) >= 1 /\ t[1].entries[1].at = 0
<1>1. Len(t) \in Nat /\ Len(t) >= 1 /\ t[1] \in Buckets
  OBVIOUS
<1>2. /\ t[1].entries = << >> => t[1].end = 0
      /\ \A e \in 1..Len(t[1].entries) : e = 1 => t[1].entries[e].at = 0
  BY <1>1 DEF Contiguous
<1>3. t[1].entries # << >> => Len(t[1].entries) >= 1
  BY <1>1 DEF Buckets
<1>4. Len(t[1].entries) \in Nat
  BY <1>1 DEF Buckets
<1>5. QED
  BY <1>1, <1>2, <1>3, <1>4

LEMMA OpenTableStep ==
  ASSUME PartitionInv, Own, NEW s \in todo, OpenTable(s)
  PROVE  PartitionInv'
<1>0. /\ nca \in Ncas /\ todo \subseteq nca.sections /\ s \in nca.sections
      /\ ChainTo(body, HeaderSize, pointer)
      /\ pointer \in HeaderSize..nca.size
      /\ HeaderSize \in Nat /\ nca.size \in Nat /\ pointer \in Nat
      /\ Start(s) < s.end /\ UsesTable(s)
      /\ body' = body \o Gap(pointer, Start(s))
      /\ cut' = [from |-> Start(s), to |-> ClampedEnd(s), sec |-> s,
                 bucket |-> 1, entry |-> 1, pieces |-> << >>, last |-> -1]
      /\ phase' = "bktr" /\ nca' = nca /\ todo' = todo
  BY NcaTypes DEF PartitionInv, ChainTo, OpenTable
<1>1. /\ Start(s) \in Nat /\ ClampedEnd(s) \in Nat
      /\ pointer <= Start(s) /\ s.offset <= Start(s) /\ Start(s) <= ClampedEnd(s)
      /\ ClampedEnd(s) \in HeaderSize..nca.size
      /\ s.offset \in Nat /\ s.table \in Seq(Buckets) /\ Contiguous(s.table)
  BY <1>0, SectionRange, NcaTypes
<1>2. ChainTo(body', HeaderSize, Start(s))
  <2>1. ChainTo(Gap(pointer, Start(s)), pointer, Start(s))
    BY <1>0, <1>1, GapChain
  <2>2. QED
    BY <1>0, <1>1, <2>1, ChainConcat
<1>3. /\ s.table # << >> /\ Len(s.table) \in Nat /\ Len(s.table) >= 1
      /\ s.table[1] \in Buckets
      /\ s.table[1].entries = << >> => s.table[1].end = 0
      /\ s.table[1].entries # << >> =>
           Len(s.table[1].entries) >= 1 /\ s.table[1].entries[1].at = 0
  BY <1>0, <1>1, FirstEntry DEF UsesTable
<1>4. /\ cut'.from = Start(s) /\ cut'.to = ClampedEnd(s) /\ cut'.sec = s
      /\ cut'.bucket = 1 /\ cut'.entry = 1 /\ cut'.pieces = << >> /\ cut'.last = -1
  BY <1>0
<1>5. NextAt' = 0
  <2>1. Len(s.table[1].entries) \in Nat
    BY <1>3 DEF Buckets
  <2>2. CASE s.table[1].entries = << >>
    BY <1>3, <1>4, <2>2 DEF NextAt, Bucket
  <2>3. CASE s.table[1].entries # << >>
    BY <1>3, <1>4, <2>3 DEF NextAt, Bucket
  <2>4. QED
    BY <2>2, <2>3
<1>6. /\ Chain(<< >>, Start(s)) /\ CoverEnd(<< >>, Start(s)) = Start(s)
      /\ << >> \in Seq(Pieces)
  BY <1>1, EmptyChain DEF ChainTo
<1>7. cut' \in [from : Nat, to : Nat, sec : todo, bucket : Nat \ {0}, entry : Nat \ {0},
               pieces : Seq(Pieces), last : Int]
  BY <1>0, <1>1, <1>6
<1>8. Start(s) = Most(Start(s), Least(s.offset + 0, ClampedEnd(s)))
  BY <1>1 DEF Most, Least
<1>9. Len(s.table[1].entries) \in Nat
  BY <1>3 DEF Buckets
<1>10. CutOK'
  <2>1. /\ cut.from' \in cut.sec.offset'..cut.to' /\ cut.to' <= nca.size'
        /\ HeaderSize <= cut.from'
    BY <1>0, <1>1, <1>4
  <2>2. /\ cut.bucket' <= Len(cut.sec.table)' + 1
        /\ cut.entry' <= Len(Bucket.entries)' + 1
    BY <1>3, <1>4, <1>9 DEF Bucket
  <2>3. UsesTable(cut.sec)'
    BY <1>0, <1>4 DEF UsesTable
  <2>4. QED
    BY <1>0, <1>4, <1>5, <1>6, <1>7, <1>8, <2>1, <2>2, <2>3 DEF CutOK
<1>11. QED
  BY <1>0, <1>2, <1>4, <1>10 DEF PartitionInv, ChainTo

\* What CutOK says of the table, in a form that fits the provers.
LEMMA CutTypes ==
  ASSUME PartitionInv, Own, phase = "bktr"
  PROVE  /\ nca \in Ncas /\ todo \subseteq nca.sections /\ CutOK
         /\ ChainTo(body, HeaderSize, cut.from)
         /\ HeaderSize \in Nat /\ nca.size \in Nat
         /\ cut.sec \in nca.sections /\ cut.sec.offset \in Nat
         /\ cut.sec.table \in Seq(Buckets) /\ Contiguous(cut.sec.table)
         /\ Len(cut.sec.table) \in Nat /\ Len(cut.sec.table) >= 1
         /\ cut.from \in Nat /\ cut.to \in Nat /\ cut.from <= cut.to
         /\ cut.sec.offset <= cut.from /\ cut.to <= nca.size /\ HeaderSize <= cut.from
         /\ cut.bucket \in Nat /\ cut.bucket >= 1 /\ cut.entry \in Nat /\ cut.entry >= 1
         /\ cut.pieces \in Seq(Pieces) /\ cut.last \in Int
         /\ BaseNonce(cut.sec) \in Nonces
         /\ \A c \in Nat : EntryNonce(cut.sec, c) \in Nonces
<1>1. /\ nca \in Ncas /\ todo \subseteq nca.sections /\ CutOK
      /\ ChainTo(body, HeaderSize, cut.from)
  BY DEF PartitionInv, ChainTo
<1>2. /\ cut \in [from : Nat, to : Nat, sec : todo, bucket : Nat \ {0}, entry : Nat \ {0},
                  pieces : Seq(Pieces), last : Int]
      /\ cut.from \in cut.sec.offset..cut.to /\ cut.to <= nca.size
      /\ HeaderSize <= cut.from /\ cut.sec.table # << >>
  BY <1>1 DEF CutOK, UsesTable
<1>3. /\ HeaderSize \in Nat /\ nca.size \in Nat
      /\ cut.sec \in nca.sections /\ cut.sec.offset \in Nat
      /\ cut.sec.table \in Seq(Buckets) /\ Contiguous(cut.sec.table)
      /\ BaseNonce(cut.sec) \in Nonces
      /\ \A c \in Nat : EntryNonce(cut.sec, c) \in Nonces
  BY <1>1, <1>2, NcaTypes
<1>4. Len(cut.sec.table) \in Nat /\ Len(cut.sec.table) >= 1
  BY <1>2, <1>3
<1>5. /\ cut.from \in Nat /\ cut.to \in Nat /\ cut.from <= cut.to
      /\ cut.sec.offset <= cut.from
      /\ cut.bucket \in Nat /\ cut.bucket >= 1 /\ cut.entry \in Nat /\ cut.entry >= 1
      /\ cut.pieces \in Seq(Pieces) /\ cut.last \in Int
  BY <1>2, <1>3
<1>6. QED
  BY <1>1, <1>2, <1>3, <1>4, <1>5

LEMMA Element ==
  ASSUME NEW S, NEW q \in Seq(S), NEW j \in 1..Len(q)
  PROVE  q[j] \in S
  OBVIOUS

\* An entry and the one it is followed by.
LEMMA EntryFacts ==
  ASSUME NEW t \in Seq(Buckets), Contiguous(t), NEW i \in 1..Len(t),
         NEW k \in 1..Len(t[i].entries)
  PROVE  /\ t[i].entries[k].at \in Nat /\ t[i].entries[k].ctr \in Nat
         /\ EntryEnd(t[i], k) \in Nat /\ t[i].entries[k].at <= EntryEnd(t[i], k)
<1>1. t[i] \in Buckets
  OBVIOUS
<1>2. t[i].entries \in Seq([at : Nat, ctr : Nat]) /\ t[i].end \in Nat
  BY <1>1 DEF Buckets
<1>3. \A j \in 1..Len(t[i].entries) :
        t[i].entries[j].at \in Nat /\ t[i].entries[j].ctr \in Nat
  <2> SUFFICES ASSUME NEW j \in 1..Len(t[i].entries)
               PROVE  t[i].entries[j].at \in Nat /\ t[i].entries[j].ctr \in Nat
    OBVIOUS
  <2>1. t[i].entries[j] \in [at : Nat, ctr : Nat]
    BY <1>2, Element
  <2>2. QED
    BY <2>1
<1>4. EntryEnd(t[i], k) \in Nat
  <2>1. Len(t[i].entries) \in Nat
    BY <1>2
  <2>2. k < Len(t[i].entries) => k + 1 \in 1..Len(t[i].entries)
    BY <2>1
  <2>3. QED
    BY <1>2, <1>3, <2>2 DEF EntryEnd
<1>5. t[i].entries[k].at <= EntryEnd(t[i], k)
  BY DEF Contiguous
<1>6. QED
  BY <1>3, <1>4, <1>5

\* The next bucket goes on where the last one ended.
LEMMA BucketFacts ==
  ASSUME NEW t \in Seq(Buckets), Contiguous(t), NEW i \in 1..Len(t), i + 1 \in 1..Len(t)
  PROVE  /\ Len(t[i + 1].entries) \in Nat
         /\ t[i].end = IF 1 <= Len(t[i + 1].entries) THEN t[i + 1].entries[1].at
                       ELSE t[i + 1].end
<1>1. t[i + 1] \in Buckets
  OBVIOUS
<1>2. t[i + 1].entries \in Seq([at : Nat, ctr : Nat])
  BY <1>1 DEF Buckets
<1>3. Len(t[i + 1].entries) \in Nat
      /\ (~(1 <= Len(t[i + 1].entries)) => t[i + 1].entries = << >>)
  BY <1>2
<1>4. /\ t[i + 1].entries = << >> => t[i + 1].end = t[i].end
      /\ \A k \in 1..Len(t[i + 1].entries) :
           k = 1 => t[i + 1].entries[k].at = t[i].end
  <2>1. i + 1 # 1 /\ (i + 1) - 1 = i
    OBVIOUS
  <2>2. QED
    BY <2>1 DEF Contiguous
<1>5. QED
  BY <1>3, <1>4

LEMMA CutEntryStep ==
  ASSUME PartitionInv, Own, CutEntry
  PROVE  PartitionInv'
<1> DEFINE t == cut.sec.table
           b == t[cut.bucket]
           e == b.entries[cut.entry]
           lo == cut.sec.offset + e.at
           hi == cut.sec.offset + EntryEnd(b, cut.entry)
           from == Most(lo, cut.from)
           to == Least(hi, cut.to)
           piece == Piece(from, to, EntryNonce(cut.sec, e.ctr))
           pieces == IF from < to THEN Append(cut.pieces, piece) ELSE cut.pieces
<1>0. /\ phase = "bktr" /\ cut.bucket <= Len(t) /\ cut.entry <= Len(b.entries)
      /\ cut' = [cut EXCEPT !.entry = @ + 1, !.last = hi, !.pieces = pieces]
      /\ UNCHANGED <<phase, nca, todo, body>>
  BY DEF CutEntry, Bucket
<1>1. /\ nca \in Ncas /\ todo \subseteq nca.sections /\ CutOK
      /\ ChainTo(body, HeaderSize, cut.from)
      /\ cut.sec.offset \in Nat /\ t \in Seq(Buckets) /\ Contiguous(t) /\ Len(t) \in Nat
      /\ cut.from \in Nat /\ cut.to \in Nat /\ cut.from <= cut.to
      /\ cut.bucket \in Nat /\ cut.bucket >= 1 /\ cut.entry \in Nat /\ cut.entry >= 1
      /\ cut.pieces \in Seq(Pieces)
      /\ \A c \in Nat : EntryNonce(cut.sec, c) \in Nonces
  BY <1>0, CutTypes
<1>2. /\ cut \in [from : Nat, to : Nat, sec : todo, bucket : Nat \ {0}, entry : Nat \ {0},
                  pieces : Seq(Pieces), last : Int]
      /\ Chain(cut.pieces, cut.from)
      /\ CoverEnd(cut.pieces, cut.from)
           = Most(cut.from, Least(cut.sec.offset + NextAt, cut.to))
      /\ cut.pieces # << >> => CoverEnd(cut.pieces, cut.from) > cut.from
      /\ UsesTable(cut.sec) /\ cut.from \in cut.sec.offset..cut.to /\ cut.to <= nca.size
      /\ HeaderSize <= cut.from
  BY <1>1 DEF CutOK
<1>place. /\ cut.bucket \in Nat /\ cut.bucket >= 1 /\ cut.bucket <= Len(t)
          /\ Len(t) \in Nat /\ cut.entry <= Len(b.entries)
  BY <1>0, <1>1, Zenon
<1>3. /\ cut.bucket \in 1..Len(t) /\ Len(b.entries) \in Nat
      /\ cut.entry \in 1..Len(b.entries)
  <2>1. cut.bucket \in 1..Len(t)
    BY <1>place
  <2>2. b \in Buckets
    BY <1>1, <2>1
  <2> HIDE DEF b
  <2>3. Len(b.entries) \in Nat
    BY <2>2 DEF Buckets
  <2>4. QED
    BY <1>0, <1>1, <2>1, <2>3
<1>4. /\ e.at \in Nat /\ e.ctr \in Nat /\ EntryEnd(b, cut.entry) \in Nat
      /\ e.at <= EntryEnd(b, cut.entry)
  BY <1>1, <1>3, EntryFacts
<1>6. NextAt = e.at
  <2>1. ~(cut.bucket > Len(t)) /\ cut.entry <= Len(b.entries)
    BY <1>place
  <2>2. QED
    BY <2>1 DEF NextAt, Bucket
<1>7. /\ cut'.from = cut.from /\ cut'.to = cut.to /\ cut'.sec = cut.sec
      /\ cut'.bucket = cut.bucket /\ cut'.entry = cut.entry + 1
      /\ cut'.pieces = pieces /\ cut'.last = hi
  BY <1>0, <1>2
<1>8. NextAt' = EntryEnd(b, cut.entry)
  <2>1. /\ cut'.sec.table = t /\ Bucket' = b
    BY <1>7 DEF Bucket
  <2>2. ~(cut'.bucket > Len(t))
    <3>1. cut'.bucket = cut.bucket
      BY <1>7, Zenon
    <3>2. QED
      BY <1>place, <3>1
  <2>3. NextAt' = IF cut'.entry <= Len(b.entries) THEN b.entries[cut'.entry].at
                  ELSE b.end
    BY <2>1, <2>2 DEF NextAt
  <2>4. (cut.entry < Len(b.entries)) <=> (cut.entry + 1 <= Len(b.entries))
    <3> HIDE DEF b
    <3>1. QED
      BY <1>1, <1>3
  <2>5. EntryEnd(b, cut.entry) = IF cut.entry < Len(b.entries)
                                 THEN b.entries[cut.entry + 1].at ELSE b.end
    BY DEF EntryEnd
  <2> HIDE DEF b
  <2>6. QED
    BY <1>7, <2>3, <2>4, <2>5
<1>9. /\ lo \in Nat /\ hi \in Nat /\ lo <= hi /\ hi # -1
  <2> HIDE DEF e, b
  <2>1. QED
    BY <1>1, <1>4, SMTT(30)
<1>10. /\ ChainTo(pieces, cut.from, Most(cut.from, Least(hi, cut.to)))
       /\ pieces # << >> => CoverEnd(pieces, cut.from) > cut.from
  <2> HIDE DEF lo, hi
  <2>0. lo = cut.sec.offset + NextAt
    BY <1>6 DEF lo
  <2>1. CoverEnd(cut.pieces, cut.from) = Most(cut.from, Least(lo, cut.to))
    BY <1>2, <2>0
  <2>2. CASE from < to
    <3>1. /\ from \in Nat /\ to \in Nat
          /\ from = Most(cut.from, Least(lo, cut.to))
          /\ to = Most(cut.from, Least(hi, cut.to)) /\ to > cut.from
      BY <1>1, <1>9, <2>2 DEF Most, Least
    <3>2. EntryNonce(cut.sec, e.ctr) \in Nonces
      BY <1>1, <1>4
    <3> HIDE DEF from, to, e
    <3>3. ChainTo(<<piece>>, from, to)
      BY <2>2, <3>1, <3>2, PieceChain
    <3>4. ChainTo(cut.pieces, cut.from, from)
      BY <1>1, <1>2, <2>1, <3>1 DEF ChainTo
    <3>5. ChainTo(cut.pieces \o <<piece>>, cut.from, to)
      BY <1>1, <3>1, <3>3, <3>4, ChainConcat
    <3>6. piece \in Pieces
      <4>1. <<piece>> \in Seq(Pieces) /\ Len(<<piece>>) = 1 /\ <<piece>>[1] = piece
        BY <3>3 DEF ChainTo
      <4>2. QED
        BY <4>1
    <3> HIDE DEF piece
    <3>7. Append(cut.pieces, piece) = cut.pieces \o <<piece>>
      BY <1>1, <3>6
    <3>8. pieces = cut.pieces \o <<piece>>
      BY <2>2, <3>7
    <3>9. QED
      BY <3>1, <3>5, <3>8 DEF ChainTo
  <2>3. CASE ~(from < to)
    <3>1. Most(cut.from, Least(lo, cut.to)) = Most(cut.from, Least(hi, cut.to))
      BY <1>1, <1>9, <2>3 DEF Most, Least
    <3>2. pieces = cut.pieces
      BY <2>3
    <3>3. QED
      BY <1>1, <1>2, <2>1, <3>1, <3>2 DEF ChainTo
  <2>4. QED
    BY <2>2, <2>3
<1>11. CutOK'
  <2>1. pieces \in Seq(Pieces) /\ Chain(pieces, cut.from)
        /\ CoverEnd(pieces, cut.from) = Most(cut.from, Least(hi, cut.to))
    BY <1>10 DEF ChainTo
  <2> HIDE DEF pieces, hi
  <2>2. cut' \in [from : Nat, to : Nat, sec : todo, bucket : Nat \ {0}, entry : Nat \ {0},
                 pieces : Seq(Pieces), last : Int]
    <3>1. cut' = [from |-> cut.from, to |-> cut.to, sec |-> cut.sec, bucket |-> cut.bucket,
                  entry |-> cut.entry + 1, pieces |-> pieces, last |-> hi]
      BY <1>0, <1>2
    <3>2. /\ cut.from \in Nat /\ cut.to \in Nat /\ cut.sec \in todo
          /\ cut.bucket \in Nat \ {0} /\ cut.entry + 1 \in Nat \ {0} /\ hi \in Int
      BY <1>1, <1>2, <1>9, SMTT(30)
    <3>3. QED
      BY <2>1, <3>1, <3>2
  <2>3. /\ cut'.last = hi /\ hi # -1 /\ hi = cut.sec.offset + NextAt'
    BY <1>7, <1>8, <1>9 DEF hi
  <2>4. /\ cut'.entry <= Len(Bucket.entries)' + 1 /\ cut'.bucket <= Len(t) + 1
    <3>1. Bucket' = b
      BY <1>7 DEF Bucket
    <3>2. cut.entry + 1 <= Len(b.entries) + 1 /\ cut.bucket <= Len(t) + 1
      <4> HIDE DEF b, t
      <4>1. QED
        BY <1>1, <1>3
    <3>3. QED
      BY <1>7, <3>1, <3>2
  <2>5. UsesTable(cut.sec)' /\ todo' = todo /\ nca' = nca
    BY <1>0, <1>2, <1>7 DEF UsesTable
  <2>6. /\ cut'.from \in cut'.sec.offset..cut'.to /\ cut'.to <= nca'.size
        /\ HeaderSize <= cut'.from /\ cut'.bucket <= Len(cut'.sec.table) + 1
        /\ cut'.entry <= Len(Bucket.entries)' + 1
    BY <1>2, <1>7, <2>4, <2>5
  <2>7. /\ cut'.last # -1 /\ cut'.last = cut'.sec.offset + NextAt'
        /\ Chain(cut'.pieces, cut'.from)
        /\ CoverEnd(cut'.pieces, cut'.from)
             = Most(cut'.from, Least(cut'.sec.offset + NextAt', cut'.to))
        /\ cut'.pieces # << >> => CoverEnd(cut'.pieces, cut'.from) > cut'.from
    BY <1>7, <1>10, <2>1, <2>3
  <2>8. QED
    BY <2>2, <2>5, <2>6, <2>7 DEF CutOK
<1>12. QED
  BY <1>0, <1>1, <1>7, <1>11 DEF PartitionInv, ChainTo

LEMMA NextBucketStep ==
  ASSUME PartitionInv, Own, NextBucket
  PROVE  PartitionInv'
<1> DEFINE t == cut.sec.table
           b == t[cut.bucket]
<1>0. /\ phase = "bktr" /\ cut.bucket <= Len(t) /\ cut.entry > Len(b.entries)
      /\ cut' = [cut EXCEPT !.bucket = @ + 1, !.entry = 1]
      /\ UNCHANGED <<phase, nca, todo, body>>
  BY DEF NextBucket, Bucket
<1>1. /\ nca \in Ncas /\ todo \subseteq nca.sections /\ CutOK
      /\ ChainTo(body, HeaderSize, cut.from)
      /\ t \in Seq(Buckets) /\ Contiguous(t) /\ Len(t) \in Nat
      /\ cut.bucket \in Nat /\ cut.bucket >= 1 /\ cut.entry \in Nat
  BY <1>0, CutTypes
<1>2. cut \in [from : Nat, to : Nat, sec : todo, bucket : Nat \ {0}, entry : Nat \ {0},
              pieces : Seq(Pieces), last : Int]
  BY <1>1 DEF CutOK
<1>3. /\ cut'.from = cut.from /\ cut'.to = cut.to /\ cut'.sec = cut.sec
      /\ cut'.bucket = cut.bucket + 1 /\ cut'.entry = 1
      /\ cut'.pieces = cut.pieces /\ cut'.last = cut.last
  BY <1>0, <1>2
<1>4. NextAt = b.end
  BY <1>0, <1>1 DEF NextAt, Bucket
<1>5. NextAt' = b.end /\ (cut.bucket + 1 <= Len(t) => 1 <= Len(t[cut.bucket + 1].entries) + 1)
  <2>1. CASE cut.bucket + 1 > Len(t)
    <3>1. cut.bucket = Len(t)
      BY <1>0, <1>1, <2>1
    <3>2. QED
      BY <1>3, <2>1, <3>1, <1>1 DEF NextAt
  <2>2. CASE cut.bucket + 1 <= Len(t)
    <3>1. cut.bucket \in 1..Len(t) /\ cut.bucket + 1 \in 1..Len(t)
      BY <1>1, <2>2
    <3> DEFINE n == t[cut.bucket + 1]
               next == IF 1 <= Len(n.entries) THEN n.entries[1].at ELSE n.end
    <3>2. Len(n.entries) \in Nat /\ b.end = next
      BY <1>1, <3>1, BucketFacts
    <3>3. NextAt' = next
      BY <1>1, <1>3, <2>2 DEF NextAt, Bucket
    <3> HIDE DEF n, next, b
    <3>4. NextAt' = b.end
      BY <3>2, <3>3
    <3>5. 1 <= Len(n.entries) + 1
      <4>1. Len(n.entries) \in Nat
        BY <3>2
      <4>2. \A k \in Nat : 1 <= k + 1
        OBVIOUS
      <4>3. QED
        BY <4>1, <4>2
    <3>6. QED
      BY <3>4, <3>5 DEF n, b
  <2>3. QED
    BY <1>1, <2>1, <2>2
<1>6. CutOK'
  <2>1. cut' \in [from : Nat, to : Nat, sec : todo, bucket : Nat \ {0}, entry : Nat \ {0},
                 pieces : Seq(Pieces), last : Int]
    <3>1. cut' = [from |-> cut.from, to |-> cut.to, sec |-> cut.sec,
                  bucket |-> cut.bucket + 1, entry |-> 1, pieces |-> cut.pieces,
                  last |-> cut.last]
      BY <1>0, <1>2
    <3>2. /\ cut.from \in Nat /\ cut.to \in Nat /\ cut.sec \in todo
          /\ cut.bucket + 1 \in Nat \ {0} /\ cut.pieces \in Seq(Pieces) /\ cut.last \in Int
      BY <1>1, <1>2
    <3>3. QED
      BY <3>1, <3>2
  <2>2. /\ cut'.bucket <= Len(t) + 1
        /\ cut'.bucket <= Len(t) => cut'.entry <= Len(Bucket.entries)' + 1
    BY <1>0, <1>1, <1>3, <1>5 DEF Bucket
  <2>3. NextAt' = NextAt
    BY <1>4, <1>5
  <2>4. QED
    BY <1>0, <1>1, <1>3, <2>1, <2>2, <2>3 DEF CutOK, UsesTable
<1>7. QED
  BY <1>0, <1>1, <1>3, <1>6 DEF PartitionInv, ChainTo

\* The tail, or the one piece when the table gave none, completes the range.
LEMMA CloseTableStep ==
  ASSUME PartitionInv, Own, CloseTable
  PROVE  PartitionInv'
<1> DEFINE whole == IF cut.pieces \o TableTail = << >>
                    THEN <<Piece(cut.from, cut.to, BaseNonce(cut.sec))>>
                    ELSE cut.pieces \o TableTail
<1>0. /\ phase = "bktr" /\ cut.bucket > Len(cut.sec.table)
      /\ body' = body \o whole /\ pointer' = cut.to
      /\ todo' = todo \ {cut.sec} /\ phase' = "partition" /\ nca' = nca
  BY DEF CloseTable
<1>1. /\ nca \in Ncas /\ todo \subseteq nca.sections /\ CutOK
      /\ ChainTo(body, HeaderSize, cut.from)
      /\ HeaderSize \in Nat /\ nca.size \in Nat
      /\ cut.from \in Nat /\ cut.to \in Nat /\ cut.from <= cut.to /\ cut.to <= nca.size
      /\ HeaderSize <= cut.from
      /\ cut.pieces \in Seq(Pieces) /\ cut.last \in Int
      /\ BaseNonce(cut.sec) \in Nonces
  BY <1>0, CutTypes
<1>2. /\ IF cut.last = -1 THEN NextAt = 0 /\ cut.pieces = << >>
         ELSE cut.last = cut.sec.offset + NextAt
      /\ Chain(cut.pieces, cut.from)
      /\ CoverEnd(cut.pieces, cut.from)
           = Most(cut.from, Least(cut.sec.offset + NextAt, cut.to))
      /\ cut.pieces # << >> => CoverEnd(cut.pieces, cut.from) > cut.from
  BY <1>1 DEF CutOK
<1>3. ChainTo(whole, cut.from, cut.to)
  <2> DEFINE tail == Piece(cut.last, cut.to, BaseNonce(cut.sec))
  <2>1. CASE cut.last >= cut.from /\ cut.last < cut.to
    <3>1. cut.last \in Nat /\ cut.last # -1 /\ cut.last <= cut.to
      BY <1>1, <2>1
    <3>2. CoverEnd(cut.pieces, cut.from) = cut.last
      <4>1. CoverEnd(cut.pieces, cut.from) = Most(cut.from, Least(cut.last, cut.to))
        BY <1>2, <3>1
      <4>2. QED
        BY <1>1, <2>1, <3>1, <4>1 DEF Most, Least
    <3>3. ChainTo(cut.pieces, cut.from, cut.last)
      BY <1>1, <1>2, <3>2 DEF ChainTo
    <3>4. ChainTo(<<tail>>, cut.last, cut.to)
      BY <1>1, <3>1, PieceChain
    <3>5. ChainTo(cut.pieces \o <<tail>>, cut.from, cut.to)
      <4> HIDE DEF tail
      <4>1. QED
        BY <1>1, <3>1, <3>3, <3>4, ChainConcat
    <3>6. cut.pieces \o <<tail>> # << >>
      <4>1. <<tail>> \in Seq(Pieces) /\ Len(<<tail>>) = 1
        BY <3>4 DEF ChainTo
      <4> HIDE DEF tail
      <4>2. Len(cut.pieces \o <<tail>>) = Len(cut.pieces) + 1 /\ Len(cut.pieces) \in Nat
        BY <1>1, <4>1
      <4>3. QED
        BY <4>2
    <3>7. TableTail = <<tail>>
      BY <2>1 DEF TableTail
    <3>8. whole = cut.pieces \o <<tail>>
      BY <3>6, <3>7
    <3>9. QED
      BY <3>5, <3>8
  <2>2. CASE ~(cut.last >= cut.from /\ cut.last < cut.to)
    <3>0. TableTail = << >>
      BY <2>2 DEF TableTail
    <3>a. cut.pieces \o << >> = cut.pieces
      BY <1>1
    <3>1. cut.pieces \o TableTail = cut.pieces
      BY <3>0, <3>a
    <3>2. CASE cut.pieces = << >>
      <4>1. whole = <<Piece(cut.from, cut.to, BaseNonce(cut.sec))>>
        BY <3>1, <3>2
      <4>2. QED
        BY <1>1, <4>1, PieceChain
    <3>3. CASE cut.pieces # << >>
      <4>1. whole = cut.pieces
        BY <3>1, <3>3
      <4>2. CoverEnd(cut.pieces, cut.from) = Most(cut.from, Least(cut.last, cut.to))
            /\ CoverEnd(cut.pieces, cut.from) > cut.from
        BY <1>2, <3>3
      <4>3. CoverEnd(cut.pieces, cut.from) = cut.to
        BY <1>1, <2>2, <4>2 DEF Most, Least
      <4>4. QED
        BY <1>1, <1>2, <4>1, <4>3 DEF ChainTo
    <3>4. QED
      BY <3>2, <3>3
  <2>3. QED
    BY <2>1, <2>2
<1> HIDE DEF whole
<1>4. ChainTo(body', HeaderSize, pointer')
  BY <1>0, <1>1, <1>3, ChainConcat
<1>5. pointer' \in HeaderSize..nca.size
  BY <1>0, <1>1
<1>6. QED
  BY <1>0, <1>1, <1>4, <1>5 DEF PartitionInv, ChainTo

LEMMA EndPartitionStep ==
  ASSUME PartitionInv, Own, EndPartition
  PROVE  PartitionInv'
<1>1. /\ phase = "partition" /\ nca \in Ncas /\ todo \subseteq nca.sections
      /\ ChainTo(body, HeaderSize, pointer) /\ pointer \in HeaderSize..nca.size
      /\ body' = body \o Gap(pointer, nca.size) /\ phase' = "compress"
      /\ UNCHANGED <<nca, todo>>
  BY DEF EndPartition, PartitionInv, ChainTo
<1>2. /\ HeaderSize \in Nat /\ nca.size \in Nat /\ pointer \in Nat /\ pointer <= nca.size
  BY <1>1, NcaTypes
<1>3. ChainTo(Gap(pointer, nca.size), pointer, nca.size)
  BY <1>2, GapChain
<1>4. ChainTo(body', HeaderSize, nca.size)
  BY <1>1, <1>2, <1>3, ChainConcat
<1>5. QED
  BY <1>1, <1>4 DEF PartitionInv, ChainTo

\* After the partition the table is only read.
LEMMA ReadStep ==
  ASSUME PartitionInv, Own, Compress \/ Decompress
  PROVE  PartitionInv'
<1>1. /\ phase \notin {"partition", "bktr"} /\ phase' \notin {"partition", "bktr"}
      /\ UNCHANGED <<nca, todo, body>>
  <2>1. CASE Compress
    BY <2>1 DEF Compress, CompressChunk, NextPiece, FinishCompress, partVars
  <2>2. CASE Decompress
    BY <2>2 DEF Decompress, OpenNcz, DecodeSolid, DecodeBlock, EmitExcess, EmitNext,
      EmitSlice, FinishDecompress, partVars
  <2>3. QED
    BY <2>1, <2>2
<1>2. QED
  BY <1>1 DEF PartitionInv, Own

LEMMA NextInv ==
  ASSUME PartitionInv, [Next]_vars
  PROVE  PartitionInv'
<1>1. nca' = nca
  BY DEF Next, Partition, SkipSection, TakeSection, OpenTable, CutEntry, NextBucket,
    CloseTable, EndPartition, Compress, CompressChunk, NextPiece, FinishCompress, Decompress,
    OpenNcz, DecodeSolid, DecodeBlock, EmitExcess, EmitNext, EmitSlice, FinishDecompress,
    partVars, vars
<1>2. CASE ~Own
  BY <1>1, <1>2 DEF PartitionInv, Own
<1>3. CASE Own /\ UNCHANGED vars
  BY <1>3 DEF PartitionInv, Own, CutOK, UsesTable, NextAt, Bucket, vars
<1>4. CASE Own /\ Partition
  <2>1. ASSUME NEW s \in todo, SkipSection(s) \/ TakeSection(s) \/ OpenTable(s)
        PROVE  PartitionInv'
    BY <1>4, <2>1, SectionStep, OpenTableStep
  <2>2. QED
    BY <1>4, <2>1, CutEntryStep, NextBucketStep, CloseTableStep, EndPartitionStep
    DEF Partition
<1>5. CASE Own /\ (Compress \/ Decompress)
  BY <1>5, ReadStep
<1>6. QED
  BY <1>2, <1>3, <1>4, <1>5 DEF Next

-----------------------------------------------------------------------------
\* Whatever the sections of an NCA and their tables, the loops of _partition and
\* _parseBktr2 have covered what lies below their cursors, each byte once.
THEOREM PartitionInvariance == Spec => []PartitionInv
<1>1. Init => PartitionInv
  BY InitInv
<1>2. PartitionInv /\ [Next]_vars => PartitionInv'
  BY NextInv
<1>3. QED
  BY <1>1, <1>2, PTL DEF Spec

\* The table of a compressed NCA is a gap-free list of body sections, for any NCA.
THEOREM Ncz_BodyCovered == Spec => []BodyCovered
<1>1. PartitionInv => BodyCovered
  BY DEF PartitionInv, BodyCovered
<1>2. QED
  BY <1>1, PartitionInvariance, PTL

-----------------------------------------------------------------------------
\* A set of numbers has a least one: what holds of every number is proved by
\* looking at the first where it does not.
LEMMA LeastMember ==
  ASSUME NEW T, T \subseteq Nat, T # {}
  PROVE  \E n \in T : \A m \in T : n <= m
<1> DEFINE R == OpToRel(<, Nat)
<1>1. IsWellFoundedOn(R, Nat)
  BY NatLessThanWellFounded
<1>2. \A m, n \in Nat : m < n => <<m, n>> \in R
  BY DEF OpToRel
<1> HIDE DEF R
<1>3. PICK n \in T : \A m \in T : ~(<<m, n>> \in R)
  BY <1>1, WFMin
<1>4. \A m \in T : ~(m < n)
  BY <1>2, <1>3
<1>5. QED
  BY <1>4

\* Division with remainder.
LEMMA Division ==
  ASSUME NEW a \in Int, NEW n \in Nat \ {0}
  PROVE  /\ a \div n \in Int /\ a % n \in 0..(n - 1)
         /\ a = (a \div n) * n + (a % n)
  BY SMT

LEMMA DivisionUnique ==
  ASSUME NEW a \in Int, NEW q \in Int, NEW r \in Int, NEW n \in Nat \ {0},
         0 <= r, r < n, a = q * n + r
  PROVE  a \div n = q /\ a % n = r
  BY SMT

\* Block b of size bytes, which are q blocks of n and r bytes.
LEMMA LastBlock ==
  ASSUME NEW n \in Nat \ {0}, NEW size \in Int, NEW b \in Int, NEW q \in Int,
         NEW r \in 0..(n - 1), size = q * n + r, b * n < size
  PROVE  /\ (size + n - 1) \div n = IF r = 0 THEN q ELSE q + 1
         /\ b < q => n <= size - b * n
         /\ b >= q => b = q /\ r > 0 /\ size - b * n = r
<1>1. b \in Int /\ q \in Int /\ n \in Int /\ b * n \in Int /\ q * n \in Int
      /\ (q + 1) * n = q * n + n /\ r \in Int /\ 0 <= r /\ r < n /\ n > 0
  OBVIOUS
<1>2. CASE r = 0
  <2>1. size + n - 1 = q * n + (n - 1)
    BY <1>1, <1>2
  <2>2. (size + n - 1) \div n = q
    BY <1>1, <2>1, DivisionUnique
  <2>3. QED
    BY <1>2, <2>2
<1>3. CASE r # 0
  <2>1. size + n - 1 = (q + 1) * n + (r - 1)
    BY <1>1
  <2>2. q + 1 \in Int /\ r - 1 \in Int /\ 0 <= r - 1 /\ r - 1 < n /\ size + n - 1 \in Int
    BY <1>1, <1>3
  <2>3. (size + n - 1) \div n = q + 1
    BY <1>1, <2>1, <2>2, DivisionUnique
  <2>4. QED
    BY <1>3, <2>3
<1>4. b < q => b * n + n <= q * n
  BY <1>1
<1>5. q < b => q * n + n <= b * n
  BY <1>1
<1>6. (size + n - 1) \div n = IF r = 0 THEN q ELSE q + 1
  BY <1>2, <1>3
<1>7. b < q => n <= size - b * n
  BY <1>1, <1>4
<1>8. ASSUME b >= q PROVE b = q /\ r > 0 /\ size - b * n = r
  <2>1. b = q
    BY <1>1, <1>5, <1>8
  <2>2. QED
    BY <1>1, <2>1
<1>9. QED
  BY <1>6, <1>7, <1>8

-----------------------------------------------------------------------------
\* Pieces that follow each other.
LEMMA PieceTypes ==
  ASSUME NEW t \in Seq(Pieces), NEW i \in 1..Len(t)
  PROVE  /\ t[i].offset \in Nat /\ t[i].size \in Nat /\ t[i].nonce \in Nonces
         /\ PieceEnd(t[i]) = t[i].offset + t[i].size /\ PieceEnd(t[i]) \in Nat
<1>1. t[i] \in Pieces
  BY Element
<1>2. QED
  BY <1>1 DEF Pieces, PieceEnd

LEMMA Ordered ==
  ASSUME NEW t \in Seq(Pieces), NEW start, Chain(t, start),
         NEW i \in 1..Len(t), NEW j \in 1..Len(t), i < j
  PROVE  PieceEnd(t[i]) <= t[j].offset
<1> DEFINE T == {k \in Nat : i < k /\ k <= Len(t) /\ ~(PieceEnd(t[i]) <= t[k].offset)}
<1>1. SUFFICES ASSUME T # {} PROVE FALSE
  OBVIOUS
<1>2. PICK k \in T : \A m \in T : k <= m
  BY <1>1, LeastMember
<1>3. k \in 1..Len(t) /\ k - 1 \in 1..Len(t) /\ k # 1 /\ i < k
  BY <1>2
<1>4. /\ PieceEnd(t[i]) \in Nat /\ t[k].offset \in Nat /\ t[k - 1].offset \in Nat
      /\ PieceEnd(t[k - 1]) \in Nat /\ t[k - 1].offset <= PieceEnd(t[k - 1])
  <2> DEFINE l == k - 1
  <2>1. PieceEnd(t[i]) \in Nat /\ t[k].offset \in Nat
    BY <1>3, PieceTypes
  <2>2. l \in 1..Len(t)
    BY <1>3
  <2>3. /\ t[l].offset \in Nat /\ t[l].size \in Nat /\ PieceEnd(t[l]) \in Nat
        /\ PieceEnd(t[l]) = t[l].offset + t[l].size
    BY <2>2, PieceTypes
  <2>4. QED
    BY <2>1, <2>3, SMTT(30)
<1>5. t[k].offset = PieceEnd(t[k - 1])
  BY <1>3 DEF Chain
<1>6. CASE k - 1 = i
  BY <1>2, <1>4, <1>5, <1>6
<1>7. CASE k - 1 # i
  <2>1. k - 1 \notin T /\ k - 1 \in Nat /\ i < k - 1 /\ k - 1 <= Len(t)
    BY <1>2, <1>3, <1>7
  <2>2. PieceEnd(t[i]) <= t[k - 1].offset
    BY <2>1
  <2>3. QED
    BY <1>2, <1>4, <1>5, <2>2
<1>8. QED
  BY <1>6, <1>7

\* A byte lies in one piece at most, and past the last one in none.
LEMMA OneOwner ==
  ASSUME NEW t \in Seq(Pieces), NEW start, Chain(t, start), NEW x \in Int,
         NEW i \in OwnerIn(t, x)
  PROVE  OwnerIn(t, x) = {i}
<1>1. i \in 1..Len(t) /\ t[i].offset <= x /\ x < PieceEnd(t[i])
  BY DEF OwnerIn, PieceEnd
<1> SUFFICES ASSUME NEW j \in OwnerIn(t, x) PROVE j = i
  OBVIOUS
<1>2. j \in 1..Len(t) /\ t[j].offset <= x /\ x < PieceEnd(t[j])
  BY DEF OwnerIn, PieceEnd
<1>3. /\ t[i].offset \in Nat /\ PieceEnd(t[i]) \in Nat
      /\ t[j].offset \in Nat /\ PieceEnd(t[j]) \in Nat
  BY <1>1, <1>2, PieceTypes
<1>4. ~(i < j)
  BY <1>1, <1>2, <1>3, Ordered
<1>5. ~(j < i)
  BY <1>1, <1>2, <1>3, Ordered
<1>6. QED
  BY <1>1, <1>2, <1>4, <1>5

LEMMA NoOwner ==
  ASSUME NEW t \in Seq(Pieces), NEW start, Chain(t, start), NEW x \in Int,
         CoverEnd(t, start) <= x
  PROVE  OwnerIn(t, x) = {}
<1> SUFFICES ASSUME NEW i \in OwnerIn(t, x) PROVE FALSE
  OBVIOUS
<1>1. i \in 1..Len(t) /\ t[i].offset <= x /\ x < PieceEnd(t[i])
  BY DEF OwnerIn, PieceEnd
<1>2. Len(t) \in 1..Len(t) /\ CoverEnd(t, start) = PieceEnd(t[Len(t)])
  BY <1>1 DEF CoverEnd
<1>3. /\ PieceEnd(t[i]) \in Nat /\ PieceEnd(t[Len(t)]) \in Nat
      /\ t[Len(t)].offset \in Nat /\ t[Len(t)].offset <= PieceEnd(t[Len(t)])
  BY <1>1, <1>2, PieceTypes
<1>4. i = Len(t) \/ PieceEnd(t[i]) <= t[Len(t)].offset
  BY <1>1, <1>2, Ordered
<1>5. QED
  BY <1>1, <1>2, <1>3, <1>4

\* The stream's byte k under the piece it lies in, and where there is none.
LEMMA CellOwned ==
  ASSUME NEW t \in Seq(Pieces), NEW start, Chain(t, start), NEW k \in Int,
         HeaderSize \in Nat, NEW i \in OwnerIn(t, HeaderSize + k - 1)
  PROVE  CellOf(t, k) = [at |-> HeaderSize + k - 1, ks |-> KeyAt(t[i], HeaderSize + k - 1)]
<1> DEFINE x == HeaderSize + k - 1
<1>1. OwnerIn(t, x) = {i}
  BY OneOwner
<1>2. UNION {KeyAt(t[j], x) : j \in OwnerIn(t, x)} = KeyAt(t[i], x)
  BY <1>1
<1>3. QED
  BY <1>2 DEF CellOf

LEMMA CellPlain ==
  ASSUME NEW t, NEW k \in Int, OwnerIn(t, HeaderSize + k - 1) = {}
  PROVE  CellOf(t, k) = [at |-> HeaderSize + k - 1, ks |-> {}]
  BY DEF CellOf

\* Two tables give the same stream if they give each byte the same key.
LEMMA SameCell ==
  ASSUME NEW t, NEW u, NEW k \in Int,
         \A i \in OwnerIn(t, HeaderSize + k - 1) :
           \/ KeyAt(t[i], HeaderSize + k - 1) = {}
           \/ \E j \in OwnerIn(u, HeaderSize + k - 1) :
                KeyAt(t[i], HeaderSize + k - 1) = KeyAt(u[j], HeaderSize + k - 1),
         \A j \in OwnerIn(u, HeaderSize + k - 1) :
           \/ KeyAt(u[j], HeaderSize + k - 1) = {}
           \/ \E i \in OwnerIn(t, HeaderSize + k - 1) :
                KeyAt(t[i], HeaderSize + k - 1) = KeyAt(u[j], HeaderSize + k - 1)
  PROVE  CellOf(t, k) = CellOf(u, k)
<1> DEFINE x == HeaderSize + k - 1
<1>1. UNION {KeyAt(t[i], x) : i \in OwnerIn(t, x)} = UNION {KeyAt(u[j], x) : j \in OwnerIn(u, x)}
  OBVIOUS
<1>2. QED
  BY <1>1 DEF CellOf

\* The key of a piece is positions of its counter.
LEMMA KeyType ==
  ASSUME NEW p \in Pieces, NEW x \in Int
  PROVE  AlignDown(p.offset) \in Int /\ KeyAt(p, x) \in SUBSET (Nonces \X Int)
<1>1. AlignDown(p.offset) \in Int
  BY NczAssumption, Division DEF NczAssumption, AlignDown, Pieces
<1>2. QED
  BY <1>1 DEF KeyAt, Pieces

-----------------------------------------------------------------------------
\* A table the emitter can work on: it starts at the end of the header and gives
\* the stream of table t.
Prepared(u, t) ==
  /\ u \in Seq(Pieces) /\ Chain(u, HeaderSize)
  /\ \A k \in Nat \ {0} : CellOf(u, k) = CellOf(t, k)

\* Tables the code may meet: its own and foreign ones.
Usable(t) ==
  /\ t \in Seq(Pieces)
  /\ t # << >> => Chain(t, t[1].offset) /\ OnBlock(t[1].offset)
  /\ \A i \in 2..Len(t) : HeaderSize <= t[i].offset

\* The table starts after the header: the gap is plain.
LEMMA PrepareAfter ==
  ASSUME NEW t, Usable(t), t # << >>, t[1].offset > HeaderSize
  PROVE  Prepared(Gap(HeaderSize, t[1].offset) \o t, t)
<1>1. HeaderSize \in Nat /\ t \in Seq(Pieces) /\ Len(t) \in Nat /\ Len(t) >= 1 /\ 1 \in 1..Len(t)
  BY NczAssumption DEF NczAssumption, Usable
<1>2. t[1].offset \in Nat
  BY <1>1, PieceTypes
<1>3. ChainTo(t, t[1].offset, CoverEnd(t, t[1].offset)) /\ CoverEnd(t, t[1].offset) \in Nat
  <2>1. PieceEnd(t[Len(t)]) \in Nat
    BY <1>1, PieceTypes
  <2>2. QED
    BY <1>1, <2>1 DEF Usable, ChainTo, CoverEnd
<1>4. ChainTo(Gap(HeaderSize, t[1].offset), HeaderSize, t[1].offset)
  BY <1>1, <1>2, GapChain
<1> DEFINE g == Gap(HeaderSize, t[1].offset)
           u == g \o t
<1>5. u \in Seq(Pieces) /\ Chain(u, HeaderSize)
  BY <1>1, <1>2, <1>3, <1>4, ChainConcat DEF ChainTo
<1>6. g = <<Piece(HeaderSize, t[1].offset, NoNonce)>>
  BY <1>1, <1>2 DEF Gap
<1>7. /\ DOMAIN u = 1..(Len(t) + 1) /\ u[1] = Piece(HeaderSize, t[1].offset, NoNonce)
      /\ \A i \in 1..Len(t) : u[i + 1] = t[i]
      /\ DOMAIN t = 1..Len(t)
  BY <1>1, <1>6
<1> HIDE DEF u, g
<1>8. ASSUME NEW k \in Nat \ {0}
      PROVE  CellOf(u, k) = CellOf(t, k)
  <2> DEFINE x == HeaderSize + k - 1
  <2>1. ASSUME NEW i \in OwnerIn(u, x)
        PROVE  KeyAt(u[i], x) = {} \/ \E j \in OwnerIn(t, x) : KeyAt(u[i], x) = KeyAt(t[j], x)
    <3>1. CASE i = 1
      <4>1. u[i].nonce = NoNonce
        BY <1>7, <3>1 DEF Piece
      <4>2. QED
        BY <4>1 DEF KeyAt
    <3>2. CASE i # 1
      <4>1. i - 1 \in 1..Len(t) /\ (i - 1) + 1 = i
        BY <1>1, <1>7, <3>2 DEF OwnerIn
      <4>2. u[i] = t[i - 1]
        BY <1>7, <4>1
      <4>3. i - 1 \in OwnerIn(t, x)
        BY <1>7, <4>1, <4>2 DEF OwnerIn
      <4>4. QED
        BY <4>2, <4>3
    <3>3. QED
      BY <3>1, <3>2
  <2>2. ASSUME NEW j \in OwnerIn(t, x)
        PROVE  KeyAt(t[j], x) = {} \/ \E i \in OwnerIn(u, x) : KeyAt(u[i], x) = KeyAt(t[j], x)
    <3>1. j \in 1..Len(t) /\ u[j + 1] = t[j] /\ j + 1 \in DOMAIN u
      BY <1>1, <1>7 DEF OwnerIn
    <3>2. j + 1 \in OwnerIn(u, x)
      BY <3>1 DEF OwnerIn
    <3>3. QED
      BY <3>1, <3>2
  <2>3. k \in Int
    OBVIOUS
  <2>4. QED
    BY <2>1, <2>2, <2>3, SameCell, Zenon
<1>9. QED
  BY <1>5, <1>8 DEF Prepared, u, g

\* Its first piece lies in the header: it is dropped.
LEMMA PrepareWithin ==
  ASSUME NEW t, Usable(t), t # << >>, t[1].offset < HeaderSize,
         PieceEnd(t[1]) <= HeaderSize
  PROVE  Prepared(SubSeq(t, 2, Len(t)), t)
<1> DEFINE u == SubSeq(t, 2, Len(t))
<1>1. HeaderSize \in Nat /\ t \in Seq(Pieces) /\ Len(t) \in Nat /\ Len(t) >= 1
      /\ DOMAIN t = 1..Len(t) /\ Chain(t, t[1].offset)
      /\ \A i \in 2..Len(t) : HeaderSize <= t[i].offset
  BY NczAssumption DEF NczAssumption, Usable
<1>2. u \in Seq(Pieces) /\ Len(u) = Len(t) - 1 /\ DOMAIN u = 1..(Len(t) - 1)
      /\ \A i \in 1..(Len(t) - 1) : u[i] = t[i + 1]
  BY <1>1
<1> HIDE DEF u
<1>3. Chain(u, HeaderSize)
  <2> SUFFICES ASSUME NEW i \in 1..(Len(t) - 1)
               PROVE  /\ u[i].size >= 0
                      /\ u[i].offset = IF i = 1 THEN HeaderSize ELSE PieceEnd(u[i - 1])
    BY <1>2 DEF Chain
  <2>1. u[i] = t[i + 1] /\ i + 1 \in DOMAIN t /\ i + 1 # 1 /\ (i + 1) - 1 = i /\ i + 1 \in 2..Len(t)
    BY <1>1, <1>2
  <2>2. u[i].size >= 0 /\ u[i].offset = PieceEnd(t[i])
    BY <1>1, <2>1 DEF Chain
  <2>3. CASE i = 1
    <3>1. PieceEnd(t[1]) \in Nat /\ HeaderSize <= PieceEnd(t[1])
      <4>1. PieceEnd(t[1]) \in Nat
        BY <1>1, PieceTypes
      <4>2. HeaderSize <= t[i + 1].offset
        BY <1>1, <2>1
      <4>3. QED
        BY <2>1, <2>2, <2>3, <4>1, <4>2
    <3>2. QED
      BY <1>1, <2>2, <2>3, <3>1
  <2>4. CASE i # 1
    <3>1. i - 1 \in 1..(Len(t) - 1) /\ (i - 1) + 1 = i
      BY <1>1, <2>4
    <3>2. u[i - 1] = t[i]
      BY <1>2, <3>1
    <3>3. QED
      BY <2>2, <2>4, <3>2
  <2>5. QED
    BY <2>3, <2>4
<1>4. ASSUME NEW k \in Nat \ {0}
      PROVE  CellOf(u, k) = CellOf(t, k)
  <2> DEFINE x == HeaderSize + k - 1
  <2>1. ASSUME NEW i \in OwnerIn(u, x)
        PROVE  \E j \in OwnerIn(t, x) : KeyAt(u[i], x) = KeyAt(t[j], x)
    <3>1. u[i] = t[i + 1] /\ i + 1 \in DOMAIN t
      BY <1>1, <1>2 DEF OwnerIn
    <3>2. i + 1 \in OwnerIn(t, x)
      BY <3>1 DEF OwnerIn
    <3>3. QED
      BY <3>1, <3>2
  <2>2. ASSUME NEW j \in OwnerIn(t, x)
        PROVE  \E i \in OwnerIn(u, x) : KeyAt(u[i], x) = KeyAt(t[j], x)
    <3>1. j \in 1..Len(t) /\ x < PieceEnd(t[j])
      BY <1>1 DEF OwnerIn, PieceEnd
    <3>2. j # 1
      <4>1. PieceEnd(t[1]) \in Nat /\ x >= HeaderSize /\ x \in Int
        BY <1>1, PieceTypes
      <4>2. QED
        BY <1>1, <3>1, <4>1
    <3>3. j - 1 \in 1..(Len(t) - 1) /\ (j - 1) + 1 = j
      BY <1>1, <3>1, <3>2
    <3>4. u[j - 1] = t[j]
      BY <1>2, <3>3
    <3>5. j - 1 \in OwnerIn(u, x)
      BY <1>2, <3>3, <3>4 DEF OwnerIn
    <3>6. QED
      BY <3>4, <3>5
  <2>3. QED
    BY <2>1, <2>2, SameCell
<1>5. QED
  BY <1>2, <1>3, <1>4 DEF Prepared, u

LEMMA Aligned ==
  ASSUME NEW x \in Int, OnBlock(x)
  PROVE  AlignDown(x) = x
<1>1. CtrBlock \in Nat \ {0}
  BY NczAssumption DEF NczAssumption
<1>2. x = (x \div CtrBlock) * CtrBlock + (x % CtrBlock) /\ x \div CtrBlock \in Int
  BY <1>1, Division
<1>3. QED
  BY <1>1, <1>2 DEF OnBlock, AlignDown

\* Its first piece begins in the header: it is cut there, and its cipher, seeded
\* at the end of the header, goes on as before.
LEMMA PrepareAcross ==
  ASSUME NEW t, Usable(t), t # << >>, t[1].offset < HeaderSize,
         PieceEnd(t[1]) > HeaderSize
  PROVE  Prepared(<<Piece(HeaderSize, t[1].offset + t[1].size, t[1].nonce)>>
                    \o SubSeq(t, 2, Len(t)), t)
<1> DEFINE p == Piece(HeaderSize, t[1].offset + t[1].size, t[1].nonce)
           u == <<p>> \o SubSeq(t, 2, Len(t))
<1>1. HeaderSize \in Nat /\ t \in Seq(Pieces) /\ Len(t) \in Nat /\ Len(t) >= 1
      /\ DOMAIN t = 1..Len(t) /\ 1 \in 1..Len(t) /\ Chain(t, t[1].offset)
  BY NczAssumption DEF NczAssumption, Usable
<1>2. /\ t[1].offset \in Nat /\ t[1].size \in Nat /\ t[1].nonce \in Nonces
      /\ PieceEnd(t[1]) = t[1].offset + t[1].size
  BY <1>1, PieceTypes
<1>3. /\ p \in Pieces /\ p.offset = HeaderSize /\ p.nonce = t[1].nonce
      /\ p.size = PieceEnd(t[1]) - HeaderSize /\ p.size \in Nat /\ PieceEnd(p) = PieceEnd(t[1])
  BY <1>1, <1>2 DEF Piece, Pieces, PieceEnd
<1> HIDE DEF p
<1>4. /\ u \in Seq(Pieces) /\ Len(u) = Len(t) /\ DOMAIN u = DOMAIN t /\ u[1] = p
      /\ \A i \in 2..Len(t) : u[i] = t[i]
  BY <1>1, <1>3
<1> HIDE DEF u
<1>5. Chain(u, HeaderSize)
  <2> SUFFICES ASSUME NEW i \in 1..Len(t)
               PROVE  /\ u[i].size >= 0
                      /\ u[i].offset = IF i = 1 THEN HeaderSize ELSE PieceEnd(u[i - 1])
    BY <1>1, <1>4 DEF Chain
  <2>1. CASE i = 1
    BY <1>3, <1>4, <2>1
  <2>2. CASE i # 1
    <3>1. i \in 2..Len(t) /\ u[i] = t[i]
      BY <1>1, <1>4, <2>2
    <3>2. t[i].size >= 0 /\ t[i].offset = PieceEnd(t[i - 1])
      BY <1>1, <2>2 DEF Chain
    <3>3. PieceEnd(u[i - 1]) = PieceEnd(t[i - 1])
      <4>1. CASE i - 1 = 1
        BY <1>3, <1>4, <4>1
      <4>2. CASE i - 1 # 1
        BY <1>4, <3>1, <4>2
      <4>3. QED
        BY <4>1, <4>2
    <3>4. QED
      BY <2>2, <3>1, <3>2, <3>3
  <2>3. QED
    BY <2>1, <2>2
<1>6. ASSUME NEW x \in Int
      PROVE  KeyAt(p, x) = KeyAt(t[1], x)
  <2>1. AlignDown(HeaderSize) = HeaderSize /\ AlignDown(t[1].offset) = t[1].offset
    BY <1>1, <1>2, Aligned, NczAssumption DEF NczAssumption, Usable
  <2>2. AlignDown(p.offset) + (x - p.offset) = AlignDown(t[1].offset) + (x - t[1].offset)
    BY <1>1, <1>2, <1>3, <2>1
  <2>3. QED
    BY <1>3, <2>2 DEF KeyAt
<1>7. ASSUME NEW x \in Int, HeaderSize <= x
      PROVE  OwnerIn(u, x) = OwnerIn(t, x)
  <2> SUFFICES ASSUME NEW i \in 1..Len(t)
               PROVE  (u[i].offset <= x /\ x < u[i].offset + u[i].size)
                        <=> (t[i].offset <= x /\ x < t[i].offset + t[i].size)
    BY <1>1, <1>4 DEF OwnerIn
  <2>1. CASE i = 1
    BY <1>1, <1>2, <1>3, <1>4, <1>7, <2>1 DEF PieceEnd
  <2>2. CASE i # 1
    BY <1>4, <2>2
  <2>3. QED
    BY <2>1, <2>2
<1>8. ASSUME NEW k \in Nat \ {0}
      PROVE  CellOf(u, k) = CellOf(t, k)
  <2> DEFINE x == HeaderSize + k - 1
  <2>1. x \in Int /\ HeaderSize <= x /\ k \in Int
    BY <1>1
  <2>2. OwnerIn(u, x) = OwnerIn(t, x) /\ OwnerIn(t, x) \subseteq 1..Len(t)
    BY <1>1, <1>7, <2>1 DEF OwnerIn
  <2>3. \A i \in 1..Len(t) : KeyAt(u[i], x) = KeyAt(t[i], x)
    <3> SUFFICES ASSUME NEW i \in 1..Len(t) PROVE KeyAt(u[i], x) = KeyAt(t[i], x)
      OBVIOUS
    <3>1. CASE i = 1
      BY <1>4, <1>6, <2>1, <3>1
    <3>2. CASE i # 1
      BY <1>4, <3>2
    <3>3. QED
      BY <3>1, <3>2
  <2>4. \A i \in OwnerIn(u, x) : \E j \in OwnerIn(t, x) : KeyAt(u[i], x) = KeyAt(t[j], x)
    BY <2>2, <2>3
  <2>5. \A j \in OwnerIn(t, x) : \E i \in OwnerIn(u, x) : KeyAt(u[i], x) = KeyAt(t[j], x)
    BY <2>2, <2>3
  <2>6. QED
    BY <2>1, <2>4, <2>5, SameCell, Zenon
<1>9. QED
  BY <1>4, <1>5, <1>8 DEF Prepared, u, p

LEMMA PrepareTable ==
  ASSUME NEW t, Usable(t)
  PROVE  Prepared(Prepare(t), t)
<1>1. HeaderSize \in Nat /\ t \in Seq(Pieces)
  BY NczAssumption DEF NczAssumption, Usable
<1>2. CASE t = << >>
  BY <1>1, <1>2 DEF Prepared, Prepare, Chain
<1>3. CASE t # << >> /\ t[1].offset = HeaderSize
  BY <1>1, <1>3 DEF Prepared, Prepare, Usable
<1>4. CASE t # << >> /\ t[1].offset # HeaderSize
  <2>1. 1 \in 1..Len(t) /\ t[1].offset \in Nat /\ PieceEnd(t[1]) \in Nat
        /\ PieceEnd(t[1]) = t[1].offset + t[1].size
    <3>1. 1 \in 1..Len(t)
      BY <1>1, <1>4
    <3>2. QED
      BY <1>1, <3>1, PieceTypes
  <2>2. CASE t[1].offset > HeaderSize
    BY <1>4, <2>2, PrepareAfter DEF Prepare
  <2>3. CASE t[1].offset < HeaderSize /\ PieceEnd(t[1]) <= HeaderSize
    <3>1. Prepare(t) = SubSeq(t, 2, Len(t))
      BY <1>1, <1>4, <2>1, <2>3 DEF Prepare
    <3>2. QED
      BY <1>4, <2>3, <3>1, PrepareWithin
  <2>4. CASE t[1].offset < HeaderSize /\ PieceEnd(t[1]) > HeaderSize
    <3>1. Prepare(t) = <<Piece(HeaderSize, t[1].offset + t[1].size, t[1].nonce)>>
                         \o SubSeq(t, 2, Len(t))
      BY <1>1, <1>4, <2>1, <2>4 DEF Prepare
    <3>2. QED
      BY <1>4, <2>4, <3>1, PrepareAcross
  <2>5. QED
    BY <1>1, <1>4, <2>1, <2>2, <2>3, <2>4
<1>5. QED
  BY <1>2, <1>3, <1>4
-----------------------------------------------------------------------------
\* Two sequences after each other, and a part of one.
LEMMA Concat ==
  ASSUME NEW S, NEW a \in Seq(S), NEW b \in Seq(S)
  PROVE  /\ a \o b \in Seq(S) /\ Len(a \o b) = Len(a) + Len(b)
         /\ \A i \in 1..Len(a) : (a \o b)[i] = a[i]
         /\ \A i \in 1..Len(b) : (a \o b)[Len(a) + i] = b[i]
         /\ Len(a) \in Nat /\ Len(b) \in Nat
  OBVIOUS

LEMMA Part ==
  ASSUME NEW S, NEW a \in Seq(S), NEW m \in Nat, NEW n \in Nat, m <= n, n <= Len(a)
  PROVE  /\ SubSeq(a, m + 1, n) \in Seq(S) /\ Len(SubSeq(a, m + 1, n)) = n - m
         /\ \A i \in 1..(n - m) : SubSeq(a, m + 1, n)[i] = a[m + i]
  OBVIOUS

\* The table of the body, whoever made it.
LEMMA BodyTypes ==
  ASSUME CodecInv
  PROVE  /\ HeaderSize \in Nat /\ nca.size \in Nat /\ HeaderSize <= nca.size
         /\ body \in Seq(Pieces) /\ Len(body) \in Nat /\ DOMAIN body = 1..Len(body)
         /\ stream \in Seq(Cells) /\ Len(stream) \in Nat
         /\ ChunkSize \in Nat \ {0} /\ BlockSize \in Nat \ {0}
         /\ Own => Chain(body, HeaderSize)
         /\ CoverEnd(body, HeaderSize) \in Nat
<1>1. stream \in Seq(Cells) /\ Len(stream) \in Nat
  BY DEF CodecInv, StreamOK
<1>2. HeaderSize \in Nat /\ ChunkSize \in Nat \ {0} /\ BlockSize \in Nat \ {0}
  BY NczAssumption DEF NczAssumption
<1>3. /\ nca.size \in Nat /\ HeaderSize <= nca.size
      /\ body \in Seq(Pieces) /\ (Own => Chain(body, HeaderSize))
  <2>1. CASE Own
    BY <2>1, NcaTypes DEF CodecInv, PartitionInv
  <2>2. CASE ~Own
    BY <2>2, NczAssumption DEF NczAssumption, CodecInv
  <2>3. QED
    BY <2>1, <2>2
<1>4. CoverEnd(body, HeaderSize) \in Nat
  <2>1. CASE body = << >>
    BY <1>2, <2>1 DEF CoverEnd
  <2>2. CASE body # << >>
    <3>1. Len(body) \in 1..Len(body)
      BY <1>3, <2>2
    <3>2. QED
      BY <1>3, <2>2, <3>1, PieceTypes DEF CoverEnd
  <2>3. QED
    BY <2>1, <2>2
<1>5. QED
  BY <1>1, <1>2, <1>3, <1>4

\* It can be read again.
LEMMA BodyReadable ==
  ASSUME CodecInv
  PROVE  Usable(body)
<1>1. CASE Own
  <2>1. /\ body \in Seq(Pieces) /\ Len(body) \in Nat /\ Chain(body, HeaderSize)
        /\ DOMAIN body = 1..Len(body) /\ HeaderSize \in Nat /\ OnBlock(HeaderSize)
    BY <1>1, BodyTypes, NczAssumption DEF NczAssumption
  <2>2. body # << >> => body[1].offset = HeaderSize /\ 1 \in 1..Len(body)
    BY <2>1 DEF Chain
  <2>3. ASSUME NEW i \in 2..Len(body)
        PROVE  HeaderSize <= body[i].offset
    <3>1. 1 \in 1..Len(body) /\ i \in 1..Len(body) /\ 1 < i /\ body # << >>
      BY <2>1
    <3>2. PieceEnd(body[1]) <= body[i].offset
      BY <2>1, <3>1, Ordered
    <3>3. /\ PieceEnd(body[1]) = body[1].offset + body[1].size /\ body[1].size \in Nat
          /\ body[i].offset \in Nat
      BY <2>1, <3>1, PieceTypes
    <3>4. QED
      BY <2>1, <2>2, <3>1, <3>2, <3>3
  <2>4. QED
    BY <2>1, <2>2, <2>3 DEF Usable
<1>2. CASE ~Own
  BY <1>2, NczAssumption DEF NczAssumption, CodecInv, Usable
<1>3. QED
  BY <1>1, <1>2

\* A byte of the stream.
LEMMA CellType ==
  ASSUME NEW t \in Seq(Pieces), NEW k \in Nat \ {0}
  PROVE  CellOf(t, k) \in Cells
<1> DEFINE x == HeaderSize + k - 1
<1>1. HeaderSize \in Nat /\ x \in Nat
  BY NczAssumption DEF NczAssumption
<1>2. \A i \in OwnerIn(t, x) : KeyAt(t[i], x) \in SUBSET (Nonces \X Int)
  <2> SUFFICES ASSUME NEW i \in OwnerIn(t, x)
               PROVE  KeyAt(t[i], x) \in SUBSET (Nonces \X Int)
    OBVIOUS
  <2>1. i \in 1..Len(t)
    BY DEF OwnerIn
  <2>2. t[i] \in Pieces
    BY <2>1, Element
  <2>3. QED
    BY <1>1, <2>2, KeyType
<1>3. UNION {KeyAt(t[i], x) : i \in OwnerIn(t, x)} \in SUBSET (Nonces \X Int)
  BY <1>2
<1>4. QED
  BY <1>1, <1>3 DEF CellOf, Cells

-----------------------------------------------------------------------------
LEMMA CodecInit == Init => CodecInv
<1> SUFFICES ASSUME Init PROVE CodecInv
  OBVIOUS
<1>1. PartitionInv /\ HeaderSize \in Nat
  BY InitInv, NczAssumption DEF NczAssumption
<1>2. taken = 0 /\ chunk = << >> /\ out = << >> /\ cur = [piece |-> 1, fed |-> 0]
  BY DEF Init, NotRead
<1>3. CASE InitOwn
  <2>1. /\ Own /\ phase = "partition" /\ stream = << >> /\ nca.size \in Nat
        /\ HeaderSize <= nca.size
    BY <1>3, NcaTypes DEF InitOwn
  <2>2. StreamOK
    BY <1>1, <1>2, <2>1 DEF StreamOK
  <2>3. QED
    BY <1>1, <1>2, <2>1, <2>2 DEF CodecInv
<1>4. CASE InitForeign
  <2>1. PICK f \in Foreign :
          /\ nca = f /\ body = f.table /\ stream = ForeignStream(f)
          /\ file.size = f.size - HeaderSize
    BY <1>4 DEF InitForeign, ForeignFile
  <2>2. phase = "stored"
    BY <1>4 DEF InitForeign
  <2>3. /\ ~Own /\ f.size \in Nat /\ HeaderSize <= f.size /\ body \in Seq(Pieces)
        /\ f.size - HeaderSize \in Nat
    BY <1>1, <2>1, NczAssumption DEF NczAssumption, Own
  <2>4. \A k \in Nat \ {0} : CellOf(body, k) \in Cells
    BY <2>3, CellType
  <2>5. /\ stream \in Seq(Cells) /\ Len(stream) = f.size - HeaderSize
        /\ \A k \in 1..Len(stream) : stream[k] = CellOf(body, k)
    <3>1. PICK n \in Nat : n = f.size - HeaderSize
      BY <2>3
    <3>2. stream = [k \in 1..n |-> CellOf(body, k)]
      BY <2>1, <3>1 DEF ForeignStream
    <3>3. \A k \in 1..n : CellOf(body, k) \in Cells
      BY <2>4, <3>1
    <3>4. [k \in 1..n |-> CellOf(body, k)] \in Seq(Cells)
      BY <3>1, <3>3
    <3>5. stream \in Seq(Cells) /\ Len(stream) = n
      BY <3>1, <3>2, <3>4
    <3>6. QED
      BY <3>1, <3>2, <3>5
  <2>6. StreamOK
    BY <1>1, <2>1, <2>2, <2>3, <2>5 DEF StreamOK
  <2>7. QED
    BY <1>1, <1>2, <2>1, <2>2, <2>3, <2>6 DEF CodecInv
<1>5. QED
  BY <1>3, <1>4 DEF Init

\* While the table is made nothing is compressed.
LEMMA PartitionKeeps ==
  ASSUME CodecInv, Partition
  PROVE  CodecInv'
<1>1. PartitionInv' /\ Own
  <2>1. PartitionInv'
    BY NextInv DEF CodecInv, Next
  <2>2. phase \in {"partition", "bktr"}
    BY DEF Partition, SkipSection, TakeSection, OpenTable, CutEntry, NextBucket,
      CloseTable, EndPartition
  <2>3. QED
    BY <2>1, <2>2 DEF CodecInv
<1>2. /\ phase \in {"partition", "bktr"} /\ phase' \in {"partition", "bktr", "compress"}
      /\ nca' = nca /\ cur' = cur /\ stream' = stream
      /\ taken' = taken /\ chunk' = chunk /\ out' = out
  BY DEF Partition, SkipSection, TakeSection, OpenTable, CutEntry, NextBucket,
    CloseTable, EndPartition, readVars
<1>3. Own' /\ stream' = << >> /\ cur' = [piece |-> 1, fed |-> 0]
  BY <1>1, <1>2 DEF Own, CodecInv, StreamOK
<1>4. HeaderSize \in Nat /\ nca.size \in Nat /\ HeaderSize <= nca.size
  BY BodyTypes
<1>5. StreamOK'
  BY <1>2, <1>3, <1>4 DEF StreamOK
<1>6. body' \in Seq(Pieces) /\ Chain(body', HeaderSize)
  BY <1>1, <1>3 DEF PartitionInv
<1>7. CurOK'
  <2>1. Len(body') \in Nat /\ cur' \in [piece : 1..(Len(body') + 1), fed : Nat] /\ Len(stream') = 0
    BY <1>3, <1>6
  <2>2. CASE body' = << >>
    <3>1. cur'.piece > Len(body') /\ HeaderSize + Len(stream') = CoverEnd(body', HeaderSize)
      BY <1>3, <1>4, <2>1, <2>2 DEF CoverEnd
    <3>2. QED
      BY <2>1, <3>1 DEF CurOK
  <2>3. CASE body' # << >>
    <3>1. 1 \in 1..Len(body') /\ 1 \in DOMAIN body'
      BY <1>6, <2>3
    <3>2. body'[1].offset = HeaderSize /\ body'[1].size \in Nat
      BY <1>6, <3>1, PieceTypes DEF Chain
    <3>3. QED
      BY <1>3, <1>4, <2>1, <3>1, <3>2 DEF CurOK
  <2>4. QED
    BY <2>2, <2>3
<1>8. QED
  BY <1>1, <1>2, <1>3, <1>5, <1>7 DEF CodecInv

\* A chunk of the current piece goes on where the stream ends.
LEMMA CompressChunkKeeps ==
  ASSUME CodecInv, CompressChunk
  PROVE  CodecInv'
<1>1. /\ PartitionInv' /\ phase = "compress" /\ Own /\ CurOK /\ StreamOK
      /\ taken = 0 /\ chunk = << >> /\ out = << >>
      /\ CoverEnd(body, HeaderSize) = nca.size
  <2>1. PartitionInv'
    BY NextInv DEF CodecInv, Next, Compress
  <2>2. phase = "compress"
    BY DEF CompressChunk
  <2>3. Own /\ CurOK /\ StreamOK /\ taken = 0 /\ chunk = << >> /\ out = << >>
    BY <2>2 DEF CodecInv
  <2>4. CoverEnd(body, HeaderSize) = nca.size
    BY <2>2, <2>3 DEF CodecInv, PartitionInv
  <2>5. QED
    BY <2>1, <2>2, <2>3, <2>4
<1>2. /\ UNCHANGED <<phase, nca, body, taken, chunk, out>> /\ Own'
  BY <1>1 DEF CompressChunk, partVars, readVars, Own
<1>3. /\ HeaderSize \in Nat /\ nca.size \in Nat /\ ChunkSize \in Nat \ {0}
      /\ body \in Seq(Pieces) /\ Len(body) \in Nat /\ Chain(body, HeaderSize)
      /\ DOMAIN body = 1..Len(body)
      /\ stream \in Seq(Cells) /\ Len(stream) \in Nat
  BY <1>1, BodyTypes
<1>n. HeaderSize \in Nat /\ nca.size \in Nat /\ Len(stream) \in Nat
  BY <1>3
<1> DEFINE p == body[cur.piece]
           take == Least(p.size - cur.fed, ChunkSize)
           at == p.offset + cur.fed - 1
           more == [i \in 1..take |-> [at |-> at + i, ks |-> KeyAt(p, at + i)]]
<1>4. /\ cur.piece \in 1..Len(body) /\ cur.fed \in Nat /\ cur.fed < p.size
      /\ HeaderSize + Len(stream) = p.offset + cur.fed
  <2>1. cur.piece \in 1..(Len(body) + 1) /\ cur.fed \in Nat
    BY <1>1 DEF CurOK
  <2>2. cur.piece <= Len(body) /\ cur.fed < p.size
    BY DEF CompressChunk
  <2>3. QED
    BY <1>1, <1>3, <2>1, <2>2 DEF CurOK
<1>5. p \in Pieces /\ p.offset \in Nat /\ p.size \in Nat /\ PieceEnd(p) = p.offset + p.size
  BY <1>3, <1>4, PieceTypes, Element
<1>6. stream' = stream \o more /\ cur' = [cur EXCEPT !.fed = @ + take]
  BY DEF CompressChunk
<1> HIDE DEF p
<1>7. take \in Nat \ {0} /\ take <= p.size - cur.fed
  BY <1>3, <1>4, <1>5 DEF Least
<1>8. at = HeaderSize + Len(stream) - 1 /\ at \in Int
  BY <1>3, <1>4, <1>5, SMTT(30)
<1> HIDE DEF at, take
<1>9. ASSUME NEW i \in 1..take
      PROVE  /\ more[i] = CellOf(body, Len(stream) + i)
             /\ cur.piece \in OwnerIn(body, HeaderSize + (Len(stream) + i) - 1)
             /\ more[i] \in Cells
  <2>1. at + i = HeaderSize + (Len(stream) + i) - 1 /\ Len(stream) + i \in Nat \ {0}
    BY <1>3, <1>7, <1>8
  <2>2. cur.piece \in OwnerIn(body, HeaderSize + (Len(stream) + i) - 1)
    <3>1. /\ p.offset <= HeaderSize + (Len(stream) + i) - 1
          /\ HeaderSize + (Len(stream) + i) - 1 < p.offset + p.size
      BY <1>3, <1>4, <1>5, <1>7, SMTT(30)
    <3>2. QED
      BY <1>3, <1>4, <3>1 DEF OwnerIn, p
  <2>3. CellOf(body, Len(stream) + i) = [at |-> at + i, ks |-> KeyAt(p, at + i)]
    <3> DEFINE k == Len(stream) + i
    <3>1. k \in Int /\ body \in Seq(Pieces) /\ Chain(body, HeaderSize) /\ HeaderSize \in Nat
      BY <1>3, <2>1
    <3>2. cur.piece \in OwnerIn(body, HeaderSize + k - 1) /\ at + i = HeaderSize + k - 1
      BY <2>1, <2>2
    <3> HIDE DEF k
    <3>3. CellOf(body, k) = [at |-> HeaderSize + k - 1, ks |-> KeyAt(body[cur.piece], HeaderSize + k - 1)]
      BY <3>1, <3>2, CellOwned
    <3>4. CellOf(body, k) = [at |-> at + i, ks |-> KeyAt(p, at + i)]
      BY <3>2, <3>3 DEF p
    <3>5. QED
      BY <3>4 DEF k
  <2>4. QED
    BY <1>3, <2>1, <2>2, <2>3, CellType
<1>10. /\ more \in Seq(Cells) /\ Len(more) = take
  BY <1>7, <1>9
<1> HIDE DEF more
<1>11. /\ stream' \in Seq(Cells) /\ Len(stream') = Len(stream) + take
       /\ \A k \in 1..Len(stream) : stream'[k] = stream[k]
       /\ \A i \in 1..take : stream'[Len(stream) + i] = more[i]
  <2>1. /\ stream \o more \in Seq(Cells) /\ Len(stream \o more) = Len(stream) + Len(more)
        /\ \A k \in 1..Len(stream) : (stream \o more)[k] = stream[k]
        /\ \A i \in 1..Len(more) : (stream \o more)[Len(stream) + i] = more[i]
    <3>1. stream \in Seq(Cells) /\ more \in Seq(Cells)
      BY <1>3, <1>10
    <3>2. stream \o more \in Seq(Cells) /\ Len(stream \o more) = Len(stream) + Len(more)
      BY <3>1
    <3>3. \A k \in 1..Len(stream) : (stream \o more)[k] = stream[k]
      BY <3>1
    <3>4. \A k \in 1..Len(more) : (stream \o more)[Len(stream) + k] = more[k]
      BY <3>1, Concat
    <3>5. QED
      BY <3>2, <3>3, <3>4
  <2>2. QED
    BY <1>6, <1>10, <2>1
<1>12. HeaderSize + Len(stream') <= nca.size
  <2>1. body # << >> /\ Len(body) \in 1..Len(body) /\ nca.size = PieceEnd(body[Len(body)])
    BY <1>1, <1>3, <1>4 DEF CoverEnd
  <2>2. body[Len(body)].offset \in Nat /\ body[Len(body)].size \in Nat
        /\ PieceEnd(body[Len(body)]) = body[Len(body)].offset + body[Len(body)].size
    BY <1>3, <2>1, PieceTypes
  <2>3. cur.piece = Len(body) \/ PieceEnd(p) <= body[Len(body)].offset
    BY <1>3, <1>4, <2>1, Ordered, SMTT(30) DEF p
  <2>4. HeaderSize + Len(stream') <= PieceEnd(p)
    BY <1>3, <1>4, <1>5, <1>7, <1>11, SMTT(30)
  <2>5. QED
    <3>1. PieceEnd(p) <= nca.size
      <4>1. CASE cur.piece = Len(body)
        BY <2>1, <2>2, <4>1 DEF p
      <4>2. CASE cur.piece # Len(body)
        <5>1. PieceEnd(p) \in Nat
          BY <1>5
        <5>2. QED
          BY <2>1, <2>2, <2>3, <4>2, <5>1
      <4>3. QED
        BY <4>1, <4>2
    <3>2. Len(stream') \in Nat /\ PieceEnd(p) \in Nat
      BY <1>n, <1>5, <1>7, <1>11
    <3>3. QED
      BY <1>n, <2>4, <3>1, <3>2
<1>13. ASSUME NEW k \in 1..Len(stream')
       PROVE  stream'[k] = CellOf(body, k) /\ OwnerIn(body, HeaderSize + k - 1) # {}
  <2>1. CASE k <= Len(stream)
    <3>1. k \in 1..Len(stream)
      BY <1>3, <2>1
    <3>2. QED
      BY <1>1, <1>11, <3>1 DEF StreamOK
  <2>2. CASE k > Len(stream)
    <3>1. k - Len(stream) \in 1..take /\ k = Len(stream) + (k - Len(stream))
      BY <1>3, <1>7, <1>11, <2>2
    <3>2. QED
      BY <1>9, <1>11, <3>1
  <2>3. QED
    BY <1>3, <1>11, <2>1, <2>2
<1>14. StreamOK'
  <2>1. \A k \in 1..Len(stream') : CellOf(body, k)' = CellOf(body, k)
    BY <1>2 DEF CellOf, OwnerIn, KeyAt
  <2>2. \A k \in 1..Len(stream') : OwnerIn(body, HeaderSize + k - 1)' # {}
    BY <1>2, <1>13 DEF OwnerIn
  <2>3. QED
    BY <1>1, <1>2, <1>11, <1>12, <1>13, <2>1, <2>2 DEF StreamOK
<1>15. CurOK'
  <2>1. cur'.piece = cur.piece /\ cur'.fed = cur.fed + take
        /\ cur' \in [piece : 1..(Len(body) + 1), fed : Nat]
    BY <1>1, <1>4, <1>6, <1>7 DEF CurOK
  <2>2. cur'.fed <= p.size /\ HeaderSize + Len(stream') = p.offset + cur'.fed
    <3>1. cur'.fed = cur.fed + take /\ Len(stream') = Len(stream) + take
      BY <1>11, <2>1
    <3>2. p.offset \in Nat /\ p.size \in Nat
      BY <1>5
    <3>3. cur'.fed <= p.size
      BY <1>4, <1>7, <3>1, <3>2
    <3>4. HeaderSize + Len(stream') = p.offset + cur'.fed
      <4>1. HeaderSize + (Len(stream) + take) = p.offset + (cur.fed + take)
        BY <1>n, <1>4, <1>7, <3>2, SMTT(30)
      <4>2. QED
        BY <3>1, <4>1
    <3>5. QED
      BY <3>3, <3>4
  <2>3. QED
    BY <1>2, <1>3, <1>4, <2>1, <2>2 DEF CurOK, p
<1>16. QED
  BY <1>1, <1>2, <1>14, <1>15 DEF CodecInv
\* The next piece begins where the last one ends.
LEMMA NextPieceKeeps ==
  ASSUME CodecInv, NextPiece
  PROVE  CodecInv'
<1>1. PartitionInv' /\ phase = "compress" /\ Own /\ CurOK /\ StreamOK
      /\ taken = 0 /\ chunk = << >> /\ out = << >>
  <2>1. PartitionInv'
    BY NextInv DEF CodecInv, Next, Compress
  <2>2. phase = "compress"
    BY DEF NextPiece
  <2>3. QED
    BY <2>1, <2>2 DEF CodecInv
<1>2. UNCHANGED <<phase, nca, body, stream, taken, chunk, out>> /\ Own'
  BY <1>1 DEF NextPiece, partVars, readVars, Own
<1>3. /\ HeaderSize \in Nat /\ body \in Seq(Pieces) /\ Len(body) \in Nat
      /\ Chain(body, HeaderSize) /\ DOMAIN body = 1..Len(body)
  BY <1>1, BodyTypes
<1>4. StreamOK'
  BY <1>1, <1>2 DEF StreamOK, CellOf, OwnerIn, KeyAt
<1>5. /\ cur.piece \in 1..Len(body) /\ cur.fed = body[cur.piece].size
      /\ HeaderSize + Len(stream) = PieceEnd(body[cur.piece])
  <2>1. cur.piece \in 1..(Len(body) + 1) /\ cur.fed \in Nat
    BY <1>1 DEF CurOK
  <2>2. cur.piece <= Len(body) /\ cur.fed >= body[cur.piece].size
    BY DEF NextPiece
  <2>3. cur.piece \in 1..Len(body)
    BY <1>3, <2>1, <2>2
  <2>4. body[cur.piece].size \in Nat
    BY <1>3, <2>3, PieceTypes
  <2>5. cur.fed <= body[cur.piece].size
        /\ HeaderSize + Len(stream) = body[cur.piece].offset + cur.fed
    BY <1>1, <1>3, <2>1, <2>2 DEF CurOK
  <2>6. cur.fed = body[cur.piece].size
    BY <2>1, <2>2, <2>4, <2>5
  <2>7. QED
    BY <2>3, <2>5, <2>6 DEF PieceEnd
<1>6. cur' = [piece |-> cur.piece + 1, fed |-> 0]
  BY DEF NextPiece
<1>7. CurOK'
  <2>1. cur' \in [piece : 1..(Len(body) + 1), fed : Nat]
    BY <1>3, <1>5, <1>6
  <2>2. CASE cur.piece = Len(body)
    <3>1. body # << >> /\ HeaderSize + Len(stream) = CoverEnd(body, HeaderSize)
      BY <1>3, <1>5, <2>2 DEF CoverEnd
    <3>2. cur'.piece > Len(body)
      BY <1>3, <1>6, <2>2
    <3>3. QED
      BY <1>2, <2>1, <3>1, <3>2 DEF CurOK, CoverEnd, PieceEnd
  <2>3. CASE cur.piece # Len(body)
    <3>1. cur'.piece = cur.piece + 1 /\ cur'.fed = 0 /\ cur.piece + 1 \in 1..Len(body)
      BY <1>3, <1>5, <1>6, <2>3
    <3>2. body[cur.piece + 1].offset = PieceEnd(body[cur.piece])
      BY <1>3, <1>5, <3>1, SMTT(30) DEF Chain
    <3>3. body[cur.piece + 1].offset \in Nat /\ body[cur.piece + 1].size \in Nat
      BY <1>3, <3>1, PieceTypes
    <3>4. HeaderSize + Len(stream) = body[cur.piece + 1].offset + 0
      BY <1>5, <3>2, <3>3
    <3>5. ~(cur'.piece > Len(body')) /\ cur'.fed <= body'[cur'.piece].size
          /\ HeaderSize + Len(stream') = body'[cur'.piece].offset + cur'.fed
      BY <1>2, <1>3, <3>1, <3>3, <3>4
    <3>6. QED
      BY <1>2, <2>1, <3>5 DEF CurOK
  <2>4. QED
    BY <2>2, <2>3
<1>8. QED
  BY <1>1, <1>2, <1>4, <1>7 DEF CodecInv

\* The file holds the whole body.
LEMMA FinishCompressKeeps ==
  ASSUME CodecInv, FinishCompress
  PROVE  CodecInv'
<1>1. PartitionInv' /\ phase = "compress" /\ Own /\ CurOK /\ StreamOK
      /\ taken = 0 /\ chunk = << >> /\ out = << >>
      /\ CoverEnd(body, HeaderSize) = nca.size
  <2>1. PartitionInv'
    BY NextInv DEF CodecInv, Next, Compress
  <2>2. phase = "compress"
    BY DEF FinishCompress
  <2>3. QED
    BY <2>1, <2>2 DEF CodecInv, PartitionInv
<1>2. /\ UNCHANGED <<nca, body, stream, taken, chunk, out>> /\ Own' /\ phase' = "stored"
      /\ cur.piece > Len(body) /\ file'.size = Len(stream)
  BY <1>1 DEF FinishCompress, partVars, Own
<1>3. StreamOK'
  BY <1>1, <1>2 DEF StreamOK, CellOf, OwnerIn, KeyAt
<1>4. HeaderSize + Len(stream) = nca.size
  BY <1>1, <1>2 DEF CurOK
<1>5. HeaderSize \in Nat /\ nca.size \in Nat /\ Len(stream) \in Nat
  BY BodyTypes
<1>6. file'.size = nca'.size - HeaderSize
  BY <1>2, <1>4, <1>5
<1>7. QED
  BY <1>1, <1>2, <1>3, <1>6 DEF CodecInv

\* The emitter starts at the end of the header.
LEMMA OpenNczKeeps ==
  ASSUME CodecInv, NEW kept \in 0..Len(stream), OpenNcz(kept)
  PROVE  CodecInv'
<1>1. PartitionInv'
  <2>1. Next
    BY DEF Next, Decompress
  <2>2. QED
    BY <2>1, NextInv DEF CodecInv
<1>2. phase = "stored" /\ StreamOK /\ taken = 0 /\ chunk = << >>
      /\ file.size = nca.size - HeaderSize
  BY DEF CodecInv, OpenNcz
<1>3. /\ UNCHANGED <<nca, body, file, taken, chunk>> /\ phase' = "decompress"
      /\ (Own <=> Own') /\ stream' = SubSeq(stream, 1, kept)
      /\ table' = Prepare(body) /\ em' = At(Prepare(body), 1) /\ out' = Image(HeaderSize)
  BY DEF OpenNcz, partVars, Own
<1>4. /\ HeaderSize \in Nat /\ nca.size \in Nat /\ Len(stream) \in Nat /\ kept \in Nat
      /\ stream \in Seq(Cells) /\ BlockSize \in Nat \ {0}
  BY BodyTypes
<1>5. /\ stream' \in Seq(Cells) /\ Len(stream') = kept /\ kept <= Len(stream)
      /\ \A k \in 1..kept : stream'[k] = stream[k]
  BY <1>3, <1>4
<1>6. StreamOK'
  <2>1. \A k \in 1..kept : k \in 1..Len(stream)
    BY <1>4
  <2>2. \A k \in 1..kept : stream'[k] = CellOf(body, k)
    BY <1>2, <1>5, <2>1 DEF StreamOK
  <2>3. \A k \in 1..kept : Own => OwnerIn(body, HeaderSize + k - 1) # {}
    BY <1>2, <2>1 DEF StreamOK
  <2>4. HeaderSize + kept <= nca.size
    BY <1>2, <1>4, <1>5 DEF StreamOK
  <2>5. QED
    BY <1>3, <1>5, <2>2, <2>3, <2>4 DEF StreamOK, CellOf, OwnerIn, KeyAt
<1>7. ChunkOK'
  <2>1. 0 % BlockSize = 0
    BY <1>4, DivisionUnique
  <2>2. Len(chunk') = 0 /\ chunk' \in Seq(Cells) /\ taken' = 0
    BY <1>2, <1>3
  <2>3. QED
    BY <1>4, <1>5, <2>1, <2>2 DEF ChunkOK
<1>8. EmitterOK'
  <2>1. /\ Prepare(body) \in Seq(Pieces) /\ Chain(Prepare(body), HeaderSize)
    BY BodyReadable, PrepareTable DEF Prepared
  <2> DEFINE t == Prepare(body)
  <2>2. t \in Seq(Pieces) /\ Len(t) \in Nat /\ DOMAIN t = 1..Len(t) /\ Chain(t, HeaderSize)
    BY <2>1
  <2>3. table' = t /\ em' = At(t, 1) /\ table' = Prepare(body)'
    BY <1>3 DEF Prepare, Gap, Piece
  <2> HIDE DEF t
  <2>4. /\ out' \in Seq(Cells) /\ Len(out') = HeaderSize
        /\ \A i \in 1..Len(out') : out'[i] = Original(i - 1)
    <3>1. \A i \in 1..HeaderSize : Original(i - 1) \in Cells
      BY <1>4 DEF Original, Cells
    <3>2. out' = [i \in 1..HeaderSize |-> Original(i - 1)]
      BY <1>3 DEF Image
    <3>3. QED
      BY <1>4, <3>1, <3>2
  <2>5. Len(out') + Len(chunk') = HeaderSize + taken'
    BY <1>2, <1>3, <1>4, <2>4
  <2>6. CASE t = << >>
    <3>1. Len(t) = 0 /\ em'.idx = 1 /\ em' \in [idx : 1..(Len(t) + 1), left : Nat, pos : Int]
          /\ CoverEnd(t, HeaderSize) = HeaderSize
      <4>1. Len(t) = 0 /\ CoverEnd(t, HeaderSize) = HeaderSize
        BY <2>6 DEF CoverEnd
      <4>2. em' = [idx |-> 1, left |-> 0, pos |-> 0]
        BY <2>3, <4>1 DEF At
      <4>3. QED
        BY <4>1, <4>2
    <3>2. em'.idx > Len(t) /\ Len(out') >= CoverEnd(t, HeaderSize)
      BY <1>4, <2>4, <3>1
    <3>3. CoverEnd(table', HeaderSize) = CoverEnd(t, HeaderSize)
      BY <2>3
    <3>4. QED
      BY <2>3, <2>4, <2>5, <3>1, <3>2, <3>3 DEF EmitterOK, CoverEnd, PieceEnd
  <2>7. CASE t # << >>
    <3>1. 1 \in 1..Len(t) /\ 1 <= Len(t) /\ t[1] \in Pieces
      BY <2>2, <2>7, Element
    <3>2. t[1].offset = HeaderSize /\ t[1].size \in Nat /\ AlignDown(t[1].offset) \in Int
          /\ PieceEnd(t[1]) = t[1].offset + t[1].size
      BY <2>2, <3>1, PieceTypes, KeyType DEF Chain
    <3>3. em' = [idx |-> 1, left |-> t[1].size, pos |-> AlignDown(t[1].offset)]
      BY <2>3, <3>1 DEF At
    <3>4. em' \in [idx : 1..(Len(t) + 1), left : Nat, pos : Int] /\ ~(em'.idx > Len(t))
      BY <2>2, <3>1, <3>2, <3>3
    <3>5. /\ em'.left <= t[em'.idx].size
          /\ Len(out') = PieceEnd(t[em'.idx]) - em'.left
          /\ em'.pos = AlignDown(t[em'.idx].offset) + t[em'.idx].size - em'.left
      BY <1>4, <2>4, <3>2, <3>3
    <3>6. QED
      BY <2>3, <2>4, <2>5, <3>4, <3>5 DEF EmitterOK, PieceEnd, AlignDown
  <2>8. QED
    BY <2>6, <2>7
<1>9. QED
  BY <1>1, <1>2, <1>3, <1>6, <1>7, <1>8 DEF CodecInv

-----------------------------------------------------------------------------
\* The decoder and the emitter leave the file and its table alone.
LEMMA ReadFrame ==
  ASSUME CodecInv,
         \/ \E n \in 1..Len(stream) : DecodeSolid(n)
         \/ DecodeBlock \/ EmitExcess \/ EmitNext \/ EmitSlice
  PROVE  /\ PartitionInv' /\ StreamOK' /\ phase = "decompress" /\ phase' = "decompress"
         /\ UNCHANGED <<nca, body, stream, file, table>> /\ (Own <=> Own')
         /\ ChunkOK /\ EmitterOK /\ file.size = nca.size - HeaderSize
         /\ Prepare(body)' = Prepare(body)
<1>1. /\ phase = "decompress" /\ phase' = "decompress"
      /\ UNCHANGED <<nca, body, stream, cur, file, table>>
  BY DEF DecodeSolid, DecodeBlock, EmitExcess, EmitNext, EmitSlice, partVars
<1>2. PartitionInv'
  <2>1. Next
    BY DEF Next, Decompress
  <2>2. QED
    BY <2>1, NextInv DEF CodecInv
<1>3. ChunkOK /\ EmitterOK /\ StreamOK /\ file.size = nca.size - HeaderSize
  BY <1>1 DEF CodecInv
<1>4. StreamOK' /\ (Own <=> Own')
  <2>1. Own <=> Own'
    BY <1>1 DEF Own
  <2>2. \A k \in 1..Len(stream) :
           /\ CellOf(body, k)' = CellOf(body, k)
           /\ OwnerIn(body, HeaderSize + k - 1)' = OwnerIn(body, HeaderSize + k - 1)
    BY <1>1
  <2>3. QED
    BY <1>1, <1>3, <2>1, <2>2 DEF StreamOK
<1>5. Prepare(body)' = Prepare(body)
  BY <1>1 DEF Prepare, Gap, Piece
<1>6. QED
  BY <1>1, <1>2, <1>3, <1>4, <1>5

\* What follows when chunk, output and emitter agree again.
LEMMA ReadKeeps ==
  ASSUME CodecInv,
         \/ \E n \in 1..Len(stream) : DecodeSolid(n)
         \/ DecodeBlock \/ EmitExcess \/ EmitNext \/ EmitSlice,
         ChunkOK', EmitterOK'
  PROVE  CodecInv'
<1>1. /\ PartitionInv' /\ StreamOK' /\ phase' = "decompress"
      /\ UNCHANGED <<nca, body, stream, file, table>> /\ (Own <=> Own')
      /\ file.size = nca.size - HeaderSize
  BY ReadFrame
<1>2. QED
  BY <1>1 DEF CodecInv

\* The decoder hands out the next bytes of the stream.
LEMMA HandOut ==
  ASSUME CodecInv, ChunkOK, EmitterOK, chunk = << >>, NEW n \in Nat,
         taken + n <= Len(stream), chunk' = SubSeq(stream, taken + 1, taken + n),
         taken' = taken + n, UNCHANGED <<stream, body, file, table, em, out>>,
         file.layout = "blocks" => taken' % BlockSize = 0 \/ taken' = Len(stream)
  PROVE  ChunkOK' /\ EmitterOK'
<1>1. /\ stream \in Seq(Cells) /\ Len(stream) \in Nat /\ HeaderSize \in Nat
      /\ taken \in Nat
  BY BodyTypes DEF ChunkOK
<1>2. /\ taken + n \in Nat /\ taken <= taken + n
      /\ (taken + n) - taken = n /\ (taken + n) - n = taken
  BY <1>1
<1>3. /\ chunk' \in Seq(Cells) /\ Len(chunk') = n
      /\ \A i \in 1..n : chunk'[i] = stream[taken + i]
  <2>1. /\ SubSeq(stream, taken + 1, taken + n) \in Seq(Cells)
        /\ Len(SubSeq(stream, taken + 1, taken + n)) = n
        /\ \A i \in 1..n : SubSeq(stream, taken + 1, taken + n)[i] = stream[taken + i]
    BY <1>1, <1>2
  <2>2. QED
    BY <2>1
<1>4. ChunkOK'
  <2>1. \A i \in 1..n : chunk'[i] = stream[taken' - Len(chunk') + i]
    <3>1. taken' - Len(chunk') = taken
      BY <1>2, <1>3
    <3>2. QED
      BY <1>3, <3>1
  <2>2. taken' \in 0..Len(stream) /\ Len(chunk') <= taken'
    BY <1>1, <1>2, <1>3
  <2>3. QED
    BY <1>3, <2>1, <2>2 DEF ChunkOK
<1>5. EmitterOK'
  <2>1. Len(out) + Len(chunk') = HeaderSize + taken'
    <3>1. Len(chunk) = 0 /\ Len(out) \in Nat
      BY DEF EmitterOK
    <3>2. Len(out) = HeaderSize + taken
      BY <1>1, <3>1 DEF EmitterOK
    <3>3. (HeaderSize + taken) + n = HeaderSize + (taken + n)
      BY <1>1
    <3>4. QED
      BY <1>3, <3>2, <3>3
  <2>2. QED
    BY <2>1 DEF EmitterOK, Prepare, Gap, Piece, CoverEnd, PieceEnd, AlignDown, Original
<1>6. QED
  BY <1>4, <1>5

LEMMA DecodeSolidKeeps ==
  ASSUME CodecInv, NEW n \in 1..Len(stream), DecodeSolid(n)
  PROVE  CodecInv'
<1>1. /\ ChunkOK /\ EmitterOK /\ UNCHANGED <<body, stream, file, table>>
  BY ReadFrame
<1>2. /\ chunk = << >> /\ chunk' = SubSeq(stream, taken + 1, taken + n)
      /\ taken' = taken + n /\ file.layout = "solid" /\ UNCHANGED <<em, out>>
      /\ n \in 1..(Len(stream) - taken)
  BY DEF DecodeSolid
<1>3. n \in Nat /\ taken + n <= Len(stream)
  <2>1. taken \in Nat /\ Len(stream) \in Nat
    BY <1>1, BodyTypes DEF ChunkOK
  <2>2. QED
    BY <1>2, <2>1
<1>4. ChunkOK' /\ EmitterOK'
  BY <1>1, <1>2, <1>3, HandOut
<1>5. QED
  BY <1>4, ReadKeeps

\* The last block holds the rest, and the decoder knows it.
LEMMA BlockLength ==
  ASSUME CodecInv, phase = "decompress", file.layout = "blocks", ChunkOK,
         taken < Len(stream)
  PROVE  /\ BlockLen(taken \div BlockSize) \in 1..BlockSize
         /\ DecompressedLen(taken \div BlockSize) = BlockLen(taken \div BlockSize)
         /\ \/ BlockLen(taken \div BlockSize) = BlockSize
            \/ taken + BlockLen(taken \div BlockSize) = file.size
         /\ taken = (taken \div BlockSize) * BlockSize
         /\ Len(stream) <= file.size /\ file.size \in Nat
<1>1. /\ BlockSize \in Nat \ {0} /\ file.size \in Nat /\ Len(stream) <= file.size
      /\ taken \in Nat /\ Len(stream) \in Nat
  <2>1. /\ HeaderSize \in Nat /\ nca.size \in Nat /\ BlockSize \in Nat \ {0}
        /\ Len(stream) \in Nat /\ HeaderSize <= nca.size /\ file.size = nca.size - HeaderSize
    BY BodyTypes DEF CodecInv
  <2>2. HeaderSize + Len(stream) <= nca.size /\ taken \in Nat
    BY <2>1 DEF CodecInv, StreamOK, ChunkOK
  <2>3. QED
    BY <2>1, <2>2
<1>2. taken % BlockSize = 0
  BY <1>1 DEF ChunkOK
<1>3. PICK b \in Int : b = taken \div BlockSize /\ taken = b * BlockSize
  <2>1. taken = (taken \div BlockSize) * BlockSize + 0 /\ taken \div BlockSize \in Int
    BY <1>1, <1>2, Division
  <2>2. (taken \div BlockSize) * BlockSize \in Int
    BY <1>1, <2>1
  <2>3. QED
    BY <2>1, <2>2
<1>4. PICK q \in Int, r \in 0..(BlockSize - 1) :
        file.size = q * BlockSize + r /\ r = file.size % BlockSize
  <2>1. /\ file.size \div BlockSize \in Int /\ file.size % BlockSize \in 0..(BlockSize - 1)
        /\ file.size = (file.size \div BlockSize) * BlockSize + (file.size % BlockSize)
    <3>1. file.size \in Int /\ BlockSize \in Nat \ {0}
      BY <1>1
    <3>2. QED
      BY <3>1, Division, Zenon
  <2>2. QED
    BY <2>1
<1>5. b * BlockSize < file.size
  BY <1>1, <1>3
<1>6. /\ BlockCount = IF r = 0 THEN q ELSE q + 1
      /\ b < q => BlockSize <= file.size - b * BlockSize
      /\ b >= q => b = q /\ r > 0 /\ file.size - b * BlockSize = r
  <2>1. file.size \in Int
    BY <1>1
  <2>2. /\ (file.size + BlockSize - 1) \div BlockSize = IF r = 0 THEN q ELSE q + 1
        /\ b < q => BlockSize <= file.size - b * BlockSize
        /\ b >= q => b = q /\ r > 0 /\ file.size - b * BlockSize = r
    <3>1. /\ BlockSize \in Nat \ {0} /\ file.size \in Int /\ b \in Int /\ q \in Int
          /\ r \in 0..(BlockSize - 1) /\ file.size = q * BlockSize + r
          /\ b * BlockSize < file.size
      BY <1>1, <1>4, <1>5, <2>1
    <3>2. QED
      BY <3>1, LastBlock, Zenon, SMTT(30)
  <2>3. QED
    BY <2>2 DEF BlockCount
<1>7. file.size - b * BlockSize \in Int
  BY <1>1, <1>3
<1>8. CASE b < q
  <2>1. BlockLen(b) = BlockSize
    BY <1>1, <1>6, <1>7, <1>8 DEF BlockLen, Least
  <2>2. ~(b = BlockCount - 1 /\ r > 0)
    BY <1>4, <1>6, <1>8
  <2>3. DecompressedLen(b) = BlockSize
    BY <1>4, <2>2 DEF DecompressedLen
  <2>4. BlockLen(b) \in 1..BlockSize
    BY <1>1, <2>1
  <2>5. QED
    BY <1>1, <1>3, <2>1, <2>3, <2>4
<1>9. CASE b >= q
  <2>1. BlockLen(b) = r
    BY <1>1, <1>4, <1>6, <1>7, <1>9 DEF BlockLen, Least
  <2>2. b = BlockCount - 1 /\ r > 0
    BY <1>4, <1>6, <1>9
  <2>3. DecompressedLen(b) = r
    BY <1>4, <2>2 DEF DecompressedLen
  <2>4. BlockLen(b) \in 1..BlockSize
    BY <1>1, <1>4, <2>1, <2>2
  <2>5. taken + r = file.size
    BY <1>1, <1>3, <1>4, <1>6, <1>9
  <2>6. QED
    BY <1>1, <1>3, <2>1, <2>3, <2>4, <2>5
<1>10. QED
  BY <1>8, <1>9

LEMMA DecodeBlockKeeps ==
  ASSUME CodecInv, DecodeBlock
  PROVE  CodecInv'
<1>1. /\ ChunkOK /\ EmitterOK /\ UNCHANGED <<body, stream, file, table>>
      /\ phase = "decompress"
  BY ReadFrame
<1> DEFINE b == taken \div BlockSize
           upto == Least(taken + BlockLen(b), Len(stream))
<1>2. /\ chunk = << >> /\ file.layout = "blocks" /\ taken < Len(stream)
      /\ UNCHANGED <<em, out>> /\ taken' = upto
      /\ chunk' = IF (StoredSize(b) < DecompressedLen(b)) = (b \in file.framed)
                  THEN SubSeq(stream, taken + 1, upto)
                  ELSE Garbage(SubSeq(stream, taken + 1, upto))
  BY DEF DecodeBlock
<1>3. /\ BlockLen(b) \in 1..BlockSize /\ DecompressedLen(b) = BlockLen(b)
      /\ BlockLen(b) = BlockSize \/ taken + BlockLen(b) = file.size
      /\ taken = b * BlockSize /\ Len(stream) <= file.size /\ file.size \in Nat
  BY <1>1, <1>2, BlockLength
<1>4. /\ BlockSize \in Nat \ {0} /\ Len(stream) \in Nat /\ taken \in Nat
  BY <1>1, BodyTypes DEF ChunkOK
<1>b. b \in Int
  BY <1>4, Division
<1>s. StoredSize(b) = IF b \in file.framed THEN BlockLen(b) - 1 ELSE BlockLen(b)
  BY DEF StoredSize
<1> HIDE DEF b
<1>5. (StoredSize(b) < DecompressedLen(b)) = (b \in file.framed)
  <2>1. CASE b \in file.framed
    BY <1>3, <1>4, <1>s, <2>1
  <2>2. CASE b \notin file.framed
    BY <1>3, <1>4, <1>s, <2>2
  <2>3. QED
    BY <2>1, <2>2
<1>6. chunk' = SubSeq(stream, taken + 1, upto)
  BY <1>2, <1>5
<1>7. PICK n \in Nat : upto = taken + n /\ taken + n <= Len(stream) /\ n <= BlockLen(b)
                       /\ (n = BlockLen(b) \/ taken + n = Len(stream))
  <2>1. CASE taken + BlockLen(b) <= Len(stream)
    <3>1. upto = taken + BlockLen(b) /\ BlockLen(b) \in Nat
      BY <1>3, <1>4, <2>1 DEF Least
    <3>2. QED
      BY <2>1, <3>1
  <2>2. CASE ~(taken + BlockLen(b) <= Len(stream))
    <3>1. upto = taken + (Len(stream) - taken) /\ Len(stream) - taken \in Nat
      BY <1>2, <1>3, <1>4, <2>2 DEF Least
    <3>2. Len(stream) - taken <= BlockLen(b)
      BY <1>3, <1>4, <2>2
    <3>3. taken + (Len(stream) - taken) = Len(stream)
      BY <1>4
    <3>4. QED
      BY <3>1, <3>2, <3>3
  <2>3. QED
    BY <2>1, <2>2
<1>8. taken' % BlockSize = 0 \/ taken' = Len(stream)
  <2>1. CASE upto = Len(stream)
    BY <1>2, <2>1
  <2>2. CASE upto # Len(stream)
    <3>1. n = BlockLen(b) /\ taken + n < Len(stream)
      BY <1>4, <1>7, <2>2
    <3>2. BlockLen(b) = BlockSize
      BY <1>3, <1>4, <1>7, <3>1
    <3>3. upto = b * BlockSize + BlockSize /\ upto \in Int
      BY <1>3, <1>4, <1>7, <3>1, <3>2
    <3>4. b + 1 \in Int /\ b * BlockSize + BlockSize = (b + 1) * BlockSize + 0
      BY <1>4, <1>b
    <3>5. upto % BlockSize = 0
      <4>1. PICK a \in Int, q \in Int : a = upto /\ q = b + 1 /\ a = q * BlockSize + 0
        BY <3>3, <3>4
      <4>2. a % BlockSize = 0
        <5>1. 0 \in Int /\ 0 <= 0 /\ 0 < BlockSize /\ BlockSize \in Nat \ {0}
          BY <1>4
        <5>2. QED
          BY <4>1, <5>1, DivisionUnique, Zenon
      <4>3. QED
        BY <4>1, <4>2
    <3>6. QED
      BY <1>2, <3>5
  <2>3. QED
    BY <2>1, <2>2
<1>9. ChunkOK' /\ EmitterOK'
  BY <1>1, <1>2, <1>6, <1>7, <1>8, HandOut
<1>10. QED
  BY <1>9, ReadKeeps
-----------------------------------------------------------------------------
\* The emitter's table, and the bytes of the chunk under it.
LEMMA TableTypes ==
  ASSUME CodecInv, phase \in {"decompress", "done"}
  PROVE  /\ table \in Seq(Pieces) /\ Len(table) \in Nat /\ DOMAIN table = 1..Len(table)
         /\ Chain(table, HeaderSize)
         /\ chunk \in Seq(Cells) /\ Len(chunk) \in Nat /\ out \in Seq(Cells) /\ Len(out) \in Nat
         /\ taken \in Nat /\ Len(stream) \in Nat /\ HeaderSize \in Nat
<1>1. EmitterOK /\ ChunkOK
  BY DEF CodecInv
<1>2. Prepared(table, body)
  BY <1>1, BodyReadable, PrepareTable DEF EmitterOK
<1>3. Len(stream) \in Nat /\ HeaderSize \in Nat
  BY BodyTypes
<1>4. table \in Seq(Pieces) /\ Chain(table, HeaderSize)
  BY <1>2 DEF Prepared
<1>5. chunk \in Seq(Cells) /\ out \in Seq(Cells) /\ taken \in Nat
  BY <1>1, <1>3 DEF EmitterOK, ChunkOK
<1>6. QED
  BY <1>3, <1>4, <1>5

LEMMA ChunkCell ==
  ASSUME CodecInv, phase = "decompress", NEW i \in 1..Len(chunk)
  PROVE  LET k == Len(out) - HeaderSize + i
         IN k \in Nat \ {0} /\ HeaderSize + k - 1 = Len(out) + i - 1
            /\ chunk[i] = CellOf(table, k)
<1> DEFINE k == Len(out) - HeaderSize + i
<1>1. /\ EmitterOK /\ ChunkOK /\ StreamOK
  BY DEF CodecInv
<1>2. /\ Len(chunk) \in Nat /\ Len(out) \in Nat /\ taken \in Nat /\ Len(stream) \in Nat
      /\ HeaderSize \in Nat
  BY TableTypes
<1>3. Len(out) + Len(chunk) = HeaderSize + taken /\ Len(chunk) <= taken /\ taken <= Len(stream)
  BY <1>1, <1>2 DEF EmitterOK, ChunkOK
<1>4. k = taken - Len(chunk) + i /\ k \in 1..Len(stream) /\ HeaderSize + k - 1 = Len(out) + i - 1
  BY <1>2, <1>3
<1>5. chunk[i] = stream[k]
  BY <1>1, <1>4 DEF ChunkOK
<1>6. stream[k] = CellOf(body, k)
  BY <1>1, <1>4 DEF StreamOK
<1>7. CellOf(table, k) = CellOf(body, k)
  <2>1. Prepared(table, body)
    BY <1>1, BodyReadable, PrepareTable DEF EmitterOK
  <2>2. k \in Nat \ {0}
    BY <1>2, <1>4
  <2>3. QED
    BY <2>1, <2>2 DEF Prepared
<1>8. k \in Nat \ {0} /\ HeaderSize + k - 1 = Len(out) + i - 1
  BY <1>2, <1>4
<1>9. chunk[i] = CellOf(table, k)
  BY <1>5, <1>6, <1>7, Zenon
<1>10. QED
  BY <1>8, <1>9, Zenon

LEMMA Shift ==
  ASSUME NEW a \in Int, NEW b \in Int, NEW c \in Int, NEW n \in Int, a + b = c
  PROVE  (a + n) + (b - n) = c
  OBVIOUS

\* The first n bytes of the chunk are written as the NCA has them.
LEMMA Written ==
  ASSUME CodecInv, phase = "decompress", NEW n \in 0..Len(chunk), NEW new,
         new \in [1..n -> Cells],
         \A i \in 1..n : new[i] = Original(Len(out) + i - 1),
         out' = out \o new, chunk' = SubSeq(chunk, n + 1, Len(chunk)),
         taken' = taken, stream' = stream, file' = file
  PROVE  /\ ChunkOK' /\ out' \in Seq(Cells) /\ Len(out') = Len(out) + n
         /\ Len(out') + Len(chunk') = HeaderSize + taken'
         /\ \A i \in 1..Len(out') : out'[i] = Original(i - 1)
<1>1. /\ EmitterOK /\ ChunkOK
  BY DEF CodecInv
<1>2. /\ Len(chunk) \in Nat /\ Len(out) \in Nat /\ taken \in Nat /\ Len(stream) \in Nat
      /\ HeaderSize \in Nat /\ chunk \in Seq(Cells) /\ out \in Seq(Cells)
  BY TableTypes
<1>3. n \in Nat /\ n <= Len(chunk)
  BY <1>2
<1>4. new \in Seq(Cells) /\ Len(new) = n
  BY <1>3
<1>5. /\ out' \in Seq(Cells) /\ Len(out') = Len(out) + n
      /\ \A i \in 1..Len(out) : out'[i] = out[i]
      /\ \A i \in 1..n : out'[Len(out) + i] = new[i]
  <2>1. /\ out \o new \in Seq(Cells) /\ Len(out \o new) = Len(out) + Len(new)
        /\ \A i \in 1..Len(out) : (out \o new)[i] = out[i]
        /\ \A i \in 1..Len(new) : (out \o new)[Len(out) + i] = new[i]
    <3>1. out \in Seq(Cells) /\ new \in Seq(Cells)
      BY <1>2, <1>4
    <3>2. out \o new \in Seq(Cells) /\ Len(out \o new) = Len(out) + Len(new)
      BY <3>1
    <3>3. \A k \in 1..Len(out) : (out \o new)[k] = out[k]
      BY <3>1
    <3>4. \A k \in 1..Len(new) : (out \o new)[Len(out) + k] = new[k]
      BY <3>1, Concat
    <3>5. QED
      BY <3>2, <3>3, <3>4
  <2>2. QED
    BY <1>4, <2>1
<1>6. /\ chunk' \in Seq(Cells) /\ Len(chunk') = Len(chunk) - n
      /\ \A i \in 1..(Len(chunk) - n) : chunk'[i] = chunk[n + i]
  <2> DEFINE c == SubSeq(chunk, n + 1, Len(chunk))
  <2>1. /\ c \in Seq(Cells) /\ Len(c) = Len(chunk) - n
        /\ \A i \in 1..(Len(chunk) - n) : c[i] = chunk[n + i]
    BY <1>2, <1>3
  <2>2. QED
    BY <2>1
<1>7. ASSUME NEW i \in 1..Len(out')
      PROVE  out'[i] = Original(i - 1)
  <2>1. CASE i <= Len(out)
    <3>1. i \in 1..Len(out)
      BY <1>2, <2>1
    <3>2. QED
      BY <1>1, <1>5, <3>1 DEF EmitterOK
  <2>2. CASE i > Len(out)
    <3>1. PICK j \in 1..n : i = Len(out) + j
      <4>1. i - Len(out) \in 1..n /\ i = Len(out) + (i - Len(out))
        BY <1>2, <1>3, <1>5, <2>2
      <4>2. QED
        BY <4>1
    <3>2. out'[i] = Original(Len(out) + j - 1)
      BY <1>5, <3>1
    <3>3. QED
      BY <3>1, <3>2
  <2>3. QED
    BY <1>2, <1>3, <1>5, <2>1, <2>2
<1>8. Len(out') + Len(chunk') = HeaderSize + taken'
  <2>1. Len(out) + Len(chunk) = HeaderSize + taken
    BY <1>1 DEF EmitterOK
  <2>2. (Len(out) + n) + (Len(chunk) - n) = HeaderSize + taken
    <3>1. Len(out) \in Int /\ Len(chunk) \in Int /\ HeaderSize + taken \in Int /\ n \in Int
      BY <1>2, <1>3
    <3>2. QED
      BY <2>1, <3>1, Shift
  <2>3. QED
    BY <1>5, <1>6, <2>2
<1>9. ChunkOK'
  <2>1. Len(chunk) <= taken /\ taken <= Len(stream)
        /\ \A i \in 1..Len(chunk) : chunk[i] = stream[taken - Len(chunk) + i]
    BY <1>1, <1>2 DEF ChunkOK
  <2>2. ASSUME NEW i \in 1..(Len(chunk) - n)
        PROVE  chunk'[i] = stream[taken - Len(chunk') + i]
    <3>1. n + i \in 1..Len(chunk)
          /\ taken - Len(chunk) + (n + i) = taken - (Len(chunk) - n) + i
      BY <1>2, <1>3
    <3>2. QED
      BY <1>6, <2>1, <3>1
  <2>3. Len(chunk') <= taken
    BY <1>2, <1>3, <1>6, <2>1
  <2>4. QED
    BY <1>1, <1>6, <2>2, <2>3 DEF ChunkOK
<1>10. QED
  BY <1>5, <1>7, <1>8, <1>9

\* Past the table bytes are written as they are.
LEMMA EmitExcessKeeps ==
  ASSUME CodecInv, EmitExcess
  PROVE  CodecInv'
<1>1. /\ ChunkOK /\ EmitterOK /\ UNCHANGED <<body, stream, file, table>>
      /\ Prepare(body)' = Prepare(body)
      /\ phase = "decompress"
  BY ReadFrame
<1>2. /\ em.idx > Len(table) /\ out' = out \o chunk /\ chunk' = << >>
      /\ taken' = taken /\ em' = em
  BY DEF EmitExcess
<1>3. /\ table \in Seq(Pieces) /\ Chain(table, HeaderSize) /\ Len(table) \in Nat
      /\ chunk \in Seq(Cells) /\ Len(chunk) \in Nat /\ Len(out) \in Nat /\ HeaderSize \in Nat
  BY <1>1, TableTypes
<1>4. Len(out) >= CoverEnd(table, HeaderSize) /\ CoverEnd(table, HeaderSize) \in Nat
  <2>1. CoverEnd(table, HeaderSize) \in Nat
    <3>1. CASE table = << >>
      BY <1>3, <3>1 DEF CoverEnd
    <3>2. CASE table # << >>
      <4>1. Len(table) \in 1..Len(table)
        BY <1>3, <3>2
      <4>2. QED
        BY <1>3, <3>2, <4>1, PieceTypes DEF CoverEnd
    <3>3. QED
      BY <3>1, <3>2
  <2>2. QED
    BY <1>1, <1>2, <2>1 DEF EmitterOK
<1>5. ASSUME NEW i \in 1..Len(chunk)
      PROVE  chunk[i] = Original(Len(out) + i - 1)
  <2> DEFINE k == Len(out) - HeaderSize + i
  <2>1. k \in Nat \ {0} /\ HeaderSize + k - 1 = Len(out) + i - 1 /\ chunk[i] = CellOf(table, k)
    BY <1>1, ChunkCell
  <2>2. HeaderSize + k - 1 \in Int /\ CoverEnd(table, HeaderSize) <= HeaderSize + k - 1
    BY <1>3, <1>4, <2>1
  <2>3. OwnerIn(table, HeaderSize + k - 1) = {}
    BY <1>3, <2>2, NoOwner
  <2> HIDE DEF k
  <2>4. CellOf(table, k) = [at |-> HeaderSize + k - 1, ks |-> {}]
    BY <2>1, <2>3, CellPlain
  <2>5. QED
    BY <2>1, <2>4 DEF Original
<1>6. /\ Len(chunk) \in 0..Len(chunk) /\ chunk \in [1..Len(chunk) -> Cells]
      /\ chunk' = SubSeq(chunk, Len(chunk) + 1, Len(chunk))
  BY <1>2, <1>3
<1>7. /\ ChunkOK' /\ out' \in Seq(Cells) /\ Len(out') = Len(out) + Len(chunk)
      /\ Len(out') + Len(chunk') = HeaderSize + taken'
      /\ \A i \in 1..Len(out') : out'[i] = Original(i - 1)
  BY <1>1, <1>2, <1>5, <1>6, Written
<1>8. EmitterOK'
  <2>1. Len(out') >= CoverEnd(table, HeaderSize)
    BY <1>3, <1>4, <1>7
  <2>2. QED
    BY <1>1, <1>2, <1>7, <2>1 DEF EmitterOK, CoverEnd, PieceEnd
<1>9. QED
  BY <1>7, <1>8, ReadKeeps

\* The emitter has filled its piece and turns to the next.
LEMMA EmitNextKeeps ==
  ASSUME CodecInv, EmitNext
  PROVE  CodecInv'
<1>1. /\ ChunkOK /\ EmitterOK /\ UNCHANGED <<body, stream, file, table>>
      /\ Prepare(body)' = Prepare(body)
      /\ phase = "decompress"
  BY ReadFrame
<1>2. /\ em.idx <= Len(table) /\ em.left = 0 /\ em' = At(table, em.idx + 1)
      /\ UNCHANGED <<taken, chunk, out>>
  BY DEF EmitNext
<1>3. /\ table \in Seq(Pieces) /\ Chain(table, HeaderSize) /\ Len(table) \in Nat
      /\ DOMAIN table = 1..Len(table) /\ Len(out) \in Nat
  BY <1>1, TableTypes
<1>4. em.idx \in 1..Len(table)
  BY <1>1, <1>2, <1>3 DEF EmitterOK
<1>5. Len(out) = PieceEnd(table[em.idx])
  <2>1. PieceEnd(table[em.idx]) \in Nat
    BY <1>3, <1>4, PieceTypes
  <2>2. Len(out) = PieceEnd(table[em.idx]) - em.left
    BY <1>1, <1>2, <1>3, <1>4 DEF EmitterOK
  <2>3. QED
    BY <1>2, <2>1, <2>2
<1>6. ChunkOK'
  BY <1>1, <1>2 DEF ChunkOK
<1> DEFINE j == em.idx + 1
<1>7. CASE em.idx = Len(table)
  <2>1. ~(j <= Len(table)) /\ j > Len(table) /\ j \in 1..(Len(table) + 1)
    BY <1>3, <1>4, <1>7
  <2>2. em' = [idx |-> j, left |-> 0, pos |-> 0]
    BY <1>2, <2>1 DEF At
  <2>3. table # << >> /\ Len(out) >= CoverEnd(table, HeaderSize)
    BY <1>3, <1>4, <1>5, <1>7 DEF CoverEnd
  <2>4. em' \in [idx : 1..(Len(table) + 1), left : Nat, pos : Int] /\ em'.idx > Len(table)
    BY <2>1, <2>2
  <2>5. EmitterOK'
    BY <1>1, <1>2, <2>3, <2>4 DEF EmitterOK, CoverEnd, PieceEnd
  <2>6. QED
    BY <1>6, <2>5, ReadKeeps
<1>8. CASE em.idx # Len(table)
  <2>1. j \in 1..Len(table) /\ j # 1 /\ j - 1 = em.idx /\ table[j] \in Pieces
    BY <1>3, <1>4, <1>8, Element
  <2>2. table[j].offset = Len(out)
    BY <1>3, <1>5, <2>1 DEF Chain
  <2>3. table[j].size \in Nat /\ AlignDown(table[j].offset) \in Int
        /\ PieceEnd(table[j]) = table[j].offset + table[j].size
    BY <1>3, <2>1, PieceTypes, KeyType, SMTT(30)
  <2>4. em' = [idx |-> j, left |-> table[j].size, pos |-> AlignDown(table[j].offset)]
    BY <1>2, <1>3, <2>1 DEF At
  <2> HIDE DEF j
  <2>5. em' \in [idx : 1..(Len(table) + 1), left : Nat, pos : Int] /\ ~(em'.idx > Len(table))
    BY <1>3, <2>1, <2>3, <2>4
  <2>6. /\ em'.left <= table[em'.idx].size
        /\ Len(out) = PieceEnd(table[em'.idx]) - em'.left
        /\ em'.pos = AlignDown(table[em'.idx].offset) + table[em'.idx].size - em'.left
    BY <1>3, <2>2, <2>3, <2>4
  <2>7. EmitterOK'
    BY <1>1, <1>2, <2>5, <2>6 DEF EmitterOK, PieceEnd, AlignDown
  <2>8. QED
    BY <1>6, <2>7, ReadKeeps
<1>9. QED
  BY <1>7, <1>8

\* A byte of the piece gets its key back.
LEMMA Reencrypted ==
  ASSUME NEW p \in Pieces, NEW x \in Int, NEW place,
         place = AlignDown(p.offset) + (x - p.offset)
  PROVE  Xor(KeyAt(p, x), IF p.nonce = NoNonce THEN {} ELSE {<<p.nonce, place>>}) = {}
  BY DEF Xor, KeyAt

\* Place i of what is left of a piece at offset o.
LEMMA WithinPiece ==
  ASSUME NEW l \in Nat, NEW o \in Nat, NEW s \in Nat, NEW left \in Nat, NEW i \in 1..left,
         left <= s, l = o + (s - left)
  PROVE  /\ l + i - 1 \in Nat /\ o <= l + i - 1 /\ l + i - 1 < o + s
         /\ (l + i - 1) - o = (s - left) + (i - 1)
  OBVIOUS

LEMMA EmitSliceKeeps ==
  ASSUME CodecInv, EmitSlice
  PROVE  CodecInv'
<1>1. /\ ChunkOK /\ EmitterOK /\ UNCHANGED <<body, stream, file, table>>
      /\ Prepare(body)' = Prepare(body)
      /\ phase = "decompress"
  BY ReadFrame
<1> DEFINE p == table[em.idx]
           take == Least(Len(chunk), em.left)
           Key(i) == IF p.nonce = NoNonce THEN {} ELSE {<<p.nonce, em.pos + i - 1>>}
           new == [i \in 1..take |-> [chunk[i] EXCEPT !.ks = Xor(@, Key(i))]]
<1>2. /\ em.idx <= Len(table) /\ chunk # << >> /\ em.left # 0
      /\ out' = out \o new /\ chunk' = SubSeq(chunk, take + 1, Len(chunk))
      /\ em' = [em EXCEPT !.left = @ - take, !.pos = @ + take] /\ taken' = taken
  BY DEF EmitSlice
<1>3. /\ table \in Seq(Pieces) /\ Chain(table, HeaderSize) /\ Len(table) \in Nat
      /\ DOMAIN table = 1..Len(table) /\ HeaderSize \in Nat
      /\ chunk \in Seq(Cells) /\ Len(chunk) \in Nat /\ Len(out) \in Nat
  BY <1>1, TableTypes
<1>4. /\ em.idx \in 1..Len(table) /\ em.left \in Nat /\ em.pos \in Int
      /\ em.left <= p.size /\ Len(out) = PieceEnd(p) - em.left
      /\ em.pos = AlignDown(p.offset) + p.size - em.left
  <2>1. em.idx \in 1..Len(table) /\ em.left \in Nat /\ em.pos \in Int
    BY <1>1, <1>2, <1>3 DEF EmitterOK
  <2>2. QED
    BY <1>1, <1>2, <1>3, <2>1 DEF EmitterOK
<1>5. /\ p \in Pieces /\ p.offset \in Nat /\ p.size \in Nat
      /\ PieceEnd(p) = p.offset + p.size /\ AlignDown(p.offset) \in Int
  BY <1>3, <1>4, PieceTypes, Element, KeyType
<1>6. take \in Nat /\ take <= Len(chunk) /\ take <= em.left
  BY <1>3, <1>4 DEF Least
<1>t. /\ Len(out) = p.offset + (p.size - em.left)
      /\ em.pos = AlignDown(p.offset) + (p.size - em.left)
  BY <1>3, <1>4, <1>5, SMTT(30)
<1>key. table[em.idx] = p
  OBVIOUS
<1> HIDE DEF take, p
<1>7. ASSUME NEW i \in 1..take
      PROVE  new[i] = Original(Len(out) + i - 1) /\ new[i] \in Cells
  <2> DEFINE k == Len(out) - HeaderSize + i
             x == Len(out) + i - 1
  <2>1. i \in 1..Len(chunk)
    BY <1>3, <1>6
  <2>2. k \in Nat \ {0} /\ HeaderSize + k - 1 = x /\ chunk[i] = CellOf(table, k)
    BY <1>1, <2>1, ChunkCell
  <2>w. /\ x \in Nat /\ p.offset <= x /\ x < p.offset + p.size
        /\ x - p.offset = (p.size - em.left) + (i - 1)
    <3>1. i \in 1..em.left
      BY <1>4, <1>6
    <3>2. QED
      <4>1. /\ Len(out) \in Nat /\ p.offset \in Nat /\ p.size \in Nat /\ em.left \in Nat
            /\ em.left <= p.size /\ Len(out) = p.offset + (p.size - em.left)
        BY <1>3, <1>4, <1>5, <1>t
      <4>2. QED
        BY <3>1, <4>1, WithinPiece, SMTT(30)
  <2>3. x \in Nat /\ p.offset <= x /\ x < p.offset + p.size
    BY <2>w
  <2>4. em.idx \in OwnerIn(table, HeaderSize + k - 1)
    BY <1>3, <1>4, <1>key, <2>2, <2>3 DEF OwnerIn
  <2>5. em.pos + i - 1 = AlignDown(p.offset) + (x - p.offset)
    <3>1. x - p.offset = (p.size - em.left) + (i - 1)
      BY <2>w
    <3>2. em.pos + i - 1 = AlignDown(p.offset) + ((p.size - em.left) + (i - 1))
      BY <1>4, <1>5, <1>6, <1>t
    <3>3. QED
      BY <3>1, <3>2
  <2> HIDE DEF k, x
  <2>6. CellOf(table, k) = [at |-> x, ks |-> KeyAt(p, x)]
    <3>1. k \in Int
      BY <2>2
    <3>2. CellOf(table, k) = [at |-> HeaderSize + k - 1, ks |-> KeyAt(table[em.idx], HeaderSize + k - 1)]
      BY <1>3, <2>4, <3>1, CellOwned
    <3>3. QED
      BY <1>key, <2>2, <3>2
  <2>7. Xor(KeyAt(p, x), Key(i)) = {}
    <3>1. p \in Pieces /\ x \in Int
      BY <1>5, <2>3
    <3>2. QED
      BY <2>5, <3>1, Reencrypted, Zenon
  <2>8. new[i] = [[at |-> x, ks |-> KeyAt(p, x)] EXCEPT !.ks = Xor(@, Key(i))]
    BY <2>2, <2>6
  <2>9. new[i] = [at |-> x, ks |-> {}]
    BY <2>7, <2>8
  <2>10. QED
    BY <2>3, <2>9 DEF Original, Cells, x
<1>8. new \in [1..take -> Cells]
  BY <1>7
<1>9. take \in 0..Len(chunk)
  BY <1>3, <1>6
<1> HIDE DEF new
<1>10. /\ ChunkOK' /\ out' \in Seq(Cells) /\ Len(out') = Len(out) + take
       /\ Len(out') + Len(chunk') = HeaderSize + taken'
       /\ \A i \in 1..Len(out') : out'[i] = Original(i - 1)
  BY <1>1, <1>2, <1>7, <1>8, <1>9, Written
<1>11. EmitterOK'
  <2>1. em'.idx = em.idx /\ em'.left = em.left - take /\ em'.pos = em.pos + take
        /\ em' \in [idx : 1..(Len(table) + 1), left : Nat, pos : Int]
    <3>1. em \in [idx : 1..(Len(table) + 1), left : Nat, pos : Int]
      BY <1>1 DEF EmitterOK
    <3>2. em.left - take \in Nat /\ em.pos + take \in Int
      BY <1>4, <1>6
    <3>3. QED
      BY <1>2, <3>1, <3>2
  <2>2. em.left - take <= p.size
    BY <1>4, <1>5, <1>6
  <2>3. Len(out) + take = PieceEnd(p) - (em.left - take)
    BY <1>3, <1>4, <1>5, <1>6, SMTT(30)
  <2>4. em.pos + take = AlignDown(p.offset) + p.size - (em.left - take)
    BY <1>4, <1>5, <1>6
  <2>5. ~(em'.idx > Len(table))
    BY <1>3, <1>4, <2>1
  <2>6. /\ em'.left <= table[em'.idx].size
        /\ Len(out') = PieceEnd(table[em'.idx]) - em'.left
        /\ em'.pos = AlignDown(table[em'.idx].offset) + table[em'.idx].size - em'.left
    BY <1>10, <2>1, <2>2, <2>3, <2>4 DEF p
  <2>7. QED
    BY <1>1, <1>10, <2>1, <2>5, <2>6 DEF EmitterOK, PieceEnd, AlignDown
<1>12. QED
  BY <1>10, <1>11, ReadKeeps

LEMMA FinishDecompressKeeps ==
  ASSUME CodecInv, FinishDecompress
  PROVE  CodecInv'
<1>1. PartitionInv'
  <2>1. Next
    BY DEF Next, Decompress
  <2>2. QED
    BY <2>1, NextInv DEF CodecInv
<1>2. /\ phase = "decompress" /\ phase' = "done" /\ chunk = << >> /\ taken = Len(stream)
      /\ UNCHANGED <<nca, body, stream, cur, file, table, em, taken, chunk, out>>
      /\ (Own <=> Own')
  BY DEF FinishDecompress, partVars, readVars, Own
<1>3. StreamOK' /\ ChunkOK' /\ EmitterOK'
  <2>1. StreamOK /\ ChunkOK /\ EmitterOK
    BY <1>2 DEF CodecInv
  <2>2. StreamOK' /\ ChunkOK'
    BY <1>2, <2>1 DEF StreamOK, ChunkOK, CellOf, OwnerIn, KeyAt
  <2>3. EmitterOK'
    BY <1>2, <2>1 DEF EmitterOK, Prepare, Gap, Piece, CoverEnd, PieceEnd
  <2>4. QED
    BY <2>2, <2>3
<1>4. QED
  BY <1>1, <1>2, <1>3 DEF CodecInv

LEMMA CodecNext ==
  ASSUME CodecInv, [Next]_vars
  PROVE  CodecInv'
<1>1. CASE UNCHANGED vars
  <2>1. UNCHANGED vars => PartitionInv'
    BY <1>1, NextInv DEF CodecInv
  <2>2. UNCHANGED <<phase, nca, body, cur, stream, file, table, em, taken, chunk, out>>
    BY <1>1 DEF vars
  <2>3. (StreamOK <=> StreamOK') /\ (ChunkOK <=> ChunkOK') /\ (Own <=> Own')
    BY <2>2 DEF StreamOK, ChunkOK, CellOf, OwnerIn, KeyAt, Own
  <2>4. (CurOK <=> CurOK') /\ (EmitterOK <=> EmitterOK')
    BY <2>2 DEF CurOK, EmitterOK, Prepare, Gap, Piece, CoverEnd, PieceEnd
  <2>5. QED
    BY <1>1, <2>1, <2>2, <2>3, <2>4 DEF CodecInv
<1>2. CASE Partition
  BY <1>2, PartitionKeeps
<1>3. CASE Compress
  BY <1>3, CompressChunkKeeps, NextPieceKeeps, FinishCompressKeeps DEF Compress
<1>4. CASE Decompress
  BY <1>4, OpenNczKeeps, DecodeSolidKeeps, DecodeBlockKeeps, EmitExcessKeeps, EmitNextKeeps,
    EmitSliceKeeps, FinishDecompressKeeps DEF Decompress
<1>5. QED
  BY <1>1, <1>2, <1>3, <1>4 DEF Next

\* The strengthened invariant of the round trip is inductive, for any NCA, any
\* foreign table and any size of chunks and blocks.
THEOREM CodecInvariance == Spec => []CodecInv
<1>1. CodecInv /\ [Next]_vars => CodecInv'
  BY CodecNext
<1>2. QED
  BY <1>1, CodecInit, PTL DEF Spec

\* What is rebuilt is the NCA, all of it when the file is whole.
THEOREM Ncz_Rebuilt == Spec => []Rebuilt
<1>1. CodecInv => Rebuilt
  <2> SUFFICES ASSUME CodecInv PROVE Rebuilt
    OBVIOUS
  <2>1. HeaderSize \in Nat /\ nca.size \in Nat /\ Len(stream) \in Nat /\ HeaderSize <= nca.size
    BY BodyTypes
  <2>2. CASE phase \notin {"decompress", "done"}
    <3>1. out = << >>
      BY <2>2 DEF CodecInv
    <3>2. QED
      BY <2>1, <2>2, <3>1 DEF Rebuilt
  <2>3. CASE phase \in {"decompress", "done"}
    <3>1. /\ out \in Seq(Cells) /\ Len(out) \in Nat /\ Len(chunk) \in Nat /\ taken \in Nat
      BY <2>3, TableTypes
    <3>2. /\ Len(out) + Len(chunk) = HeaderSize + taken /\ taken <= Len(stream)
          /\ \A i \in 1..Len(out) : out[i] = Original(i - 1)
      <4>1. EmitterOK /\ ChunkOK
        BY <2>3 DEF CodecInv
      <4>2. QED
        BY <2>1, <4>1 DEF EmitterOK, ChunkOK
    <3>3. HeaderSize + Len(stream) <= nca.size /\ file.size = nca.size - HeaderSize
      BY <2>3 DEF CodecInv, StreamOK
    <3>4. Len(out) <= nca.size
      BY <2>1, <3>1, <3>2, <3>3
    <3>5. phase = "done" => chunk = << >> /\ taken = Len(stream)
      BY DEF CodecInv
    <3>6. phase = "done" /\ Len(stream) = file.size => Len(out) = nca.size
      BY <2>1, <3>1, <3>2, <3>3, <3>5
    <3>7. QED
      BY <3>1, <3>2, <3>4, <3>6 DEF Rebuilt
  <2>4. QED
    BY <2>2, <2>3
<1>2. QED
  BY <1>1, CodecInvariance, PTL

-----------------------------------------------------------------------------
\* The key stream of the NCA.
LEMMA OnBlockSum ==
  ASSUME NEW a \in Nat, NEW b \in Nat, OnBlock(a), OnBlock(b)
  PROVE  OnBlock(a + b)
<1>1. CtrBlock \in Nat \ {0}
  BY NczAssumption DEF NczAssumption
<1>2. PICK q \in Int : a = q * CtrBlock
  <2>1. a \div CtrBlock \in Int /\ a = (a \div CtrBlock) * CtrBlock + (a % CtrBlock)
    BY <1>1, Division
  <2>2. (a % CtrBlock) = 0
    BY DEF OnBlock
  <2>3. (a \div CtrBlock) * CtrBlock \in Int
    BY <1>1, <2>1
  <2>4. a = (a \div CtrBlock) * CtrBlock
    BY <2>1, <2>2, <2>3
  <2>5. QED
    BY <2>1, <2>4
<1>3. PICK r \in Int : b = r * CtrBlock
  <2>1. b \div CtrBlock \in Int /\ b = (b \div CtrBlock) * CtrBlock + (b % CtrBlock)
    BY <1>1, Division
  <2>2. (b % CtrBlock) = 0
    BY DEF OnBlock
  <2>3. (b \div CtrBlock) * CtrBlock \in Int
    BY <1>1, <2>1
  <2>4. b = (b \div CtrBlock) * CtrBlock
    BY <2>1, <2>2, <2>3
  <2>5. QED
    BY <2>1, <2>4
<1>4. PICK m \in Int : a + b = m * CtrBlock + 0
  <2>1. a + b = (q + r) * CtrBlock + 0 /\ q + r \in Int
    BY <1>1, <1>2, <1>3
  <2>2. QED
    BY <2>1
<1>5. a + b \in Int /\ 0 \in Int /\ 0 <= 0 /\ 0 < CtrBlock
  BY <1>1
<1>6. ((a + b) % CtrBlock) = 0
  BY <1>1, <1>4, <1>5, DivisionUnique, ZenonT(30)
<1>7. QED
  BY <1>6 DEF OnBlock

\* A piece that starts on a cipher block, or is plain or empty, is under the key
\* stream of the NCA if that has its nonce everywhere.
LEMMA PieceInKey ==
  ASSUME NEW n, NEW from \in Nat, NEW to \in Nat, NEW nonce,
         nonce = NoNonce \/ OnBlock(from) \/ to <= from,
         \A x \in from..(to - 1) : NonceAt(n, x) = nonce
  PROVE  InKey(n, <<Piece(from, to, nonce)>>)
<1> DEFINE p == Piece(from, to, nonce)
<1>1. p.offset = from /\ p.nonce = nonce /\ PieceEnd(p) = to
  BY DEF Piece, PieceEnd
<1> HIDE DEF p
<1>2. DOMAIN <<p>> = {1} /\ <<p>>[1] = p
  OBVIOUS
<1>3. SUFFICES ASSUME NEW x \in from..(to - 1) PROVE KeyAt(p, x) = NcaKey(n, x)
  BY <1>1, <1>2 DEF InKey, p
<1>4. NonceAt(n, x) = nonce
  OBVIOUS
<1>5. CASE nonce = NoNonce
  BY <1>1, <1>4, <1>5 DEF KeyAt, NcaKey
<1>6. CASE nonce # NoNonce
  <2>1. AlignDown(from) = from
    BY <1>6, Aligned
  <2>2. AlignDown(from) + (x - from) = x
    BY <2>1
  <2>3. QED
    BY <1>1, <1>4, <1>6, <2>2 DEF KeyAt, NcaKey
<1>7. QED
  BY <1>5, <1>6

LEMMA InKeyConcat ==
  ASSUME NEW n, NEW t \in Seq(Pieces), NEW u \in Seq(Pieces), InKey(n, t), InKey(n, u)
  PROVE  InKey(n, t \o u)
<1> DEFINE tu == t \o u
<1>1. /\ Len(t) \in Nat /\ Len(u) \in Nat /\ Len(tu) = Len(t) + Len(u) /\ DOMAIN tu = 1..Len(tu)
      /\ \A i \in 1..Len(t) : tu[i] = t[i]
      /\ \A i \in 1..Len(u) : tu[Len(t) + i] = u[i]
  OBVIOUS
<1> HIDE DEF tu
<1>2. SUFFICES ASSUME NEW i \in 1..Len(tu)
               PROVE  \A x \in tu[i].offset..(PieceEnd(tu[i]) - 1) :
                        KeyAt(tu[i], x) = NcaKey(n, x)
  BY <1>1 DEF InKey, tu
<1>3. CASE i <= Len(t)
  <2>1. i \in 1..Len(t) /\ i \in DOMAIN t
    BY <1>1, <1>3
  <2>2. tu[i] = t[i]
    BY <1>1, <2>1
  <2>3. QED
    BY <2>1, <2>2 DEF InKey
<1>4. CASE i > Len(t)
  <2>1. PICK j \in 1..Len(u) : i = Len(t) + j
    <3>1. i - Len(t) \in 1..Len(u) /\ i = Len(t) + (i - Len(t))
      BY <1>1, <1>4
    <3>2. QED
      BY <3>1
  <2>2. j \in DOMAIN u /\ tu[i] = u[j]
    BY <1>1, <2>1
  <2>3. QED
    BY <2>2 DEF InKey
<1>5. QED
  BY <1>1, <1>3, <1>4

LEMMA NoPieceInKey ==
  ASSUME NEW n PROVE InKey(n, << >>)
  BY DEF InKey

\* Where no section is, the NCA is plain.
LEMMA GapInKey ==
  ASSUME NEW n, NEW from \in Nat, NEW to \in Nat,
         \A x \in from..(to - 1) : SectionsAt(n, x) = {}
  PROVE  InKey(n, Gap(from, to))
<1>1. \A x \in from..(to - 1) : NonceAt(n, x) = NoNonce
  BY DEF NonceAt
<1>2. CASE to > from
  BY <1>1, <1>2, PieceInKey DEF Gap
<1>3. CASE ~(to > from)
  BY <1>3, NoPieceInKey DEF Gap
<1>4. QED
  BY <1>2, <1>3

\* The first section at a byte counts.
LEMMA FirstSection ==
  ASSUME NEW n, WellFormed(n), NEW x, NEW s \in SectionsAt(n, x), s.offset \in Int,
         \A t \in SectionsAt(n, x) : t.offset \in Int /\ s.offset <= t.offset
  PROVE  NonceAt(n, x) = NonceIn(s, x)
<1> DEFINE c == FirstAt(n, x)
<1>1. c \in SectionsAt(n, x) /\ \A t \in SectionsAt(n, x) : c.offset <= t.offset
  BY DEF FirstAt
<1> HIDE DEF c
<1>2. c.offset = s.offset /\ c \in n.sections /\ s \in n.sections
  BY <1>1 DEF SectionsAt
<1>3. c = s
  BY <1>2 DEF WellFormed
<1>4. QED
  BY <1>3 DEF NonceAt, c

\* Entries that follow each other: the next one starts no earlier than the one
\* before it ends, and none ends after its bucket.
LEMMA EntriesOrdered ==
  ASSUME NEW t \in Seq(Buckets), Contiguous(t), NEW b \in 1..Len(t),
         NEW e \in 1..Len(t[b].entries), NEW f \in 1..Len(t[b].entries), e < f
  PROVE  EntryEnd(t[b], e) <= t[b].entries[f].at
<1> DEFINE E == t[b].entries
           T == {k \in Nat : e < k /\ k <= Len(E) /\ ~(EntryEnd(t[b], e) <= E[k].at)}
<1>0. Len(E) \in Nat
  <2>1. t[b] \in Buckets
    OBVIOUS
  <2>2. QED
    BY <2>1 DEF Buckets
<1>1. SUFFICES ASSUME T # {} PROVE FALSE
  BY <1>0
<1>2. PICK k \in T : \A m \in T : k <= m
  BY <1>1, LeastMember
<1>3. k \in 1..Len(E) /\ k - 1 \in 1..Len(E) /\ k # 1 /\ e < k /\ k - 1 < Len(E)
      /\ (k - 1) + 1 = k
  BY <1>0, <1>2
<1>4. /\ EntryEnd(t[b], e) \in Nat /\ E[k].at \in Nat /\ E[k - 1].at \in Nat
      /\ EntryEnd(t[b], k - 1) \in Nat /\ E[k - 1].at <= EntryEnd(t[b], k - 1)
  <2>1. EntryEnd(t[b], e) \in Nat
    BY EntryFacts
  <2>2. E[k].at \in Nat
    BY <1>3, EntryFacts
  <2>3. PICK l \in 1..Len(E) : l = k - 1
    BY <1>3
  <2>4. E[l].at \in Nat /\ EntryEnd(t[b], l) \in Nat /\ E[l].at <= EntryEnd(t[b], l)
    BY <2>3, EntryFacts
  <2>5. QED
    BY <2>1, <2>2, <2>3, <2>4
<1>5. EntryEnd(t[b], k - 1) = E[k].at
  BY <1>3 DEF EntryEnd
<1> HIDE DEF E
<1>6. CASE k - 1 = e
  BY <1>2, <1>4, <1>5, <1>6
<1>7. CASE k - 1 # e
  <2>0. k \in Nat /\ ~(k <= k - 1)
    BY <1>2
  <2>a. k - 1 \notin T
    <3> HIDE DEF T
    <3>1. QED
      BY <1>2, <2>0
  <2>b. k - 1 \in Nat /\ e < k - 1 /\ k - 1 <= Len(E)
    BY <1>0, <1>3, <1>7, <2>0
  <2>1. k - 1 \notin T /\ k - 1 \in Nat /\ e < k - 1 /\ k - 1 <= Len(E)
    BY <2>a, <2>b
  <2>2. EntryEnd(t[b], e) <= E[k - 1].at
    BY <2>1
  <2>3. QED
    BY <1>2, <1>4, <1>5, <2>2
<1>8. QED
  BY <1>6, <1>7

\* Where bucket b starts.
First(t, b) == IF b = 1 THEN 0 ELSE t[b - 1].end

LEMMA EntryInBucket ==
  ASSUME NEW t \in Seq(Buckets), Contiguous(t), NEW b \in 1..Len(t),
         NEW e \in 1..Len(t[b].entries)
  PROVE  /\ First(t, b) <= t[b].entries[e].at /\ First(t, b) \in Nat
         /\ EntryEnd(t[b], e) <= t[b].end
<1> DEFINE E == t[b].entries
<1>0. Len(E) \in Nat /\ t[b].end \in Nat
  <2>1. t[b] \in Buckets
    OBVIOUS
  <2>2. QED
    BY <2>1 DEF Buckets
<1>1. 1 \in 1..Len(E) /\ Len(E) \in 1..Len(E) /\ e \in 1..Len(E)
  BY <1>0
<1>2. E[1].at = First(t, b)
  BY <1>1 DEF Contiguous, First
<1>3. /\ E[1].at \in Nat /\ EntryEnd(t[b], 1) \in Nat /\ E[1].at <= EntryEnd(t[b], 1)
      /\ E[e].at \in Nat /\ EntryEnd(t[b], e) \in Nat
      /\ E[Len(E)].at \in Nat /\ E[Len(E)].at <= EntryEnd(t[b], Len(E))
  BY <1>1, EntryFacts
<1>4. EntryEnd(t[b], Len(E)) = t[b].end
  BY <1>0 DEF EntryEnd
<1>5. First(t, b) <= E[e].at
  <2>1. 1 < e => EntryEnd(t[b], 1) <= E[e].at
    BY <1>1, EntriesOrdered
  <2>2. e = 1 \/ 1 < e
    BY <1>0
  <2> HIDE DEF E
  <2>3. QED
    BY <1>2, <1>3, <2>1, <2>2
<1>6. EntryEnd(t[b], e) <= t[b].end
  <2>1. e < Len(E) => EntryEnd(t[b], e) <= E[Len(E)].at
    BY <1>1, EntriesOrdered
  <2>2. e = Len(E) \/ e < Len(E)
    BY <1>0
  <2> HIDE DEF E
  <2>3. QED
    BY <1>0, <1>3, <1>4, <2>1, <2>2
<1>7. QED
  BY <1>2, <1>3, <1>5, <1>6

\* A bucket ends no earlier than the ones before it.
LEMMA BucketStep ==
  ASSUME NEW t \in Seq(Buckets), Contiguous(t), NEW b \in 1..Len(t)
  PROVE  First(t, b) <= t[b].end /\ t[b].end \in Nat
<1> DEFINE E == t[b].entries
<1>0. Len(E) \in Nat /\ t[b].end \in Nat /\ (E = << >> \/ 1 \in 1..Len(E))
  <2>1. t[b] \in Buckets
    OBVIOUS
  <2>2. QED
    BY <2>1 DEF Buckets
<1>1. CASE E = << >>
  <2>1. t[b].end = First(t, b)
    BY <1>1 DEF Contiguous, First
  <2>2. QED
    BY <1>0, <2>1
<1>2. CASE 1 \in 1..Len(E)
  <2>1. /\ First(t, b) <= E[1].at /\ First(t, b) \in Nat /\ EntryEnd(t[b], 1) <= t[b].end
        /\ E[1].at \in Nat /\ EntryEnd(t[b], 1) \in Nat /\ E[1].at <= EntryEnd(t[b], 1)
    BY <1>2, EntryInBucket, EntryFacts
  <2>2. QED
    BY <1>0, <2>1
<1>3. QED
  BY <1>0, <1>1, <1>2

LEMMA BucketsOrdered ==
  ASSUME NEW t \in Seq(Buckets), Contiguous(t), NEW a \in 1..Len(t), NEW b \in 1..Len(t),
         a <= b
  PROVE  t[a].end <= t[b].end
<1> DEFINE T == {k \in Nat : a <= k /\ k <= Len(t) /\ ~(t[a].end <= t[k].end)}
<1>1. SUFFICES ASSUME T # {} PROVE FALSE
  OBVIOUS
<1>2. PICK k \in T : \A m \in T : k <= m
  BY <1>1, LeastMember
<1>3. k \in 1..Len(t) /\ t[a].end \in Nat /\ t[k].end \in Nat /\ First(t, k) <= t[k].end
  <2>1. k \in 1..Len(t)
    BY <1>2
  <2>2. QED
    BY <2>1, BucketStep
<1>4. k # a
  BY <1>2, <1>3
<1>5. k - 1 \in 1..Len(t) /\ k # 1 /\ a <= k - 1 /\ k - 1 \in Nat /\ k - 1 \notin T
  BY <1>2, <1>3, <1>4
<1>6. t[a].end <= t[k - 1].end
  BY <1>5
<1>7. PICK l \in 1..Len(t) : l = k - 1
  BY <1>5
<1>8. t[l].end \in Nat /\ First(t, k) = t[l].end /\ t[a].end <= t[l].end
  BY <1>5, <1>6, <1>7, BucketStep DEF First
<1>9. QED
  BY <1>2, <1>3, <1>8

LEMMA EntryMember ==
  ASSUME NEW s, s.table \in Seq(Buckets), NEW x
  PROVE  \A q : q \in EntryAt(s, x) <=>
           \E c \in 1..Len(s.table) : \E f \in 1..Len(s.table[c].entries) :
             /\ q = <<c, f>>
             /\ s.offset + s.table[c].entries[f].at <= x
             /\ x < s.offset + EntryEnd(s.table[c], f)
<1>1. DOMAIN s.table = 1..Len(s.table)
  OBVIOUS
<1>2. ASSUME NEW c \in 1..Len(s.table)
      PROVE  DOMAIN s.table[c].entries = 1..Len(s.table[c].entries)
  <2>1. s.table[c] \in Buckets
    BY Element
  <2>2. s.table[c].entries \in Seq([at : Nat, ctr : Nat])
    BY <2>1 DEF Buckets
  <2>3. QED
    BY <2>2
<1> DEFINE In(c) == {k \in DOMAIN s.table[c].entries :
                       /\ s.offset + s.table[c].entries[k].at <= x
                       /\ x < s.offset + EntryEnd(s.table[c], k)}
           Of(c) == {<<c, f>> : f \in In(c)}
<1>3. \A q : q \in EntryAt(s, x) <=> \E c \in DOMAIN s.table : q \in Of(c)
  <2>1. EntryAt(s, x) = UNION {Of(c) : c \in DOMAIN s.table}
    BY Zenon DEF EntryAt
  <2> HIDE DEF Of
  <2>2. QED
    BY <2>1
<1>4. \A c, q : q \in Of(c) <=> \E f \in In(c) : q = <<c, f>>
  OBVIOUS
<1>5. ASSUME NEW c \in 1..Len(s.table)
      PROVE  \A f : f \in In(c) <=> /\ f \in 1..Len(s.table[c].entries)
                                  /\ s.offset + s.table[c].entries[f].at <= x
                                  /\ x < s.offset + EntryEnd(s.table[c], f)
  BY <1>2
<1> HIDE DEF In, Of
<1>6. SUFFICES ASSUME NEW q
               PROVE  q \in EntryAt(s, x) <=>
                        \E c \in 1..Len(s.table) : \E f \in 1..Len(s.table[c].entries) :
                          /\ q = <<c, f>>
                          /\ s.offset + s.table[c].entries[f].at <= x
                          /\ x < s.offset + EntryEnd(s.table[c], f)
  OBVIOUS
<1>7. ASSUME NEW c \in 1..Len(s.table)
      PROVE  q \in Of(c) <=> \E f \in 1..Len(s.table[c].entries) :
                               /\ q = <<c, f>>
                               /\ s.offset + s.table[c].entries[f].at <= x
                               /\ x < s.offset + EntryEnd(s.table[c], f)
  BY <1>4, <1>5, Zenon
<1>8. QED
  BY <1>1, <1>3, <1>7, Zenon

LEMMA Between ==
  ASSUME NEW a \in Nat, NEW b \in Nat, NEW c \in Nat, a <= b, b <= c
  PROVE  a <= c
  OBVIOUS

LEMMA Apart ==
  ASSUME NEW o \in Nat, NEW x \in Int, NEW a \in Nat, NEW b \in Nat, a <= b,
         x < o + a, o + b <= x
  PROVE  FALSE
  OBVIOUS

\* So a byte lies in one entry at most, and past the last bucket in none.
LEMMA OneEntry ==
  ASSUME NEW s, s.offset \in Nat, s.table \in Seq(Buckets), Contiguous(s.table),
         NEW x \in Int, NEW b \in 1..Len(s.table), NEW e \in 1..Len(s.table[b].entries),
         s.offset + s.table[b].entries[e].at <= x,
         x < s.offset + EntryEnd(s.table[b], e)
  PROVE  EntryAt(s, x) = {<<b, e>>}
<1> DEFINE t == s.table
<1>2. <<b, e>> \in EntryAt(s, x)
  BY EntryMember
<1>3. ASSUME NEW c \in 1..Len(t), NEW f \in 1..Len(t[c].entries),
             s.offset + t[c].entries[f].at <= x, x < s.offset + EntryEnd(t[c], f)
      PROVE  c = b /\ f = e
  <2>1. /\ t[b].entries[e].at \in Nat /\ EntryEnd(t[b], e) \in Nat
        /\ t[c].entries[f].at \in Nat /\ EntryEnd(t[c], f) \in Nat
    BY EntryFacts
  <2>2. /\ First(t, b) <= t[b].entries[e].at /\ First(t, b) \in Nat
        /\ First(t, c) <= t[c].entries[f].at /\ First(t, c) \in Nat
        /\ EntryEnd(t[b], e) <= t[b].end /\ EntryEnd(t[c], f) <= t[c].end
        /\ t[b].end \in Nat /\ t[c].end \in Nat
    BY EntryInBucket, BucketStep
  <2>3. ~(b < c)
    <3> SUFFICES ASSUME b < c PROVE FALSE
      OBVIOUS
    <3>1. PICK p \in 1..Len(t) : p = c - 1 /\ b <= p /\ c # 1
      OBVIOUS
    <3>2. t[b].end <= First(t, c)
      <4>1. t[b].end <= t[p].end
        BY <3>1, BucketsOrdered
      <4>2. First(t, c) = t[p].end
        BY <3>1 DEF First
      <4>3. QED
        BY <4>1, <4>2
    <3>3. EntryEnd(t[b], e) <= First(t, c)
      <4>1. t[b].end \in Nat /\ t[b].end <= First(t, c) /\ EntryEnd(t[b], e) <= t[b].end
            /\ EntryEnd(t[b], e) \in Nat /\ First(t, c) \in Nat
        BY <2>1, <2>2, <3>2
      <4>2. QED
        BY <4>1, Between
    <3>5. EntryEnd(t[b], e) <= t[c].entries[f].at
      <4>1. First(t, c) <= t[c].entries[f].at /\ First(t, c) \in Nat
            /\ EntryEnd(t[b], e) \in Nat /\ t[c].entries[f].at \in Nat
        BY <2>1, <2>2
      <4>2. QED
        BY <3>3, <4>1, Between
    <3>4. QED
      BY <1>3, <2>1, <3>5, Apart
  <2>4. ~(c < b)
    <3> SUFFICES ASSUME c < b PROVE FALSE
      OBVIOUS
    <3>1. PICK p \in 1..Len(t) : p = b - 1
      OBVIOUS
    <3>2. t[c].end <= First(t, b)
      BY <3>1, BucketsOrdered, SMTT(30) DEF First
    <3>3. EntryEnd(t[c], f) <= First(t, b)
      <4>1. t[c].end \in Nat /\ t[c].end <= First(t, b) /\ EntryEnd(t[c], f) <= t[c].end
            /\ EntryEnd(t[c], f) \in Nat /\ First(t, b) \in Nat
        BY <2>1, <2>2, <3>2
      <4>2. QED
        BY <4>1, Between
    <3>5. EntryEnd(t[c], f) <= t[b].entries[e].at
      <4>1. First(t, b) <= t[b].entries[e].at /\ First(t, b) \in Nat
            /\ EntryEnd(t[c], f) \in Nat /\ t[b].entries[e].at \in Nat
        BY <2>1, <2>2
      <4>2. QED
        BY <3>3, <4>1, Between
    <3>4. QED
      BY <1>3, <2>1, <3>5, Apart
  <2>5. c = b
    BY <2>3, <2>4
  <2>6. ~(e < f)
    <3> SUFFICES ASSUME e < f PROVE FALSE
      OBVIOUS
    <3>1. EntryEnd(t[b], e) <= t[b].entries[f].at
      BY <2>5, EntriesOrdered
    <3>2. QED
      BY <1>3, <2>1, <2>5, <3>1, Apart
  <2>7. ~(f < e)
    <3> SUFFICES ASSUME f < e PROVE FALSE
      OBVIOUS
    <3>1. EntryEnd(t[b], f) <= t[b].entries[e].at
      BY <2>5, EntriesOrdered
    <3>2. QED
      BY <1>3, <2>1, <2>5, <3>1, Apart
  <2>8. e \in Int /\ f \in Int
    OBVIOUS
  <2>9. QED
    BY <2>5, <2>6, <2>7, <2>8
<1>4. ASSUME NEW q \in EntryAt(s, x) PROVE q = <<b, e>>
  <2>1. PICK c \in 1..Len(t) : \E f \in 1..Len(t[c].entries) :
          /\ q = <<c, f>> /\ s.offset + t[c].entries[f].at <= x
          /\ x < s.offset + EntryEnd(t[c], f)
    BY EntryMember
  <2>2. PICK f \in 1..Len(t[c].entries) :
          /\ q = <<c, f>> /\ s.offset + t[c].entries[f].at <= x
          /\ x < s.offset + EntryEnd(t[c], f)
    BY <2>1
  <2>3. c = b /\ f = e
    BY <1>3, <2>2
  <2>4. QED
    BY <2>2, <2>3
<1>5. QED
  BY <1>2, <1>4

LEMMA NoEntry ==
  ASSUME NEW s, s.offset \in Nat, s.table \in Seq(Buckets), Contiguous(s.table),
         NEW x \in Int, s.table # << >>, s.offset + s.table[Len(s.table)].end <= x
  PROVE  EntryAt(s, x) = {}
<1> DEFINE t == s.table
<1>2. ASSUME NEW c \in 1..Len(t), NEW f \in 1..Len(t[c].entries), x < s.offset + EntryEnd(t[c], f)
      PROVE  FALSE
  <2>1. Len(t) \in 1..Len(t) /\ c <= Len(t)
    OBVIOUS
  <2>2. /\ EntryEnd(t[c], f) \in Nat /\ EntryEnd(t[c], f) <= t[c].end
        /\ t[c].end \in Nat /\ t[Len(t)].end \in Nat /\ t[c].end <= t[Len(t)].end
    BY <2>1, EntryFacts, EntryInBucket, BucketStep, BucketsOrdered
  <2>3. QED
    BY <1>2, <2>2, Apart, SMTT(30)
<1>3. ASSUME NEW q \in EntryAt(s, x) PROVE FALSE
  <2>1. PICK c \in 1..Len(t) : \E f \in 1..Len(t[c].entries) : x < s.offset + EntryEnd(t[c], f)
    BY EntryMember
  <2>2. QED
    BY <1>2, <2>1
<1>4. QED
  BY <1>3

-----------------------------------------------------------------------------
\* What _partition has still to cover: the sections left, from the pointer on.
Left ==
  /\ nca \in Ncas /\ WellFormed(nca) /\ todo \subseteq nca.sections
  /\ pointer \in HeaderSize..nca.size
  /\ OnBlock(pointer) \/ pointer = nca.size
  /\ \A s \in nca.sections \ todo : ClampedEnd(s) <= pointer \/ s.end <= s.offset

LEMMA LeftTypes ==
  ASSUME Left
  PROVE  /\ HeaderSize \in Nat /\ nca.size \in Nat /\ pointer \in Nat /\ pointer <= nca.size
         /\ HeaderSize <= pointer
         /\ \A s \in nca.sections :
              /\ s.offset \in Nat /\ s.offset <= nca.size /\ s.end \in Nat
              /\ s.table \in Seq(Buckets) /\ Contiguous(s.table)
              /\ BaseNonce(s) \in Nonces
              /\ Start(s) \in Nat /\ ClampedEnd(s) \in Nat
              /\ OnBlock(s.offset) /\ OnBlock(s.end)
<1>1. nca \in Ncas /\ WellFormed(nca) /\ pointer \in HeaderSize..nca.size
  BY DEF Left
<1>2. HeaderSize \in Nat /\ nca.size \in Nat /\ pointer \in Nat /\ pointer <= nca.size
      /\ HeaderSize <= pointer
  BY <1>1, NcaTypes
<1>3. ASSUME NEW s \in nca.sections
      PROVE  /\ s.offset \in Nat /\ s.offset <= nca.size /\ s.end \in Nat
             /\ s.table \in Seq(Buckets) /\ Contiguous(s.table)
             /\ BaseNonce(s) \in Nonces
             /\ Start(s) \in Nat /\ ClampedEnd(s) \in Nat
             /\ OnBlock(s.offset) /\ OnBlock(s.end)
  <2>1. /\ s.offset \in Nat /\ s.offset <= nca.size /\ s.end \in Nat
        /\ s.table \in Seq(Buckets) /\ Contiguous(s.table) /\ BaseNonce(s) \in Nonces
    BY <1>1, NcaTypes
  <2>2. Start(s) \in Nat /\ ClampedEnd(s) \in Nat
    BY <1>2, <2>1 DEF Start, ClampedEnd, Most, Least
  <2>3. OnBlock(s.offset) /\ OnBlock(s.end)
    BY <1>1 DEF WellFormed
  <2>4. QED
    BY <2>1, <2>2, <2>3
<1>4. QED
  BY <1>2, <1>3

\* A section at a byte from the pointer on is not done.
LEMMA AtLeft ==
  ASSUME Left, NEW x \in Int, pointer <= x, x < nca.size, NEW t \in SectionsAt(nca, x)
  PROVE  t \in todo /\ t.offset \in Nat /\ t.offset <= x
<1>1. t \in nca.sections /\ t.offset <= x /\ x < t.end
  BY DEF SectionsAt
<1>2. t.offset \in Nat /\ t.end \in Nat /\ nca.size \in Nat /\ pointer \in Nat
  BY <1>1, LeftTypes
<1>3. ~(t.end <= t.offset)
  BY <1>1, <1>2
<1>4. ~(ClampedEnd(t) <= pointer)
  BY <1>1, <1>2 DEF ClampedEnd, Least
<1>5. QED
  BY <1>1, <1>2, <1>3, <1>4 DEF Left

LEMMA LeftGap ==
  ASSUME Left, NEW to \in Nat, to <= nca.size,
         to <= pointer \/ \A t \in todo : to <= t.offset
  PROVE  InKey(nca, Gap(pointer, to))
<1>1. pointer \in Nat /\ nca.size \in Nat
  BY LeftTypes
<1>2. ASSUME NEW x \in pointer..(to - 1) PROVE SectionsAt(nca, x) = {}
  <2> SUFFICES ASSUME NEW t \in SectionsAt(nca, x) PROVE FALSE
    OBVIOUS
  <2>1. x \in Int /\ pointer <= x /\ x < nca.size /\ x < to
    BY <1>1
  <2>2. t \in todo /\ t.offset \in Nat /\ t.offset <= x
    BY <2>1, AtLeft
  <2>3. QED
    BY <1>1, <2>1, <2>2
<1>3. QED
  BY <1>1, <1>2, GapInKey

\* From the pointer on the next section is the first one, in its range.
LEMMA InNext ==
  ASSUME Left, NEW s, IsNext(s), NEW x \in Int, Start(s) <= x, x < ClampedEnd(s)
  PROVE  NonceAt(nca, x) = NonceIn(s, x)
<1>1. s \in todo /\ s \in nca.sections /\ \A t \in todo : s.offset <= t.offset
  BY DEF IsNext, Left
<1>2. s.offset \in Nat /\ s.end \in Nat /\ nca.size \in Nat /\ pointer \in Nat
  BY <1>1, LeftTypes
<1>3. pointer <= x /\ s.offset <= x /\ x < s.end /\ x < nca.size
  BY <1>2 DEF Start, ClampedEnd, Most, Least
<1>4. s \in SectionsAt(nca, x)
  BY <1>1, <1>3 DEF SectionsAt
<1>5. \A t \in SectionsAt(nca, x) : t.offset \in Int /\ s.offset <= t.offset
  BY <1>1, <1>3, AtLeft
<1>6. WellFormed(nca) /\ s.offset \in Int
  BY <1>2 DEF Left
<1>7. QED
  BY <1>4, <1>5, <1>6, FirstSection

LEMMA NextAligned ==
  ASSUME Left, NEW s \in nca.sections
  PROVE  /\ OnBlock(Start(s)) \/ ClampedEnd(s) <= Start(s)
         /\ OnBlock(ClampedEnd(s)) \/ ClampedEnd(s) = nca.size
<1>1. /\ s.offset \in Nat /\ s.end \in Nat /\ nca.size \in Nat /\ pointer \in Nat
      /\ OnBlock(s.offset) /\ OnBlock(s.end)
  BY LeftTypes
<1>2. OnBlock(pointer) \/ pointer = nca.size
  BY DEF Left
<1>3. CASE Start(s) = s.offset
  BY <1>1, <1>3 DEF ClampedEnd, Least
<1>4. CASE Start(s) # s.offset
  <2>1. Start(s) = pointer
    BY <1>1, <1>4 DEF Start, Most
  <2>2. ClampedEnd(s) <= nca.size
    BY <1>1 DEF ClampedEnd, Least
  <2>3. QED
    BY <1>1, <1>2, <2>1, <2>2 DEF ClampedEnd, Least
<1>5. QED
  BY <1>3, <1>4

\* A gap before the next section, which starts after it.
LEMMA NextGap ==
  ASSUME Left, NEW s, IsNext(s), Start(s) < s.end
  PROVE  /\ InKey(nca, Gap(pointer, Start(s))) /\ Gap(pointer, Start(s)) \in Seq(Pieces)
         /\ pointer <= Start(s) /\ Start(s) <= ClampedEnd(s)
         /\ ClampedEnd(s) \in HeaderSize..nca.size
<1>1. s \in nca.sections /\ \A t \in todo : s.offset <= t.offset
  BY DEF IsNext, Left
<1>2. nca \in Ncas /\ pointer \in HeaderSize..nca.size
  BY DEF Left
<1>3. /\ Start(s) \in Nat /\ ClampedEnd(s) \in Nat /\ pointer <= Start(s)
      /\ Start(s) <= ClampedEnd(s) /\ ClampedEnd(s) \in HeaderSize..nca.size
  BY <1>1, <1>2, SectionRange
<1>4. /\ s.offset \in Nat /\ pointer \in Nat /\ nca.size \in Nat
  BY <1>1, LeftTypes
<1>5. Start(s) <= pointer \/ \A t \in todo : Start(s) <= t.offset
  BY <1>1, <1>4 DEF Start, Most
<1>6. Start(s) <= nca.size
  BY <1>2, <1>3, <1>4
<1>7. InKey(nca, Gap(pointer, Start(s)))
  BY <1>3, <1>5, <1>6, LeftGap
<1>8. Gap(pointer, Start(s)) \in Seq(Pieces)
  BY <1>3, <1>4, GapChain DEF ChainTo
<1>9. QED
  BY <1>3, <1>7, <1>8

\* What the invariant says while _partition runs.
LEMMA KeysLeft ==
  ASSUME PartitionInv, KeysInv, Own, WellFormed(nca), phase \in {"partition", "bktr"}
  PROVE  Left /\ InKey(nca, body) /\ body \in Seq(Pieces)
<1>1. /\ nca \in Ncas /\ todo \subseteq nca.sections /\ body \in Seq(Pieces)
      /\ phase = "partition" => pointer \in HeaderSize..nca.size
  BY DEF PartitionInv
<1>2. /\ InKey(nca, body)
      /\ OnBlock(pointer) \/ pointer = nca.size
      /\ \A s \in nca.sections \ todo : ClampedEnd(s) <= pointer \/ s.end <= s.offset
      /\ phase = "bktr" => pointer \in HeaderSize..nca.size
  BY DEF KeysInv
<1>3. QED
  BY <1>1, <1>2 DEF Left

LEMMA SkipKeys ==
  ASSUME PartitionInv, KeysInv, Own, WellFormed(nca), NEW s \in todo, SkipSection(s)
  PROVE  KeysInv'
<1>1. /\ phase = "partition" /\ IsNext(s)
      /\ todo' = todo \ {s} /\ UNCHANGED <<phase, nca, pointer, body>>
  BY DEF SkipSection
<1>2. Left /\ InKey(nca, body)
  BY <1>1, KeysLeft
<1>3. s \in nca.sections /\ \A q \in nca.sections \ todo : ClampedEnd(q) <= pointer \/ q.end <= q.offset
  BY <1>2 DEF Left
<1>4. ClampedEnd(s) <= pointer \/ s.end <= s.offset
  <2>1. /\ s.offset \in Nat /\ s.end \in Nat /\ nca.size \in Nat /\ pointer \in Nat
        /\ HeaderSize \in Nat /\ HeaderSize <= pointer
    BY <1>2, <1>3, LeftTypes
  <2>2. s.end <= HeaderSize \/ Start(s) >= s.end
    BY DEF SkipSection
  <2>3. QED
    BY <2>1, <2>2 DEF Start, ClampedEnd, Most, Least
<1>5. \A q \in nca.sections \ todo' : ClampedEnd(q) <= pointer \/ q.end <= q.offset
  BY <1>1, <1>3, <1>4
<1>6. OnBlock(pointer) \/ pointer = nca.size
  BY <1>2 DEF Left
<1>7. phase' = "partition" /\ UNCHANGED <<nca, pointer, body>>
  BY <1>1
<1>8. QED
  BY <1>2, <1>5, <1>6, <1>7 DEF KeysInv, ClampedEnd

\* The sections done stay done while the pointer moves on.
LEMMA PassSection ==
  ASSUME Left, NEW s \in nca.sections, nca' = nca, todo' = todo \ {s},
         pointer' = ClampedEnd(s), pointer <= pointer'
  PROVE  /\ OnBlock(pointer') \/ pointer' = nca.size
         /\ \A q \in nca.sections \ todo' : ClampedEnd(q) <= pointer' \/ q.end <= q.offset
<1>1. OnBlock(pointer') \/ pointer' = nca.size
  BY NextAligned
<1>2. ASSUME NEW q \in nca.sections \ todo' PROVE ClampedEnd(q) <= pointer' \/ q.end <= q.offset
  <2>1. /\ ClampedEnd(q) \in Nat /\ ClampedEnd(s) \in Nat /\ pointer \in Nat
    BY LeftTypes
  <2>2. CASE q = s
    BY <2>1, <2>2
  <2>3. CASE q # s
    <3>1. ClampedEnd(q) <= pointer \/ q.end <= q.offset
      BY <2>3 DEF Left
    <3>2. QED
      BY <2>1, <3>1
  <2>4. QED
    BY <2>2, <2>3
<1>3. QED
  BY <1>1, <1>2

LEMMA TakeKeys ==
  ASSUME PartitionInv, KeysInv, Own, WellFormed(nca), NEW s \in todo, TakeSection(s)
  PROVE  KeysInv'
<1>1. /\ phase = "partition" /\ IsNext(s) /\ Start(s) < s.end /\ ~UsesTable(s)
      /\ body' = body \o Gap(pointer, Start(s))
                     \o <<Piece(Start(s), ClampedEnd(s), BaseNonce(s))>>
      /\ pointer' = ClampedEnd(s) /\ todo' = todo \ {s}
      /\ UNCHANGED <<phase, nca>>
  BY DEF TakeSection
<1>2. Left /\ InKey(nca, body) /\ body \in Seq(Pieces) /\ s \in nca.sections
  BY <1>1, KeysLeft DEF Left
<1>3. /\ InKey(nca, Gap(pointer, Start(s))) /\ Gap(pointer, Start(s)) \in Seq(Pieces)
      /\ pointer <= Start(s) /\ Start(s) <= ClampedEnd(s)
  BY <1>1, <1>2, NextGap
<1>4. /\ Start(s) \in Nat /\ ClampedEnd(s) \in Nat /\ BaseNonce(s) \in Nonces /\ pointer \in Nat
  BY <1>2, LeftTypes
<1>5. InKey(nca, <<Piece(Start(s), ClampedEnd(s), BaseNonce(s))>>)
  <2>1. \A x \in Start(s)..(ClampedEnd(s) - 1) : NonceAt(nca, x) = BaseNonce(s)
    <3> SUFFICES ASSUME NEW x \in Start(s)..(ClampedEnd(s) - 1)
                 PROVE  NonceAt(nca, x) = BaseNonce(s)
      OBVIOUS
    <3>1. x \in Int /\ Start(s) <= x /\ x < ClampedEnd(s)
      BY <1>4
    <3>2. NonceAt(nca, x) = NonceIn(s, x)
      BY <1>1, <1>2, <3>1, InNext
    <3>3. QED
      BY <1>1, <3>2 DEF NonceIn
  <2>2. OnBlock(Start(s)) \/ ClampedEnd(s) <= Start(s)
    BY <1>2, NextAligned
  <2>3. QED
    BY <1>4, <2>1, <2>2, PieceInKey
<1>6. <<Piece(Start(s), ClampedEnd(s), BaseNonce(s))>> \in Seq(Pieces)
  BY <1>3, <1>4, PieceChain DEF ChainTo
<1>7. InKey(nca, body')
  <2>1. /\ InKey(nca, body \o Gap(pointer, Start(s)))
        /\ body \o Gap(pointer, Start(s)) \in Seq(Pieces)
    BY <1>2, <1>3, InKeyConcat, Concat
  <2>2. QED
    BY <1>1, <1>5, <1>6, <2>1, InKeyConcat
<1>8. pointer <= pointer'
  BY <1>1, <1>2, <1>3, <1>4
<1>9. /\ OnBlock(pointer') \/ pointer' = nca.size
      /\ \A q \in nca.sections \ todo' : ClampedEnd(q) <= pointer' \/ q.end <= q.offset
  BY <1>1, <1>2, <1>8, PassSection
<1>10. phase' = "partition" /\ nca' = nca
  BY <1>1
<1>11. QED
  BY <1>7, <1>9, <1>10 DEF KeysInv, ClampedEnd

LEMMA OpenKeys ==
  ASSUME PartitionInv, KeysInv, Own, WellFormed(nca), NEW s \in todo, OpenTable(s)
  PROVE  KeysInv'
<1>1. /\ phase = "partition" /\ IsNext(s) /\ Start(s) < s.end
      /\ body' = body \o Gap(pointer, Start(s))
      /\ cut'.sec = s /\ cut'.from = Start(s) /\ cut'.to = ClampedEnd(s) /\ cut'.pieces = << >>
      /\ phase' = "bktr" /\ UNCHANGED <<nca, todo, pointer>>
  BY DEF OpenTable
<1>2. Left /\ InKey(nca, body) /\ body \in Seq(Pieces) /\ s \in nca.sections
  BY <1>1, KeysLeft DEF Left
<1>3. InKey(nca, Gap(pointer, Start(s))) /\ Gap(pointer, Start(s)) \in Seq(Pieces)
  BY <1>1, <1>2, NextGap
<1>4. InKey(nca, body') /\ InKey(nca, << >>)
  BY <1>1, <1>2, <1>3, InKeyConcat, NoPieceInKey
<1>5. /\ OnBlock(pointer) \/ pointer = nca.size
      /\ \A q \in nca.sections \ todo : ClampedEnd(q) <= pointer \/ q.end <= q.offset
      /\ pointer \in HeaderSize..nca.size
  BY <1>2 DEF Left
<1>6. IsNext(cut.sec)'
  BY <1>1 DEF IsNext
<1>7. cut'.from = Start(cut.sec)' /\ cut'.to = ClampedEnd(cut.sec)'
  BY <1>1 DEF Start, ClampedEnd
<1>8. QED
  BY <1>1, <1>4, <1>5, <1>6, <1>7 DEF KeysInv, ClampedEnd

\* What the invariant says of the table being cut up.
LEMMA CutLeft ==
  ASSUME PartitionInv, KeysInv, Own, WellFormed(nca), phase = "bktr"
  PROVE  /\ Left /\ InKey(nca, body) /\ InKey(nca, cut.pieces)
         /\ IsNext(cut.sec) /\ cut.from = Start(cut.sec) /\ cut.to = ClampedEnd(cut.sec)
         /\ cut.sec \in nca.sections /\ UsesTable(cut.sec)
         /\ OnBlock(cut.from) \/ cut.to <= cut.from
         /\ \A x \in cut.from..(cut.to - 1) : NonceAt(nca, x) = NonceIn(cut.sec, x)
<1>1. Left /\ InKey(nca, body)
  BY KeysLeft
<1>2. /\ InKey(nca, cut.pieces)
      /\ IsNext(cut.sec) /\ cut.from = Start(cut.sec) /\ cut.to = ClampedEnd(cut.sec)
  BY DEF KeysInv
<1>3. cut.sec \in nca.sections /\ UsesTable(cut.sec) /\ cut.from \in Nat /\ cut.to \in Nat
  BY CutTypes DEF CutOK
<1>4. OnBlock(cut.from) \/ cut.to <= cut.from
  BY <1>1, <1>2, <1>3, NextAligned
<1>5. ASSUME NEW x \in cut.from..(cut.to - 1) PROVE NonceAt(nca, x) = NonceIn(cut.sec, x)
  <2>1. x \in Int /\ Start(cut.sec) <= x /\ x < ClampedEnd(cut.sec)
    BY <1>2, <1>3
  <2>2. QED
    BY <1>1, <1>2, <2>1, InNext
<1>6. QED
  BY <1>1, <1>2, <1>3, <1>4, <1>5

\* An entry, clipped to the range, is under its own counter.
LEMMA CutKeys ==
  ASSUME PartitionInv, KeysInv, Own, WellFormed(nca), CutEntry
  PROVE  KeysInv'
<1> DEFINE s == cut.sec
           b == s.table[cut.bucket]
           e == b.entries[cut.entry]
           lo == s.offset + e.at
           hi == s.offset + EntryEnd(b, cut.entry)
           from == Most(lo, cut.from)
           to == Least(hi, cut.to)
           piece == Piece(from, to, EntryNonce(s, e.ctr))
           pieces == IF from < to THEN Append(cut.pieces, piece) ELSE cut.pieces
<1>0. /\ phase = "bktr" /\ cut.bucket <= Len(s.table) /\ cut.entry <= Len(b.entries)
      /\ cut' = [cut EXCEPT !.entry = @ + 1, !.last = hi, !.pieces = pieces]
      /\ UNCHANGED <<phase, nca, todo, pointer, body>>
  BY DEF CutEntry, Bucket
<1>1. /\ Left /\ InKey(nca, body) /\ InKey(nca, cut.pieces)
      /\ IsNext(s) /\ cut.from = Start(s) /\ cut.to = ClampedEnd(s)
      /\ s \in nca.sections /\ UsesTable(s)
      /\ OnBlock(cut.from) \/ cut.to <= cut.from
      /\ \A x \in cut.from..(cut.to - 1) : NonceAt(nca, x) = NonceIn(s, x)
  BY <1>0, CutLeft
<1>2. /\ s.offset \in Nat /\ s.table \in Seq(Buckets) /\ Contiguous(s.table)
      /\ cut.from \in Nat /\ cut.to \in Nat /\ cut.pieces \in Seq(Pieces)
      /\ cut.bucket \in Nat /\ cut.bucket >= 1 /\ cut.entry \in Nat /\ cut.entry >= 1
      /\ Len(s.table) \in Nat /\ s.nonce \in Nat
      /\ \A c \in Nat : EntryNonce(s, c) \in Nonces
      /\ nca \in Ncas /\ OnBlock(s.offset)
  <2>1. nca \in Ncas /\ s \in nca.sections
    BY <1>0, CutTypes
  <2>2. s.nonce \in Nat
    BY <2>1, NczAssumption DEF NczAssumption
  <2>3. OnBlock(s.offset)
    BY <1>1, LeftTypes
  <2>4. QED
    BY <1>0, <2>2, <2>3, CutTypes
<1>3. cut.bucket \in 1..Len(s.table) /\ cut.entry \in 1..Len(b.entries)
  <2>1. cut.bucket \in 1..Len(s.table)
    <3>1. /\ cut.bucket \in Nat /\ cut.bucket >= 1 /\ cut.bucket <= Len(s.table)
          /\ Len(s.table) \in Nat
      BY <1>0, <1>2, Zenon
    <3>2. QED
      BY <3>1
  <2>2. b \in Buckets
    BY <1>2, <2>1
  <2> HIDE DEF b
  <2>3. Len(b.entries) \in Nat
    BY <2>2 DEF Buckets
  <2>4. QED
    BY <1>0, <1>2, <2>1, <2>3
<1>4. /\ e.at \in Nat /\ e.ctr \in Nat /\ EntryEnd(b, cut.entry) \in Nat
  BY <1>2, <1>3, EntryFacts
<1>5. OnBlock(e.at)
  <2>1. DOMAIN s.table = 1..Len(s.table)
    BY <1>2
  <2>2. DOMAIN b.entries = 1..Len(b.entries)
    <3>1. b \in Buckets
      BY <1>2, <1>3
    <3>2. b.entries \in Seq([at : Nat, ctr : Nat])
      BY <3>1 DEF Buckets
    <3>3. QED
      BY <3>2
  <2>3. QED
    BY <1>1, <1>3, <2>1, <2>2 DEF Left, WellFormed
<1>6. OnBlock(lo) /\ lo \in Nat /\ hi \in Nat
  <2> HIDE DEF e, b, s
  <2>1. lo \in Nat /\ hi \in Nat
    BY <1>2, <1>4
  <2>2. OnBlock(lo)
    BY <1>2, <1>4, <1>5, OnBlockSum
  <2>3. QED
    BY <2>1, <2>2
<1>7. /\ cut'.from = cut.from /\ cut'.to = cut.to /\ cut'.sec = cut.sec /\ cut'.pieces = pieces
  <2>1. cut \in [from : Nat, to : Nat, sec : todo, bucket : Nat \ {0}, entry : Nat \ {0},
                 pieces : Seq(Pieces), last : Int]
    BY <1>0, CutTypes DEF CutOK
  <2> HIDE DEF pieces, hi
  <2>2. QED
    BY <1>0, <2>1
<1>8. InKey(nca, pieces)
  <2>1. CASE ~(from < to)
    BY <1>1, <2>1
  <2>2. CASE from < to
    <3>1. from \in Nat /\ to \in Nat
      <4> HIDE DEF lo, hi
      <4>1. QED
        BY <1>2, <1>6 DEF Most, Least
    <3>2. ASSUME NEW x \in from..(to - 1)
          PROVE  NonceAt(nca, x) = EntryNonce(s, e.ctr)
      <4>1. /\ x \in cut.from..(cut.to - 1) /\ x \in Int /\ lo <= x /\ x < hi
        <5> HIDE DEF lo, hi
        <5>1. QED
          BY <1>2, <1>6, <3>1, SMTT(30) DEF Most, Least
      <4>2. EntryAt(s, x) = {<<cut.bucket, cut.entry>>}
        BY <1>2, <1>3, <4>1, OneEntry, ZenonT(30)
      <4>3. NonceIn(s, x) = <<s.nonce, e.ctr>>
        <5>1. (CHOOSE be \in EntryAt(s, x) : TRUE) = <<cut.bucket, cut.entry>>
          BY <4>2
        <5>2. EntryAt(s, x) # {}
          BY <4>2
        <5>3. NonceIn(s, x) = LET be == <<cut.bucket, cut.entry>>
                              IN <<s.nonce, s.table[be[1]].entries[be[2]].ctr>>
          BY <1>1, <5>1, <5>2, Zenon DEF NonceIn
        <5>4. QED
          BY <5>3
      <4>4. QED
        BY <1>1, <4>1, <4>3 DEF EntryNonce
    <3>3. OnBlock(from) \/ to <= from
      <4> HIDE DEF lo, hi
      <4>1. QED
        BY <1>1, <1>2, <1>6 DEF Most, Least
    <3>4. EntryNonce(s, e.ctr) \in Nonces
      BY <1>2, <1>4
    <3> HIDE DEF from, to, e, s
    <3>5. InKey(nca, <<piece>>)
      BY <3>1, <3>2, <3>3, PieceInKey
    <3>6. <<piece>> \in Seq(Pieces)
      <4>1. from <= to
        BY <2>2, <3>1
      <4>2. ChainTo(<<piece>>, from, to)
        BY <3>1, <3>4, <4>1, PieceChain
      <4>3. QED
        BY <4>2 DEF ChainTo
    <3> HIDE DEF piece
    <3>7. pieces = cut.pieces \o <<piece>>
      <4>1. piece \in Pieces
        <5>1. Len(<<piece>>) = 1 /\ <<piece>>[1] = piece
          OBVIOUS
        <5>2. QED
          BY <3>6, <5>1, Element
      <4>2. Append(cut.pieces, piece) = cut.pieces \o <<piece>>
        BY <1>2, <4>1
      <4>3. QED
        BY <2>2, <4>2
    <3>8. QED
      BY <1>1, <1>2, <3>5, <3>6, <3>7, InKeyConcat
  <2>3. QED
    BY <2>1, <2>2
<1> HIDE DEF pieces, hi
<1>9. /\ OnBlock(pointer) \/ pointer = nca.size
      /\ \A q \in nca.sections \ todo : ClampedEnd(q) <= pointer \/ q.end <= q.offset
      /\ pointer \in HeaderSize..nca.size
  BY <1>1 DEF Left
<1>10. /\ IsNext(cut.sec)' /\ cut'.from = Start(cut.sec)' /\ cut'.to = ClampedEnd(cut.sec)'
  BY <1>0, <1>1, <1>7 DEF IsNext, Start, ClampedEnd
<1>11. InKey(nca, cut.pieces)'
  BY <1>0, <1>7, <1>8
<1>12. QED
  BY <1>0, <1>1, <1>9, <1>10, <1>11 DEF KeysInv, ClampedEnd

LEMMA NextBucketKeys ==
  ASSUME PartitionInv, KeysInv, Own, WellFormed(nca), NextBucket
  PROVE  KeysInv'
<1>1. /\ phase = "bktr" /\ cut' = [cut EXCEPT !.bucket = @ + 1, !.entry = 1]
      /\ UNCHANGED <<phase, nca, todo, pointer, body>>
  BY DEF NextBucket
<1>2. cut \in [from : Nat, to : Nat, sec : todo, bucket : Nat \ {0}, entry : Nat \ {0},
               pieces : Seq(Pieces), last : Int]
  BY <1>1, CutTypes DEF CutOK
<1>3. /\ cut'.from = cut.from /\ cut'.to = cut.to /\ cut'.sec = cut.sec
      /\ cut'.pieces = cut.pieces
  BY <1>1, <1>2
<1>4. QED
  BY <1>1, <1>3 DEF KeysInv, IsNext, Start, ClampedEnd

\* What follows the last entry is under the counter of the section.
LEMMA CloseKeys ==
  ASSUME PartitionInv, KeysInv, Own, WellFormed(nca), CloseTable
  PROVE  KeysInv'
<1> DEFINE s == cut.sec
           whole == IF cut.pieces \o TableTail = << >>
                    THEN <<Piece(cut.from, cut.to, BaseNonce(s))>>
                    ELSE cut.pieces \o TableTail
<1>0. /\ phase = "bktr" /\ cut.bucket > Len(s.table)
      /\ body' = body \o whole /\ pointer' = cut.to
      /\ todo' = todo \ {s} /\ phase' = "partition" /\ nca' = nca
  BY DEF CloseTable
<1>1. /\ Left /\ InKey(nca, body) /\ InKey(nca, cut.pieces)
      /\ IsNext(s) /\ cut.from = Start(s) /\ cut.to = ClampedEnd(s)
      /\ s \in nca.sections /\ UsesTable(s)
      /\ OnBlock(cut.from) \/ cut.to <= cut.from
      /\ \A x \in cut.from..(cut.to - 1) : NonceAt(nca, x) = NonceIn(s, x)
  BY <1>0, CutLeft
<1>2. /\ s.offset \in Nat /\ s.table \in Seq(Buckets) /\ Contiguous(s.table)
      /\ Len(s.table) \in Nat /\ Len(s.table) >= 1 /\ s.table # << >>
      /\ cut.from \in Nat /\ cut.to \in Nat /\ cut.from <= cut.to
      /\ cut.pieces \in Seq(Pieces)
      /\ cut.last \in Int /\ BaseNonce(s) \in Nonces
      /\ nca \in Ncas /\ OnBlock(s.offset) /\ body \in Seq(Pieces)
  <2>1. OnBlock(s.offset)
    BY <1>1, LeftTypes
  <2>2. s.table # << >>
    BY <1>1 DEF UsesTable
  <2>3. body \in Seq(Pieces)
    BY DEF PartitionInv
  <2>4. QED
    BY <1>0, <2>1, <2>2, <2>3, CutTypes
<1>3. PICK end \in Nat : end = s.table[Len(s.table)].end
  BY <1>2, BucketStep, SMTT(30)
<1>4. /\ NextAt = end
      /\ IF cut.last = -1 THEN end = 0 /\ cut.pieces = << >> ELSE cut.last = s.offset + end
      /\ CoverEnd(cut.pieces, cut.from) = Most(cut.from, Least(s.offset + end, cut.to))
      /\ cut.pieces # << >> => CoverEnd(cut.pieces, cut.from) > cut.from
  <2>1. NextAt = end
    BY <1>0, <1>3 DEF NextAt
  <2>2. CutOK
    BY <1>0, CutTypes
  <2>3. QED
    BY <2>1, <2>2 DEF CutOK
<1>5. OnBlock(end)
  <2>1. Len(s.table) \in DOMAIN s.table
    BY <1>2
  <2>2. QED
    BY <1>1, <1>3, <2>1 DEF Left, WellFormed
<1>6. PICK after \in Nat : after = s.offset + end
  <2>1. s.offset + end \in Nat
    BY <1>2
  <2>2. QED
    BY <2>1
<1>7. OnBlock(after)
  BY <1>2, <1>5, <1>6, OnBlockSum
<1>8. ASSUME NEW x \in cut.from..(cut.to - 1), after <= x
      PROVE  NonceAt(nca, x) = BaseNonce(s)
  <2>1. EntryAt(s, x) = {}
    <3>1. x \in Int /\ s.offset + s.table[Len(s.table)].end <= x
      BY <1>2, <1>3, <1>6, <1>8
    <3> HIDE DEF s
    <3>2. QED
      BY <1>2, <3>1, NoEntry
  <2>2. NonceAt(nca, x) = NonceIn(s, x)
    BY <1>1
  <2>3. QED
    BY <2>1, <2>2 DEF NonceIn
<1> HIDE DEF s
<1>9. InKey(nca, whole) /\ whole \in Seq(Pieces)
  <2>1. CASE cut.last >= cut.from /\ cut.last < cut.to
    <3> DEFINE tail == Piece(cut.last, cut.to, BaseNonce(s))
    <3>1. cut.last = after /\ cut.last \in Nat /\ cut.last <= cut.to
      BY <1>2, <1>4, <1>6, <2>1
    <3>2. \A x \in cut.last..(cut.to - 1) : NonceAt(nca, x) = BaseNonce(s)
      BY <1>2, <1>8, <2>1, <3>1
    <3>3. InKey(nca, <<tail>>)
      <4>1. OnBlock(cut.last)
        BY <1>7, <3>1
      <4>2. QED
        BY <1>2, <3>1, <3>2, <4>1, PieceInKey
    <3>4. <<tail>> \in Seq(Pieces)
      BY <1>2, <3>1, PieceChain DEF ChainTo
    <3>5. TableTail = <<tail>>
      BY <2>1 DEF TableTail, s
    <3> HIDE DEF tail
    <3>6. cut.pieces \o <<tail>> # << >>
      <4>1. Len(<<tail>>) = 1
        OBVIOUS
      <4>2. Len(cut.pieces \o <<tail>>) = Len(cut.pieces) + 1 /\ Len(cut.pieces) \in Nat
        BY <1>2, <3>4, <4>1
      <4>3. QED
        BY <4>2
    <3>7. whole = cut.pieces \o <<tail>>
      BY <3>5, <3>6
    <3>8. InKey(nca, cut.pieces \o <<tail>>) /\ cut.pieces \o <<tail>> \in Seq(Pieces)
      BY <1>1, <1>2, <3>3, <3>4, InKeyConcat, Concat
    <3>9. QED
      BY <3>7, <3>8
  <2>2. CASE ~(cut.last >= cut.from /\ cut.last < cut.to)
    <3>1. TableTail = << >>
      BY <2>2 DEF TableTail
    <3>2. cut.pieces \o TableTail = cut.pieces
      <4>1. cut.pieces \o << >> = cut.pieces
        BY <1>2
      <4>2. QED
        BY <3>1, <4>1
    <3>3. CASE cut.pieces # << >>
      <4>1. whole = cut.pieces
        BY <3>2, <3>3
      <4>2. QED
        BY <1>1, <1>2, <4>1
    <3>4. CASE cut.pieces = << >>
      <4>1. whole = <<Piece(cut.from, cut.to, BaseNonce(s))>>
        BY <3>2, <3>4
      <4>2. after <= cut.from \/ cut.to <= cut.from
        <5>1. CoverEnd(cut.pieces, cut.from) = cut.from
          BY <3>4 DEF CoverEnd
        <5>2. cut.from = Most(cut.from, Least(after, cut.to))
          BY <1>4, <1>6, <5>1
        <5>3. QED
          BY <1>2, <1>6, <5>2 DEF Most, Least
      <4>3. \A x \in cut.from..(cut.to - 1) : NonceAt(nca, x) = BaseNonce(s)
        BY <1>2, <1>6, <1>8, <4>2
      <4>4. InKey(nca, <<Piece(cut.from, cut.to, BaseNonce(s))>>)
        BY <1>1, <1>2, <4>3, PieceInKey
      <4>5. <<Piece(cut.from, cut.to, BaseNonce(s))>> \in Seq(Pieces)
        BY <1>2, PieceChain DEF ChainTo
      <4>6. QED
        BY <4>1, <4>4, <4>5
    <3>5. QED
      BY <3>3, <3>4
  <2>3. QED
    BY <2>1, <2>2
<1> HIDE DEF whole
<1>10. InKey(nca, body')
  BY <1>0, <1>1, <1>2, <1>9, InKeyConcat
<1>11. pointer' = ClampedEnd(s) /\ pointer <= pointer'
  <2>1. pointer \in Nat /\ s.offset \in Nat
    BY <1>1, <1>2, LeftTypes
  <2>2. pointer <= Start(s)
    BY <2>1 DEF Start, Most
  <2>3. QED
    BY <1>0, <1>1, <1>2, <2>1, <2>2
<1>12. /\ OnBlock(pointer') \/ pointer' = nca.size
       /\ \A q \in nca.sections \ todo' : ClampedEnd(q) <= pointer' \/ q.end <= q.offset
  BY <1>0, <1>1, <1>11, PassSection
<1>13. QED
  BY <1>0, <1>10, <1>12 DEF KeysInv, ClampedEnd

LEMMA EndKeys ==
  ASSUME PartitionInv, KeysInv, Own, WellFormed(nca), EndPartition
  PROVE  KeysInv'
<1>1. /\ phase = "partition" /\ todo = {} /\ body' = body \o Gap(pointer, nca.size)
      /\ phase' = "compress" /\ nca' = nca
  BY DEF EndPartition
<1>2. Left /\ InKey(nca, body) /\ body \in Seq(Pieces)
  BY <1>1, KeysLeft
<1>3. pointer \in Nat /\ nca.size \in Nat /\ pointer <= nca.size
  BY <1>2, LeftTypes
<1>4. InKey(nca, Gap(pointer, nca.size)) /\ Gap(pointer, nca.size) \in Seq(Pieces)
  <2>1. \A t \in todo : nca.size <= t.offset
    BY <1>1
  <2>2. InKey(nca, Gap(pointer, nca.size))
    BY <1>2, <1>3, <2>1, LeftGap
  <2>3. Gap(pointer, nca.size) \in Seq(Pieces)
    BY <1>3, GapChain DEF ChainTo
  <2>4. QED
    BY <2>2, <2>3
<1>5. InKey(nca, body')
  BY <1>1, <1>2, <1>4, InKeyConcat
<1>6. QED
  BY <1>1, <1>5 DEF KeysInv

LEMMA KeysInit == Init => KeysInv
<1> SUFFICES ASSUME Init, Own PROVE KeysInv
  BY DEF KeysInv
<1>1. InitOwn
  BY NczAssumption DEF Init, InitForeign, Own, NczAssumption
<1>2. /\ nca \in Ncas /\ phase = "partition" /\ body = << >> /\ pointer = HeaderSize
      /\ todo = nca.sections
  BY <1>1 DEF Init, InitOwn
<1>3. OnBlock(pointer)
  BY <1>2, NczAssumption DEF NczAssumption
<1>4. nca.sections \ todo = {} /\ InKey(nca, body)
  BY <1>2, NoPieceInKey
<1>5. QED
  BY <1>2, <1>3, <1>4 DEF KeysInv

LEMMA KeysNext ==
  ASSUME PartitionInv, KeysInv, [Next]_vars
  PROVE  KeysInv'
<1>1. nca' = nca
  BY DEF Next, Partition, SkipSection, TakeSection, OpenTable, CutEntry, NextBucket,
    CloseTable, EndPartition, Compress, CompressChunk, NextPiece, FinishCompress, Decompress,
    OpenNcz, DecodeSolid, DecodeBlock, EmitExcess, EmitNext, EmitSlice, FinishDecompress,
    partVars, vars
<1>2. SUFFICES ASSUME Own, WellFormed(nca) PROVE KeysInv'
  BY <1>1 DEF KeysInv, Own
<1>3. CASE UNCHANGED vars
  <2>1. /\ phase' = phase /\ nca' = nca /\ todo' = todo /\ pointer' = pointer
        /\ body' = body /\ cut' = cut
    BY <1>3 DEF vars
  <2>2. /\ IsNext(cut.sec)' <=> IsNext(cut.sec)
        /\ Start(cut.sec)' = Start(cut.sec) /\ ClampedEnd(cut.sec)' = ClampedEnd(cut.sec)
    BY <2>1 DEF IsNext, Start, ClampedEnd
  <2>3. \A s : ClampedEnd(s)' = ClampedEnd(s)
    BY <2>1 DEF ClampedEnd
  <2>4. QED
    BY <1>2, <2>1, <2>2, <2>3 DEF KeysInv
<1>4. CASE Partition
  <2>1. ASSUME NEW s \in todo, SkipSection(s) \/ TakeSection(s) \/ OpenTable(s)
        PROVE  KeysInv'
    BY <1>2, <2>1, SkipKeys, TakeKeys, OpenKeys
  <2>2. QED
    BY <1>2, <1>4, <2>1, CutKeys, NextBucketKeys, CloseKeys, EndKeys DEF Partition
<1>5. CASE Compress \/ Decompress
  <2>1. /\ phase \notin {"partition", "bktr"} /\ phase' \notin {"partition", "bktr"}
        /\ body' = body
    <3>1. CASE Compress
      BY <3>1 DEF Compress, CompressChunk, NextPiece, FinishCompress, partVars
    <3>2. CASE Decompress
      BY <3>2 DEF Decompress, OpenNcz, DecodeSolid, DecodeBlock, EmitExcess, EmitNext,
        EmitSlice, FinishDecompress, partVars
    <3>3. QED
      BY <1>5, <3>1, <3>2
  <2>2. InKey(nca, body)
    BY <1>2 DEF KeysInv
  <2>3. QED
    BY <1>1, <2>1, <2>2 DEF KeysInv
<1>6. QED
  BY <1>3, <1>4, <1>5 DEF Next

\* Each piece of the table is under the key stream of the NCA.
THEOREM KeysInvariance == Spec => []KeysInv
<1>1. PartitionInv /\ KeysInv /\ [Next]_vars => KeysInv'
  BY KeysNext
<1>2. QED
  BY <1>1, KeysInit, PartitionInvariance, PTL DEF Spec

\* The encoder is given plaintext, whatever the sections of the NCA and however
\* their tables cut them up.
THEOREM Ncz_StreamIsPlain == Spec => []StreamIsPlain
<1>1. CodecInv /\ KeysInv => StreamIsPlain
  <2> SUFFICES ASSUME CodecInv, KeysInv, Own, WellFormed(nca), NEW k \in DOMAIN stream
               PROVE  stream[k].ks = NcaKey(nca, stream[k].at)
    BY DEF StreamIsPlain
  <2>1. /\ HeaderSize \in Nat /\ body \in Seq(Pieces) /\ DOMAIN body = 1..Len(body)
        /\ stream \in Seq(Cells) /\ Len(stream) \in Nat
    BY BodyTypes
  <2>2. k \in 1..Len(stream) /\ k \in Int
    BY <2>1
  <2>3. StreamOK /\ Chain(body, HeaderSize)
    BY DEF CodecInv, PartitionInv
  <2>4. PICK i \in OwnerIn(body, HeaderSize + k - 1) : TRUE
    BY <2>2, <2>3 DEF StreamOK
  <2>5. stream[k] = [at |-> HeaderSize + k - 1, ks |-> KeyAt(body[i], HeaderSize + k - 1)]
    <3>1. stream[k] = CellOf(body, k)
      BY <2>2, <2>3 DEF StreamOK
    <3>2. QED
      BY <2>1, <2>2, <2>3, <3>1, CellOwned
  <2>6. PICK x \in Int : x = HeaderSize + k - 1
    <3>1. HeaderSize \in Int /\ k \in Int
      BY <2>1, <2>2
    <3>2. HeaderSize + k - 1 \in Int
      BY <3>1
    <3>3. QED
      BY <3>2
  <2>7. i \in 1..Len(body) /\ body[i].offset <= x /\ x < PieceEnd(body[i])
    BY <2>1, <2>4, <2>6 DEF OwnerIn, PieceEnd
  <2>8. x \in body[i].offset..(PieceEnd(body[i]) - 1)
    <3>1. body[i].offset \in Nat /\ PieceEnd(body[i]) \in Nat
      BY <2>1, <2>7, PieceTypes
    <3>2. QED
      BY <2>7, <3>1
  <2>9. KeyAt(body[i], x) = NcaKey(nca, x)
    BY <2>1, <2>7, <2>8 DEF KeysInv, InKey
  <2>10. QED
    BY <2>5, <2>6, <2>9
<1>2. QED
  BY <1>1, CodecInvariance, KeysInvariance, PTL

-----------------------------------------------------------------------------
\* A list is a sequence of its elements.
LEMMA ListSeq ==
  ASSUME NEW l, IsList(l), NEW S, \A k \in 1..Len(l) : l[k] \in S
  PROVE  l \in Seq(S)
<1>1. l \in [1..Len(l) -> S]
  BY DEF IsList
<1>2. QED
  BY <1>1 DEF IsList

\* A sequence is a list.
LEMMA SeqList ==
  ASSUME NEW S, NEW l \in Seq(S)
  PROVE  IsList(l)
  BY DEF IsList

\* A function on 1..n is a list of n elements.
LEMMA FunctionList ==
  ASSUME NEW n \in Nat, NEW l, l = [k \in 1..n |-> l[k]]
  PROVE  IsList(l) /\ Len(l) = n /\ DOMAIN l = 1..n
<1>1. l \in Seq({l[k] : k \in 1..n}) /\ Len(l) = n
  <2>1. l \in [1..n -> {l[k] : k \in 1..n}]
    OBVIOUS
  <2>2. QED
    BY <2>1
<1>2. QED
  BY <1>1 DEF IsList

\* What a list is defined on.
LEMMA ListDomain ==
  ASSUME NEW l, IsList(l)
  PROVE  DOMAIN l = 1..Len(l) /\ Len(l) \in Nat
  BY DEF IsList

\* Lists with the same elements are one.
LEMMA SameList ==
  ASSUME NEW l, IsList(l), NEW m, IsList(m), Len(l) = Len(m),
         \A k \in 1..Len(l) : l[k] = m[k]
  PROVE  l = m
  BY DEF IsList

\* Two lists joined.
LEMMA JoinedList ==
  ASSUME NEW l, IsList(l), NEW m, IsList(m)
  PROVE  /\ IsList(l \o m) /\ Len(l \o m) = Len(l) + Len(m)
         /\ \A k \in 1..Len(l) : (l \o m)[k] = l[k]
         /\ \A k \in 1..Len(m) : (l \o m)[Len(l) + k] = m[k]
<1> DEFINE S == {l[k] : k \in 1..Len(l)} \cup {m[k] : k \in 1..Len(m)}
<1>1. l \in Seq(S) /\ m \in Seq(S)
  BY ListSeq
<1> HIDE DEF S
<1>2. l \o m \in Seq(S)
  BY <1>1
<1>3. IsList(l \o m)
  BY <1>2, SeqList
<1>4. QED
  BY <1>1, <1>3, SMT DEF IsList

\* A part of a list.
LEMMA PartList ==
  ASSUME NEW l, IsList(l), NEW from \in Nat, NEW to \in Nat, 1 <= from, to <= Len(l)
  PROVE  /\ IsList(SubSeq(l, from, to))
         /\ Len(SubSeq(l, from, to)) = IF from <= to THEN to - from + 1 ELSE 0
         /\ \A k \in 1..Len(SubSeq(l, from, to)) :
              SubSeq(l, from, to)[k] = l[from + k - 1]
<1> DEFINE S == {l[k] : k \in 1..Len(l)}
<1>1. l \in Seq(S)
  BY ListSeq
<1> HIDE DEF S
<1>2. SubSeq(l, from, to) \in Seq(S)
  BY <1>1 DEF IsList
<1>3. IsList(SubSeq(l, from, to))
  BY <1>2, SeqList
<1>4. QED
  BY <1>1, <1>3, SMTT(30) DEF IsList

\* A list with one element more.
LEMMA LongerList ==
  ASSUME NEW l, IsList(l), NEW x
  PROVE  /\ IsList(Append(l, x)) /\ Len(Append(l, x)) = Len(l) + 1
         /\ \A k \in 1..Len(l) : Append(l, x)[k] = l[k]
         /\ Append(l, x)[Len(l) + 1] = x
<1> DEFINE S == {l[k] : k \in 1..Len(l)} \cup {x}
<1>1. l \in Seq(S) /\ x \in S
  BY ListSeq
<1> HIDE DEF S
<1>2. Append(l, x) \in Seq(S)
  BY <1>1
<1>3. IsList(Append(l, x))
  BY <1>2, SeqList
<1>4. QED
  BY <1>1, <1>3, SMT DEF IsList

-----------------------------------------------------------------------------
\* The bytes of a member, and padding.
LEMMA DataList ==
  ASSUME NEW c, NEW n \in Nat
  PROVE  /\ IsList(Data(c, n)) /\ Len(Data(c, n)) = n
         /\ \A k \in 1..n : Data(c, n)[k] = <<"data", c, k>>
  BY FunctionList DEF Data

\* Padding is a list of as many cells.
LEMMA PadsList ==
  ASSUME NEW n \in Int
  PROVE  IsList(Pads(n)) /\ Len(Pads(n)) = IF n >= 0 THEN n ELSE 0
<1>1. CASE n >= 0
  BY <1>1, FunctionList DEF Pads
<1>2. CASE n < 0
  <2>1. 1..n = 1..0
    BY <1>2
  <2>2. Pads(n) = [k \in 1..0 |-> Pads(n)[k]]
    BY <2>1 DEF Pads
  <2>3. IsList(Pads(n)) /\ Len(Pads(n)) = 0
    <3> DEFINE l == Pads(n)
    <3> HIDE DEF l
    <3>1. l = [k \in 1..0 |-> l[k]] /\ 0 \in Nat
      BY <2>2 DEF l
    <3>2. IsList(l) /\ Len(l) = 0
      BY <3>1, FunctionList
    <3>3. QED
      BY <3>2 DEF l
  <2>4. QED
    BY <1>2, <2>3
<1>3. QED
  BY <1>1, <1>2

\* What is in the file after a write: what is written at its place, what was there
\* before everywhere else.
LEMMA WrittenCells ==
  ASSUME NEW f, IsList(f), NEW at \in Nat, NEW cells, IsList(cells)
  PROVE  /\ IsList(WriteAt(f, at, cells))
         /\ Len(WriteAt(f, at, cells)) =
              IF Len(f) <= at + Len(cells) THEN at + Len(cells) ELSE Len(f)
         /\ \A k \in 1..Len(cells) : WriteAt(f, at, cells)[at + k] = cells[k]
         /\ \A k \in 1..Len(f) : k <= at \/ at + Len(cells) < k =>
              WriteAt(f, at, cells)[k] = f[k]
<1> DEFINE gap == Pads(at - Len(f))
           low == SubSeq(f \o gap, 1, at)
           high == SubSeq(f, at + Len(cells) + 1, Len(f))
<1>1. Len(f) \in Nat /\ Len(cells) \in Nat
  BY DEF IsList
<1>2. IsList(gap) /\ Len(gap) = IF Len(f) <= at THEN at - Len(f) ELSE 0
  BY <1>1, PadsList
<1>3. /\ IsList(f \o gap) /\ Len(f \o gap) = Len(f) + Len(gap)
      /\ \A k \in 1..Len(f) : (f \o gap)[k] = f[k]
  <2> HIDE DEF gap
  <2>1. QED
    BY <1>2, JoinedList
<1>4. at <= Len(f \o gap)
  BY <1>1, <1>2, <1>3
<1>5. /\ IsList(low) /\ Len(low) = at
      /\ \A k \in 1..Len(f) : k <= at => low[k] = f[k]
  <2> HIDE DEF gap
  <2> DEFINE g == f \o gap
  <2>1. IsList(g) /\ Len(g) \in Nat /\ at <= Len(g)
    BY <1>3, <1>4 DEF IsList
  <2>2. \A k \in 1..Len(f) : g[k] = f[k]
    BY <1>3
  <2> HIDE DEF g
  <2>3. /\ IsList(SubSeq(g, 1, at)) /\ Len(SubSeq(g, 1, at)) = at
        /\ \A k \in 1..at : SubSeq(g, 1, at)[k] = g[k]
    BY <2>1, PartList
  <2>4. QED
    BY <1>1, <2>2, <2>3 DEF g
<1>6. /\ IsList(high)
      /\ Len(high) = IF at + Len(cells) < Len(f) THEN Len(f) - at - Len(cells) ELSE 0
      /\ \A k \in 1..Len(high) : high[k] = f[at + Len(cells) + k]
  <2> DEFINE from == at + Len(cells) + 1
  <2>1. from \in Nat /\ 1 <= from /\ Len(f) <= Len(f)
    BY <1>1
  <2> HIDE DEF from
  <2>2. /\ IsList(SubSeq(f, from, Len(f)))
        /\ Len(SubSeq(f, from, Len(f))) = IF from <= Len(f) THEN Len(f) - from + 1 ELSE 0
        /\ \A k \in 1..Len(SubSeq(f, from, Len(f))) :
             SubSeq(f, from, Len(f))[k] = f[from + k - 1]
    BY <1>1, <2>1, PartList
  <2>3. high = SubSeq(f, from, Len(f))
    BY DEF from
  <2> HIDE DEF high
  <2>4. QED
    BY <1>1, <2>2, <2>3 DEF from
<1> HIDE DEF gap, low, high
<1> DEFINE l == low \o cells
<1>7. /\ IsList(l) /\ Len(l) = at + Len(cells)
      /\ \A k \in 1..at : l[k] = low[k]
      /\ \A k \in 1..Len(cells) : l[at + k] = cells[k]
  <2>1. IsList(low) /\ IsList(cells)
    BY <1>5
  <2>2. /\ IsList(l) /\ Len(l) = Len(low) + Len(cells)
        /\ \A k \in 1..Len(low) : l[k] = low[k]
        /\ \A k \in 1..Len(cells) : l[Len(low) + k] = cells[k]
    BY <2>1, JoinedList
  <2> HIDE DEF l
  <2>3. QED
    BY <1>5, <2>2
<1> HIDE DEF l
<1> DEFINE w == l \o high
<1>8. /\ IsList(w) /\ Len(w) = at + Len(cells) + Len(high)
      /\ \A k \in 1..(at + Len(cells)) : w[k] = l[k]
      /\ \A k \in 1..Len(high) : w[at + Len(cells) + k] = high[k]
  <2>1. IsList(l) /\ IsList(high)
    BY <1>6, <1>7
  <2>2. /\ IsList(w) /\ Len(w) = Len(l) + Len(high)
        /\ \A k \in 1..Len(l) : w[k] = l[k]
        /\ \A k \in 1..Len(high) : w[Len(l) + k] = high[k]
    BY <2>1, JoinedList
  <2> HIDE DEF w
  <2>3. QED
    BY <1>7, <2>2
<1>9. WriteAt(f, at, cells) = w
  BY DEF WriteAt, w, l, low, high, gap
<1> HIDE DEF w
<1>10. Len(high) \in Nat
  BY <1>6 DEF IsList
<1>11. Len(w) = IF Len(f) <= at + Len(cells) THEN at + Len(cells) ELSE Len(f)
  <2>1. Len(w) = at + Len(cells) + Len(high)
    BY <1>8
  <2>2. Len(high) = IF at + Len(cells) < Len(f) THEN Len(f) - at - Len(cells) ELSE 0
    BY <1>6
  <2>3. CASE at + Len(cells) < Len(f)
    <3>1. at + Len(cells) + (Len(f) - at - Len(cells)) = Len(f)
      BY <1>1
    <3>2. QED
      BY <1>1, <2>1, <2>2, <2>3, <3>1
  <2>4. CASE Len(f) <= at + Len(cells)
    <3>1. at + Len(cells) + 0 = at + Len(cells) /\ ~(at + Len(cells) < Len(f))
      BY <1>1, <2>4
    <3>2. QED
      BY <2>1, <2>2, <2>4, <3>1
  <2>5. QED
    BY <1>1, <2>3, <2>4
<1>12. \A k \in 1..Len(cells) : w[at + k] = cells[k]
  BY <1>1, <1>7, <1>8
<1>13. ASSUME NEW k \in 1..Len(f), k <= at
       PROVE  w[k] = f[k]
  <2>1. k \in 1..at /\ k \in 1..(at + Len(cells))
    BY <1>1, <1>13
  <2>2. w[k] = l[k]
    BY <1>8, <2>1
  <2>3. l[k] = low[k]
    BY <1>7, <2>1
  <2>4. low[k] = f[k]
    BY <1>5, <1>13
  <2>5. QED
    BY <2>2, <2>3, <2>4
<1>14. ASSUME NEW k \in 1..Len(f), at + Len(cells) < k
       PROVE  w[k] = f[k]
  <2>1. k - at - Len(cells) \in 1..Len(high)
    BY <1>1, <1>6, <1>14
  <2>2. w[at + Len(cells) + (k - at - Len(cells))] = high[k - at - Len(cells)]
    BY <1>8, <2>1
  <2>3. high[k - at - Len(cells)] = f[at + Len(cells) + (k - at - Len(cells))]
    BY <1>6, <2>1
  <2>4. at + Len(cells) + (k - at - Len(cells)) = k
    BY <1>1
  <2>5. QED
    BY <2>2, <2>3, <2>4
<1>15. QED
  BY <1>8, <1>9, <1>11, <1>12, <1>13, <1>14
-----------------------------------------------------------------------------
\* These cells are in the file, from this place on.
Holds(f, at, cells) ==
  at + Len(cells) <= Len(f) /\ \A k \in 1..Len(cells) : f[at + k] = cells[k]

\* What a builder's entry tells of a file, base being where its offsets begin.
FileAt(f, base, e, d) ==
  /\ e.name = d.name /\ e.size = Len(d.bytes) /\ e.offset \in Nat
  /\ Holds(f, base + e.offset, d.bytes)

\* An HFS0 of these files within so many cells: a placeholder, or what a builder
\* makes of some entries.
BuiltOf(f, at, size, ds, es) ==
  /\ IsList(es) /\ Len(es) = Len(ds) /\ Reserved <= size
  /\ Hfs0HeaderSize(es) <= Reserved /\ Holds(f, at, Hfs0Header(es))
  /\ \A j \in 1..Len(ds) : /\ FileAt(f, at + Reserved, es[j], ds[j])
                           /\ Reserved + es[j].offset + es[j].size <= size

\* The partition of these files, empty or built.
PartAt(f, at, size, ds) ==
  \/ ds = << >> /\ size >= 1 /\ Holds(f, at, <<FixedHeader("HFS0", 0, 1)>>)
  \/ \E es : BuiltOf(f, at, size, ds, es)

\* Files to be listed.
FilesType(ds) == IsList(ds) /\ \A j \in 1..Len(ds) : IsList(ds[j].bytes)

\* The cells of a header.
LEMMA HeaderCells ==
  ASSUME NEW es, IsList(es)
  PROVE  /\ IsList(Hfs0Header(es)) /\ Len(Hfs0Header(es)) = 1 + 2 * Len(es)
         /\ Hfs0Header(es)[1] = FixedHeader("HFS0", Len(es), Len(es))
         /\ \A i \in 1..Len(es) :
              /\ Hfs0Header(es)[1 + i] =
                   Entry(es[i].offset + Reserved - Hfs0HeaderSize(es), es[i].size, i - 1)
              /\ Hfs0Header(es)[1 + Len(es) + i] = Name(es[i].name)
<1> DEFINE n == Len(es)
           first == <<FixedHeader("HFS0", n, n)>>
           rows == [i \in DOMAIN es |-> Entry(es[i].offset + Reserved - Hfs0HeaderSize(es),
                                               es[i].size, i - 1)]
           names == Names(es)
           front == first \o rows
           whole == front \o names
<1>1. n \in Nat /\ DOMAIN es = 1..n
  BY ListDomain
<1>2. IsList(first) /\ Len(first) = 1 /\ first[1] = FixedHeader("HFS0", n, n)
  <2>1. first \in Seq({FixedHeader("HFS0", n, n)})
    OBVIOUS
  <2>2. QED
    BY <2>1, SeqList
<1>3. /\ IsList(rows) /\ Len(rows) = n
      /\ \A i \in 1..n : rows[i] = Entry(es[i].offset + Reserved - Hfs0HeaderSize(es),
                                          es[i].size, i - 1)
  <2>1. rows = [i \in 1..n |-> rows[i]]
    BY <1>1
  <2>2. \A i \in 1..n : rows[i] = Entry(es[i].offset + Reserved - Hfs0HeaderSize(es),
                                         es[i].size, i - 1)
    BY <1>1
  <2> HIDE DEF rows, n
  <2>3. QED
    BY <1>1, <2>1, <2>2, FunctionList
<1>4. /\ IsList(names) /\ Len(names) = n
      /\ \A i \in 1..n : names[i] = Name(es[i].name)
  <2>1. names = [i \in 1..n |-> names[i]]
    BY <1>1 DEF Names
  <2>2. \A i \in 1..n : names[i] = Name(es[i].name)
    BY <1>1 DEF Names
  <2> HIDE DEF names, n
  <2>3. QED
    BY <1>1, <2>1, <2>2, FunctionList
<1>5. Hfs0Header(es) = whole
  BY DEF Hfs0Header
<1> HIDE DEF first, rows, names, n
<1>6. /\ IsList(front) /\ Len(front) = 1 + n /\ front[1] = first[1]
      /\ \A i \in 1..n : front[1 + i] = rows[i]
  <2>1. /\ IsList(front) /\ Len(front) = Len(first) + Len(rows)
        /\ \A k \in 1..Len(first) : front[k] = first[k]
        /\ \A k \in 1..Len(rows) : front[Len(first) + k] = rows[k]
    <3>1. IsList(first) /\ IsList(rows)
      BY <1>2, <1>3
    <3>2. QED
      BY <3>1, JoinedList
  <2> HIDE DEF front
  <2>2. QED
    BY <1>2, <1>3, <2>1
<1> HIDE DEF front
<1>7. /\ IsList(whole) /\ Len(whole) = 1 + 2 * n
      /\ \A k \in 1..(1 + n) : whole[k] = front[k]
      /\ \A i \in 1..n : whole[1 + n + i] = names[i]
  <2>1. /\ IsList(whole) /\ Len(whole) = Len(front) + Len(names)
        /\ \A k \in 1..Len(front) : whole[k] = front[k]
        /\ \A k \in 1..Len(names) : whole[Len(front) + k] = names[k]
    <3>1. IsList(front) /\ IsList(names)
      BY <1>4, <1>6
    <3>2. QED
      BY <3>1, JoinedList
  <2> HIDE DEF whole
  <2>2. QED
    BY <1>1, <1>4, <1>6, <2>1
<1> HIDE DEF whole
<1>8. whole[1] = FixedHeader("HFS0", n, n)
  BY <1>1, <1>2, <1>6, <1>7
<1>9. ASSUME NEW i \in 1..n
      PROVE  /\ whole[1 + i] = Entry(es[i].offset + Reserved - Hfs0HeaderSize(es),
                                     es[i].size, i - 1)
             /\ whole[1 + n + i] = Name(es[i].name)
  <2>1. 1 + i \in 1..(1 + n)
    BY <1>1
  <2>2. whole[1 + i] = rows[i]
    BY <1>6, <1>7, <2>1
  <2>3. QED
    BY <1>3, <1>4, <1>7, <2>2
<1>10. QED
  BY <1>5, <1>7, <1>8, <1>9 DEF n

\* A reader finds the builder's entries in its header: the offsets it wrote come back
\* as places counted from the end of the reserved space.
LEMMA HeaderRead ==
  ASSUME Reserved \in Nat, NEW f, IsList(f), NEW at \in Nat, NEW es, IsList(es),
         Holds(f, at, Hfs0Header(es)), \A i \in 1..Len(es) : es[i].offset \in Nat
  PROVE  /\ Opens(f, at, "HFS0")
         /\ Entries(f, at) = [i \in 1..Len(es) |->
              [name |-> es[i].name, at |-> at + Reserved + es[i].offset,
               size |-> es[i].size]]
<1> DEFINE n == Len(es)
           h == Hfs0Header(es)
<1>1. n \in Nat /\ Len(f) \in Nat
  BY DEF IsList
<1>2. /\ Len(h) = 1 + 2 * n /\ h[1] = FixedHeader("HFS0", n, n)
      /\ \A i \in 1..n :
           /\ h[1 + i] = Entry(es[i].offset + Reserved - Hfs0HeaderSize(es), es[i].size, i - 1)
           /\ h[1 + n + i] = Name(es[i].name)
  BY HeaderCells
<1>3. at + Len(h) <= Len(f) /\ \A k \in 1..Len(h) : f[at + k] = h[k]
  BY DEF Holds
<1>4. Hfs0HeaderSize(es) = 1 + 2 * n
  BY DEF Hfs0HeaderSize
<1> HIDE DEF h, n
<1>5. f[at + 1] = <<"HFS0", n, n>>
  <2>1. 1 \in 1..Len(h)
    BY <1>1, <1>2
  <2>2. QED
    BY <1>2, <1>3, <2>1 DEF FixedHeader
<1>6. f[at + 1][1] = "HFS0" /\ f[at + 1][2] = n /\ f[at + 1][3] = n
  BY <1>5
<1>7. Opens(f, at, "HFS0")
  BY <1>1, <1>2, <1>3, <1>6 DEF Opens
<1>8. ASSUME NEW i \in 1..n
      PROVE  /\ f[at + 1 + i] = <<"entry", es[i].offset + Reserved - (1 + 2 * n),
                                  es[i].size, i - 1>>
             /\ f[at + 1 + n + (i - 1) + 1] = <<"name", es[i].name>>
  <2>1. 1 + i \in 1..Len(h) /\ 1 + n + i \in 1..Len(h)
    BY <1>1, <1>2
  <2>2. f[at + (1 + i)] = h[1 + i] /\ f[at + (1 + n + i)] = h[1 + n + i]
    BY <1>3, <2>1
  <2>3. at + (1 + i) = at + 1 + i /\ at + (1 + n + i) = at + 1 + n + (i - 1) + 1
    BY <1>1
  <2>4. h[1 + i] = Entry(es[i].offset + Reserved - (1 + 2 * n), es[i].size, i - 1)
    BY <1>2, <1>4
  <2>5. h[1 + n + i] = Name(es[i].name)
    BY <1>2
  <2>6. QED
    BY <2>2, <2>3, <2>4, <2>5 DEF Entry, Name
<1>9. ASSUME NEW i \in 1..n
      PROVE  /\ f[at + 1 + i][2] = es[i].offset + Reserved - (1 + 2 * n)
             /\ f[at + 1 + i][3] = es[i].size /\ f[at + 1 + i][4] = i - 1
             /\ f[at + 1 + n + (i - 1) + 1][2] = es[i].name
  BY <1>8
<1>10. ASSUME NEW i \in 1..n
       PROVE  at + 1 + n + n + f[at + 1 + i][2] = at + Reserved + es[i].offset
  <2>1. es[i].offset \in Nat
    BY DEF n
  <2>2. f[at + 1 + i][2] = es[i].offset + Reserved - (1 + 2 * n)
    BY <1>9
  <2>3. at + 1 + n + n + (es[i].offset + Reserved - (1 + 2 * n))
          = at + Reserved + es[i].offset
    BY <1>1, <2>1
  <2>4. QED
    BY <2>2, <2>3
<1>11. Entries(f, at) = [i \in 1..n |->
         [name |-> es[i].name, at |-> at + Reserved + es[i].offset, size |-> es[i].size]]
  <2>1. Entries(f, at) = [i \in 1..n |->
          [name |-> f[at + 1 + n + f[at + 1 + i][4] + 1][2],
           at |-> at + 1 + n + n + f[at + 1 + i][2], size |-> f[at + 1 + i][3]]]
    BY <1>6 DEF Entries
  <2>2. ASSUME NEW i \in 1..n
        PROVE  [name |-> f[at + 1 + n + f[at + 1 + i][4] + 1][2],
                at |-> at + 1 + n + n + f[at + 1 + i][2], size |-> f[at + 1 + i][3]]
               = [name |-> es[i].name, at |-> at + Reserved + es[i].offset,
                  size |-> es[i].size]
    BY <1>9, <1>10
  <2>3. QED
    BY <2>1, <2>2
<1>12. QED
  BY <1>7, <1>11 DEF n

\* What is held can be read.
LEMMA HeldRead ==
  ASSUME NEW f, IsList(f), NEW at \in Nat, NEW cells, IsList(cells), Holds(f, at, cells)
  PROVE  Slice(f, at, Len(cells)) = cells
<1> DEFINE s == Slice(f, at, Len(cells))
           to == at + Len(cells)
<1>1. Len(cells) \in Nat /\ Len(f) \in Nat
  BY DEF IsList
<1>2. at + 1 \in Nat /\ to \in Nat /\ 1 <= at + 1 /\ to <= Len(f)
  BY <1>1 DEF Holds
<1>3. s = SubSeq(f, at + 1, to)
  BY DEF Slice
<1> HIDE DEF s, to
<1>4. /\ IsList(s) /\ Len(s) = IF at + 1 <= to THEN to - (at + 1) + 1 ELSE 0
      /\ \A k \in 1..Len(s) : s[k] = f[at + 1 + k - 1]
  <2> DEFINE from == at + 1
  <2>1. from \in Nat /\ 1 <= from /\ s = SubSeq(f, from, to)
    BY <1>2, <1>3
  <2> HIDE DEF from
  <2>2. /\ IsList(s) /\ Len(s) = IF from <= to THEN to - from + 1 ELSE 0
        /\ \A k \in 1..Len(s) : s[k] = f[from + k - 1]
    BY <1>2, <2>1, PartList
  <2>3. QED
    BY <2>2 DEF from
<1>5. Len(s) = Len(cells)
  <2>1. CASE Len(cells) = 0
    BY <1>1, <1>4, <2>1 DEF to
  <2>2. CASE Len(cells) > 0
    BY <1>1, <1>4, <2>2 DEF to
  <2>3. QED
    BY <1>1, <2>1, <2>2
<1>6. ASSUME NEW k \in 1..Len(s)
      PROVE  s[k] = cells[k]
  <2>1. s[k] = f[at + 1 + k - 1]
    BY <1>4
  <2>2. at + 1 + k - 1 = at + k
    BY <1>1, <1>5
  <2>3. f[at + k] = cells[k]
    BY <1>5 DEF Holds
  <2>4. QED
    BY <2>1, <2>2, <2>3
<1>7. s = cells
  BY <1>4, <1>5, <1>6, SameList
<1>8. QED
  BY <1>7 DEF s

\* A change elsewhere keeps what is held.
Same(f, g, from, to) ==
  \A k \in (from + 1)..to : k <= Len(f) => k <= Len(g) /\ g[k] = f[k]

\* What a write does to a file, seen from other cells: it holds what was written,
\* and is the same in front of it and behind.
LEMMA WrittenTo ==
  ASSUME NEW f, IsList(f), NEW at \in Nat, NEW cells, IsList(cells),
         NEW g, g = WriteAt(f, at, cells)
  PROVE  /\ IsList(g) /\ Len(g) \in Nat /\ Len(f) <= Len(g)
         /\ Holds(g, at, cells) /\ Same(f, g, 0, at)
         /\ \A to \in Nat : Same(f, g, at + Len(cells), to)
<1>1. /\ IsList(g)
      /\ Len(g) = IF Len(f) <= at + Len(cells) THEN at + Len(cells) ELSE Len(f)
      /\ \A k \in 1..Len(cells) : g[at + k] = cells[k]
      /\ \A k \in 1..Len(f) : k <= at \/ at + Len(cells) < k => g[k] = f[k]
  BY WrittenCells
<1>2. Len(f) \in Nat /\ Len(cells) \in Nat
  BY DEF IsList
<1>3. Len(g) \in Nat /\ Len(f) <= Len(g) /\ at + Len(cells) <= Len(g)
  <2>1. CASE Len(f) <= at + Len(cells)
    BY <1>1, <1>2, <2>1
  <2>2. CASE ~(Len(f) <= at + Len(cells))
    BY <1>1, <1>2, <2>2
  <2>3. QED
    BY <2>1, <2>2
<1>4. Same(f, g, 0, at)
  BY <1>1, <1>2, <1>3 DEF Same
<1>5. ASSUME NEW to \in Nat
      PROVE  Same(f, g, at + Len(cells), to)
  BY <1>1, <1>2, <1>3 DEF Same
<1>6. Holds(g, at, cells)
  BY <1>1, <1>3 DEF Holds
<1>7. QED
  BY <1>1, <1>3, <1>4, <1>5, <1>6

\* What lies where nothing has changed is still there.
LEMMA HeldKept ==
  ASSUME NEW f, IsList(f), NEW g, IsList(g), Len(f) <= Len(g),
         NEW at \in Nat, NEW cells, IsList(cells), Holds(f, at, cells),
         NEW from \in Nat, NEW to \in Nat, Same(f, g, from, to),
         from <= at, at + Len(cells) <= to
  PROVE  Holds(g, at, cells)
<1>1. Len(cells) \in Nat /\ Len(f) \in Nat /\ Len(g) \in Nat
  BY DEF IsList
<1>2. ASSUME NEW k \in 1..Len(cells)
      PROVE  g[at + k] = cells[k]
  <2>1. at + k \in (from + 1)..to /\ at + k <= Len(f)
    BY <1>1 DEF Holds
  <2>2. g[at + k] = f[at + k]
    BY <2>1 DEF Same
  <2>3. QED
    BY <2>2 DEF Holds
<1>3. at + Len(cells) <= Len(g)
  BY <1>1 DEF Holds
<1>4. QED
  BY <1>2, <1>3 DEF Holds

\* So is a whole partition.
LEMMA PartKept ==
  ASSUME Reserved \in Nat, NEW f, IsList(f), NEW g, IsList(g), Len(f) <= Len(g),
         NEW at \in Nat, NEW size \in Nat, NEW ds, FilesType(ds),
         PartAt(f, at, size, ds), Same(f, g, at, at + size)
  PROVE  PartAt(g, at, size, ds)
<1>1. at + size \in Nat /\ at <= at
  OBVIOUS
<1>2. ASSUME ds = << >>, size >= 1, Holds(f, at, <<FixedHeader("HFS0", 0, 1)>>)
      PROVE  PartAt(g, at, size, ds)
  <2> DEFINE cells == <<FixedHeader("HFS0", 0, 1)>>
  <2>1. IsList(cells) /\ Len(cells) = 1
    <3>1. cells \in Seq({FixedHeader("HFS0", 0, 1)})
      OBVIOUS
    <3>2. QED
      BY <3>1, SeqList
  <2>2. at + Len(cells) <= at + size /\ Holds(f, at, cells)
    BY <1>2, <2>1
  <2> HIDE DEF cells
  <2>3. Holds(g, at, cells)
    BY <1>1, <2>1, <2>2, HeldKept
  <2>4. QED
    BY <1>2, <2>3 DEF PartAt, cells
<1>3. ASSUME NEW es, BuiltOf(f, at, size, ds, es)
      PROVE  BuiltOf(g, at, size, ds, es)
  <2>1. /\ IsList(es) /\ Len(es) = Len(ds) /\ Reserved <= size
        /\ Hfs0HeaderSize(es) <= Reserved /\ Holds(f, at, Hfs0Header(es))
        /\ \A j \in 1..Len(ds) : /\ FileAt(f, at + Reserved, es[j], ds[j])
                                 /\ Reserved + es[j].offset + es[j].size <= size
    BY <1>3 DEF BuiltOf
  <2>2. Holds(g, at, Hfs0Header(es))
    <3>1. IsList(Hfs0Header(es)) /\ Len(Hfs0Header(es)) = 1 + 2 * Len(es)
      BY <2>1, HeaderCells
    <3>2. Len(es) \in Nat
      BY <2>1 DEF IsList
    <3>3. at + Len(Hfs0Header(es)) <= at + size
      BY <2>1, <3>1, <3>2 DEF Hfs0HeaderSize
    <3>4. QED
      BY <1>1, <2>1, <3>1, <3>3, HeldKept
  <2>3. ASSUME NEW j \in 1..Len(ds)
        PROVE  FileAt(g, at + Reserved, es[j], ds[j])
    <3> DEFINE b == ds[j].bytes
               o == es[j].offset
    <3>1. /\ es[j].name = ds[j].name /\ es[j].size = Len(b) /\ o \in Nat
          /\ Holds(f, at + Reserved + o, b) /\ Reserved + o + es[j].size <= size
      BY <2>1 DEF FileAt
    <3>2. IsList(b) /\ Len(b) \in Nat
      BY DEF FilesType, IsList
    <3> HIDE DEF b, o
    <3> DEFINE place == at + Reserved + o
    <3>3. place \in Nat /\ at <= place /\ place + Len(b) <= at + size
      BY <3>1, <3>2, SMTT(30)
    <3>4. Holds(f, place, b)
      BY <3>1
    <3> HIDE DEF place
    <3>5. Holds(g, place, b)
      BY <1>1, <3>2, <3>3, <3>4, HeldKept
    <3>6. QED
      BY <3>1, <3>5 DEF FileAt, place, b, o
  <2>4. QED
    BY <2>1, <2>2, <2>3 DEF BuiltOf
<1>4. QED
  BY <1>2, <1>3 DEF PartAt

\* A partition is read as the files it holds.
LEMMA PartRead ==
  ASSUME Reserved \in Nat, NEW f, IsList(f), NEW at \in Nat, NEW size \in Nat,
         NEW ds, FilesType(ds), PartAt(f, at, size, ds)
  PROVE  /\ DOMAIN Entries(f, at) = DOMAIN ds
         /\ \A j \in DOMAIN ds :
              /\ Entries(f, at)[j].name = ds[j].name
              /\ Entries(f, at)[j].at \in Nat
              /\ Entries(f, at)[j].size = Len(ds[j].bytes)
              /\ Bytes(f, Entries(f, at)[j]) = ds[j].bytes
<1> DEFINE E == Entries(f, at)
<1>1. IsList(ds) /\ DOMAIN ds = 1..Len(ds) /\ Len(ds) \in Nat
  BY ListDomain DEF FilesType
<1>2. ASSUME ds = << >>, Holds(f, at, <<FixedHeader("HFS0", 0, 1)>>)
      PROVE  DOMAIN E = DOMAIN ds /\ DOMAIN ds = {}
  <2>1. f[at + 1] = <<"HFS0", 0, 1>>
    BY <1>2 DEF Holds, FixedHeader
  <2>2. f[at + 1][2] = 0
    BY <2>1
  <2>3. DOMAIN E = 1..0
    BY <2>2 DEF Entries
  <2>4. QED
    BY <1>2, <2>3
<1>3. ASSUME NEW es, BuiltOf(f, at, size, ds, es)
      PROVE  /\ DOMAIN E = DOMAIN ds
             /\ \A j \in DOMAIN ds :
                  /\ E[j].name = ds[j].name /\ E[j].at \in Nat
                  /\ E[j].size = Len(ds[j].bytes) /\ Bytes(f, E[j]) = ds[j].bytes
  <2>1. /\ IsList(es) /\ Len(es) = Len(ds) /\ Holds(f, at, Hfs0Header(es))
        /\ \A j \in 1..Len(ds) : FileAt(f, at + Reserved, es[j], ds[j])
    BY <1>3 DEF BuiltOf
  <2>2. \A j \in 1..Len(es) : es[j].offset \in Nat
    BY <2>1 DEF FileAt
  <2>3. E = [i \in 1..Len(es) |->
               [name |-> es[i].name, at |-> at + Reserved + es[i].offset,
                size |-> es[i].size]]
    BY <2>1, <2>2, HeaderRead
  <2> HIDE DEF E
  <2>4. DOMAIN E = DOMAIN ds
    BY <1>1, <2>1, <2>3
  <2>5. ASSUME NEW j \in DOMAIN ds
        PROVE  /\ E[j].name = ds[j].name /\ E[j].at \in Nat
               /\ E[j].size = Len(ds[j].bytes) /\ Bytes(f, E[j]) = ds[j].bytes
    <3>1. j \in 1..Len(ds) /\ j \in 1..Len(es)
      BY <1>1, <2>1
    <3>2. /\ es[j].name = ds[j].name /\ es[j].size = Len(ds[j].bytes)
          /\ es[j].offset \in Nat /\ Holds(f, at + Reserved + es[j].offset, ds[j].bytes)
      BY <2>1, <3>1 DEF FileAt
    <3>3. /\ E[j].name = es[j].name /\ E[j].at = at + Reserved + es[j].offset
          /\ E[j].size = es[j].size
      BY <2>3, <3>1
    <3>4. E[j].at \in Nat
      BY <3>2, <3>3
    <3>5. IsList(ds[j].bytes)
      BY <3>1 DEF FilesType
    <3>6. Slice(f, E[j].at, Len(ds[j].bytes)) = ds[j].bytes
      BY <3>2, <3>3, <3>4, <3>5, HeldRead
    <3>7. QED
      BY <3>2, <3>3, <3>4, <3>6 DEF Bytes
  <2>6. QED
    BY <2>4, <2>5
<1>4. QED
  BY <1>2, <1>3 DEF PartAt

-----------------------------------------------------------------------------
\* What the image converted lists, and what the one made of it is to list.
Given == IF packing THEN Whole(card.parts) ELSE Compressed(Plain(card.parts))
Meant == IF packing THEN Compressed(Plain(card.parts)) ELSE Plain(card.parts)

\* A partition that is not left out.
Kept(p) == card.keep \/ card.parts[p].name = "secure"

\* A file that is compressed.
Large(f) == f.name.ext = "nca" /\ f.size > MinNca

\* A file as it is in the .xcz.
Packed(f) ==
  IF Large(f) THEN [name |-> [f.name EXCEPT !.ext = "ncz"],
                    bytes |-> Data(<<"ncz", f.content[2]>>, card.ncz[f.content[2]])]
  ELSE [name |-> f.name, bytes |-> Data(f.content, f.size)]

\* A large file is compressed, any other kept.
LEMMA PackedPoint ==
  ASSUME NEW f
  PROVE  /\ Large(f) =>
              /\ Packed(f).name = [f.name EXCEPT !.ext = "ncz"]
              /\ Packed(f).bytes = Data(<<"ncz", f.content[2]>>, card.ncz[f.content[2]])
         /\ ~Large(f) =>
              Packed(f).name = f.name /\ Packed(f).bytes = Data(f.content, f.size)
  BY DEF Packed

\* What is assumed of a file of a card.
LEMMA CardFile ==
  ASSUME card \in Cards, NEW p \in DOMAIN card.parts,
         NEW j \in DOMAIN card.parts[p].files, NEW f, f = card.parts[p].files[j]
  PROVE  /\ f.size \in Nat /\ f.name = [stem |-> f.name.stem, ext |-> f.name.ext]
         /\ f.name.ext # "ncz" /\ MinNca \in Nat
         /\ Large(f) => /\ f.content = <<"raw", f.content[2]>>
                        /\ f.size = card.raw[f.content[2]] /\ f.size > 0
                        /\ card.ncz[f.content[2]] \in Nat \ {0}
<1>1. CardOK(card) /\ MinNca \in Nat
  BY CardAssumption
<1>2. /\ f.size \in Nat /\ f.name = [stem |-> f.name.stem, ext |-> f.name.ext]
      /\ f.name.ext # "ncz"
      /\ f.name.ext = "nca" /\ f.size > MinNca =>
           /\ f.content = <<"raw", f.content[2]>>
           /\ f.size = card.raw[f.content[2]]
           /\ card.ncz[f.content[2]] \in Nat \ {0}
  BY <1>1 DEF CardOK
<1>3. f.size \in Nat /\ MinNca \in Nat
  BY <1>1, <1>2, Zenon
<1>4. f.size > MinNca => f.size > 0
  <2> DEFINE size == f.size
  <2>1. size \in Nat /\ MinNca \in Nat
    BY <1>3
  <2> HIDE DEF size
  <2>2. size > MinNca => size > 0
    BY <2>1
  <2>3. QED
    BY <2>2 DEF size
<1>5. QED
  BY <1>1, <1>2, <1>4 DEF Large

\* The partitions of a card and their files are lists.
LEMMA CardLists ==
  ASSUME card \in Cards
  PROVE  /\ IsList(card.parts) /\ card.keep \in BOOLEAN
         /\ DOMAIN card.parts = 1..Len(card.parts) /\ Len(card.parts) \in Nat
         /\ \A p \in DOMAIN card.parts :
              /\ IsList(card.parts[p].files)
              /\ DOMAIN card.parts[p].files = 1..Len(card.parts[p].files)
              /\ Len(card.parts[p].files) \in Nat
<1>1. CardOK(card)
  BY CardAssumption
<1>2. /\ IsList(card.parts) /\ card.keep \in BOOLEAN
      /\ \A p \in DOMAIN card.parts : IsList(card.parts[p].files)
  BY <1>1 DEF CardOK
<1>3. QED
  BY <1>2, ListDomain

\* The bytes of a file name its content, and say whether it is compressed.
LEMMA Contained ==
  ASSUME card \in Cards, NEW p \in DOMAIN card.parts,
         NEW j \in DOMAIN card.parts[p].files, NEW f, f = card.parts[p].files[j],
         NEW d, d = [name |-> f.name, bytes |-> Data(f.content, f.size)]
  PROVE  /\ IsList(d.bytes) /\ Len(d.bytes) = f.size
         /\ Compressible(d) <=> Large(f)
         /\ Large(f) => d.bytes[1][2] = f.content
<1>1. f.size \in Nat /\ (Large(f) => f.size > 0)
  BY CardFile
<1>2. /\ IsList(d.bytes) /\ Len(d.bytes) = f.size
      /\ \A k \in 1..f.size : d.bytes[k] = <<"data", f.content, k>>
  BY <1>1, DataList
<1>3. Compressible(d) <=> Large(f)
  BY <1>2 DEF Compressible, Large
<1>4. ASSUME Large(f)
      PROVE  d.bytes[1][2] = f.content
  <2>1. 1 \in 1..f.size
    BY <1>1, <1>4
  <2>2. d.bytes[1] = <<"data", f.content, 1>>
    BY <1>2, <2>1
  <2>3. <<"data", f.content, 1>>[2] = f.content
    OBVIOUS
  <2>4. QED
    BY <2>2, <2>3
<1>5. QED
  BY <1>2, <1>3, <1>4

\* The three listings, file by file.
LEMMA WholePoint ==
  ASSUME card \in Cards
  PROVE  /\ DOMAIN Whole(card.parts) = DOMAIN card.parts
         /\ \A p \in DOMAIN card.parts :
              /\ Whole(card.parts)[p].name = card.parts[p].name
              /\ Whole(card.parts)[p].files = Contents(card.parts[p].files)
  BY DEF Whole

\* The partitions left out are empty in the plain listing.
LEMMA PlainPoint ==
  ASSUME card \in Cards
  PROVE  /\ DOMAIN Plain(card.parts) = DOMAIN card.parts
         /\ \A p \in DOMAIN card.parts :
              /\ Plain(card.parts)[p].name = card.parts[p].name
              /\ Kept(p) => Plain(card.parts)[p].files = Contents(card.parts[p].files)
              /\ ~Kept(p) => Plain(card.parts)[p].files = << >>
  BY DEF Plain, Kept

\* The files of a partition, one by one.
LEMMA ContentsPoint ==
  ASSUME card \in Cards, NEW p \in DOMAIN card.parts
  PROVE  /\ FilesType(Contents(card.parts[p].files))
         /\ DOMAIN Contents(card.parts[p].files) = DOMAIN card.parts[p].files
         /\ \A j \in DOMAIN card.parts[p].files :
              Contents(card.parts[p].files)[j] =
                [name |-> card.parts[p].files[j].name,
                 bytes |-> Data(card.parts[p].files[j].content, card.parts[p].files[j].size)]
<1> DEFINE fs == card.parts[p].files
           ds == Contents(fs)
<1>1. DOMAIN fs = 1..Len(fs) /\ Len(fs) \in Nat
  BY CardLists
<1>2. /\ DOMAIN ds = DOMAIN fs
      /\ \A j \in DOMAIN fs :
           ds[j] = [name |-> fs[j].name, bytes |-> Data(fs[j].content, fs[j].size)]
  BY DEF Contents
<1>3. ds = [j \in 1..Len(fs) |-> ds[j]]
  BY <1>1 DEF Contents
<1>4. IsList(ds) /\ Len(ds) = Len(fs)
  <2> HIDE DEF ds, fs
  <2>1. QED
    BY <1>1, <1>3, FunctionList
<1>5. ASSUME NEW j \in 1..Len(ds)
      PROVE  IsList(ds[j].bytes)
  <2>1. j \in DOMAIN fs
    BY <1>1, <1>4
  <2>2. ds[j] = [name |-> fs[j].name, bytes |-> Data(fs[j].content, fs[j].size)]
    BY <1>2, <2>1
  <2>3. QED
    BY <2>1, <2>2, Contained
<1>6. QED
  BY <1>2, <1>4, <1>5 DEF FilesType

\* The compressed listing, one by one.
LEMMA CompressedPoint ==
  ASSUME card \in Cards
  PROVE  /\ DOMAIN Compressed(Plain(card.parts)) = DOMAIN card.parts
         /\ \A p \in DOMAIN card.parts :
              /\ Compressed(Plain(card.parts))[p].name = card.parts[p].name
              /\ FilesType(Compressed(Plain(card.parts))[p].files)
              /\ ~Kept(p) => Compressed(Plain(card.parts))[p].files = << >>
              /\ Kept(p) =>
                   /\ DOMAIN Compressed(Plain(card.parts))[p].files
                        = DOMAIN card.parts[p].files
                   /\ \A j \in DOMAIN card.parts[p].files :
                        Compressed(Plain(card.parts))[p].files[j]
                          = Packed(card.parts[p].files[j])
<1> DEFINE P == Plain(card.parts)
           C == Compressed(P)
           One(d) == IF ~Compressible(d) THEN d
                     ELSE LET c == d.bytes[1][2][2]
                          IN [name |-> [d.name EXCEPT !.ext = "ncz"],
                              bytes |-> Data(<<"ncz", c>>, card.ncz[c])]
<1>1. DOMAIN P = DOMAIN card.parts
  BY PlainPoint
<1>2. \A p \in DOMAIN card.parts : P[p] = [name |-> P[p].name, files |-> P[p].files]
  BY DEF Plain
<1>3. /\ DOMAIN C = DOMAIN card.parts
      /\ \A p \in DOMAIN card.parts :
           C[p] = [name |-> P[p].name, files |-> [j \in DOMAIN P[p].files |-> One(P[p].files[j])]]
  <2> HIDE DEF P
  <2>1. DOMAIN C = DOMAIN card.parts
    BY <1>1 DEF Compressed
  <2>2. ASSUME NEW p \in DOMAIN card.parts
        PROVE  C[p] = [name |-> P[p].name,
                       files |-> [j \in DOMAIN P[p].files |-> One(P[p].files[j])]]
    <3>1. C[p] = [P[p] EXCEPT !.files = [j \in DOMAIN P[p].files |-> One(P[p].files[j])]]
      BY <1>1 DEF Compressed
    <3> HIDE DEF One, C
    <3>2. P[p] = [name |-> P[p].name, files |-> P[p].files]
      BY <1>2
    <3>3. QED
      BY <3>1, <3>2
  <2>3. QED
    BY <2>1, <2>2
<1>4. ASSUME NEW p \in DOMAIN card.parts
      PROVE  /\ C[p].name = card.parts[p].name
             /\ C[p].files = [j \in DOMAIN P[p].files |-> One(P[p].files[j])]
  <2> DEFINE F == [j \in DOMAIN P[p].files |-> One(P[p].files[j])]
  <2>1. C[p] = [name |-> P[p].name, files |-> F]
    BY <1>3
  <2>2. P[p].name = card.parts[p].name
    BY PlainPoint
  <2> HIDE DEF F, C, P
  <2>3. C[p].name = P[p].name /\ C[p].files = F
    BY <2>1
  <2>4. QED
    BY <2>2, <2>3 DEF F
<1>5. ASSUME NEW p \in DOMAIN card.parts, ~Kept(p)
      PROVE  C[p].files = << >> /\ FilesType(C[p].files)
  <2>1. P[p].files = << >>
    BY <1>5, PlainPoint
  <2> HIDE DEF One, C, P
  <2>2. C[p].files = [j \in {} |-> One(P[p].files[j])]
    <3>1. C[p].files = [j \in DOMAIN P[p].files |-> One(P[p].files[j])]
      BY <1>4
    <3>2. DOMAIN P[p].files = {}
      BY <2>1
    <3>3. QED
      BY <3>1, <3>2
  <2>3. C[p].files = << >>
    BY <2>2
  <2>4. QED
    BY <2>3 DEF FilesType, IsList
<1>6. ASSUME NEW p \in DOMAIN card.parts, Kept(p)
      PROVE  /\ DOMAIN C[p].files = DOMAIN card.parts[p].files
             /\ \A j \in DOMAIN card.parts[p].files :
                  C[p].files[j] = Packed(card.parts[p].files[j])
             /\ FilesType(C[p].files)
  <2> DEFINE fs == card.parts[p].files
             cs == C[p].files
  <2>1. P[p].files = Contents(fs) /\ DOMAIN P[p].files = DOMAIN fs
    BY <1>6, PlainPoint, ContentsPoint
  <2>2. ASSUME NEW j \in DOMAIN fs
        PROVE  One(P[p].files[j]) = Packed(fs[j])
    <3> DEFINE d == P[p].files[j]
               f == fs[j]
    <3>1. d = [name |-> f.name, bytes |-> Data(f.content, f.size)]
      BY <2>1, ContentsPoint
    <3>2. /\ Compressible(d) <=> Large(f)
          /\ Large(f) => d.bytes[1][2] = f.content
      <4> HIDE DEF d
      <4>1. f = card.parts[p].files[j]
        OBVIOUS
      <4> HIDE DEF f
      <4>2. QED
        BY <3>1, <4>1, Contained
    <3> HIDE DEF d, f
    <3>3. One(d) = Packed(f)
      BY <3>1, <3>2 DEF Packed
    <3>4. QED
      BY <3>3 DEF d, f
  <2>3. cs = [j \in DOMAIN fs |-> One(P[p].files[j])]
    <3> HIDE DEF One, C
    <3>1. QED
      BY <1>4, <2>1
  <2> HIDE DEF One, C, P
  <2>4. DOMAIN cs = DOMAIN fs /\ \A j \in DOMAIN fs : cs[j] = Packed(fs[j])
    BY <2>2, <2>3
  <2>5. DOMAIN fs = 1..Len(fs) /\ Len(fs) \in Nat
    BY CardLists
  <2>6. IsList(cs) /\ Len(cs) = Len(fs)
    <3>1. cs = [j \in 1..Len(fs) |-> cs[j]]
      BY <2>3, <2>5
    <3> HIDE DEF cs, fs
    <3>2. QED
      BY <2>5, <3>1, FunctionList
  <2>7. ASSUME NEW j \in 1..Len(cs)
        PROVE  IsList(cs[j].bytes)
    <3>1. j \in DOMAIN fs /\ cs[j] = Packed(fs[j])
      BY <2>4, <2>5, <2>6
    <3>2. /\ fs[j].size \in Nat
          /\ Large(fs[j]) => card.ncz[fs[j].content[2]] \in Nat
      BY <3>1, CardFile
    <3>3. CASE Large(fs[j])
      <4>1. cs[j].bytes = Data(<<"ncz", fs[j].content[2]>>, card.ncz[fs[j].content[2]])
        BY <3>1, <3>3, PackedPoint
      <4>2. QED
        BY <3>2, <3>3, <4>1, DataList
    <3>4. CASE ~Large(fs[j])
      <4>1. cs[j].bytes = Data(fs[j].content, fs[j].size)
        BY <3>1, <3>4, PackedPoint
      <4>2. QED
        BY <3>2, <4>1, DataList
    <3>5. QED
      BY <3>3, <3>4
  <2>8. QED
    BY <2>4, <2>6, <2>7 DEF FilesType
<1>7. QED
  BY <1>3, <1>4, <1>5, <1>6

\* No entries are the empty list.
LEMMA NoEntries ==
  ASSUME NEW f, NEW at, DOMAIN Entries(f, at) = {}
  PROVE  Entries(f, at) = << >>
<1> DEFINE E == Entries(f, at)
           n == f[at + 1][2]
<1>1. E = [i \in 1..n |-> E[i]] /\ DOMAIN E = 1..n
  BY DEF Entries
<1> HIDE DEF E
<1>2. E = [i \in {} |-> E[i]]
  BY <1>1 DEF E
<1>3. E = << >>
  BY <1>2
<1>4. QED
  BY <1>3 DEF E

\* What a file of the image converted is called and holds, and what it is to become.
NameIn(f) == IF packing THEN f.name ELSE Packed(f).name
BytesIn(f) == IF packing THEN Data(f.content, f.size) ELSE Packed(f).bytes

\* An entry of the image converted stands for this file of the card.
ReadAs(e, f) ==
  /\ e.at \in Nat /\ e.size = Len(BytesIn(f)) /\ e.name = NameIn(f)
  /\ Readable(source, e) => Bytes(source, e) = BytesIn(f)

\* The image converted, as the reader finds it.
LEMMA SourceKnown ==
  ASSUME card \in Cards, packing \in BOOLEAN, Lists(source, Given), OpensImage
  PROVE  /\ DOMAIN Partitions = DOMAIN card.parts
         /\ RootAt(source) \in Nat \ {0} /\ RootAt(source) < Len(source) /\ IsList(source)
         /\ \A p \in DOMAIN card.parts :
              /\ Partitions[p].name = card.parts[p].name
              /\ Trims(p) => packing \/ FilesOf(p) = << >>
              /\ Trims(p) => ~Kept(p) \/ card.parts[p].files = << >>
              /\ ~Trims(p) =>
                   /\ Kept(p) /\ DOMAIN FilesOf(p) = DOMAIN card.parts[p].files
                   /\ \A j \in DOMAIN card.parts[p].files :
                        ReadAs(FilesOf(p)[j], card.parts[p].files[j])
<1> DEFINE parts == card.parts
<1>1. DOMAIN Given = DOMAIN parts /\ \A p \in DOMAIN parts : Given[p].name = parts[p].name
  BY WholePoint, CompressedPoint DEF Given
<1>2. /\ IsList(source) /\ RootAt(source) \in 1..(Len(source) - 1)
      /\ DOMAIN Partitions = DOMAIN Given
      /\ \A p \in DOMAIN Given :
           /\ Partitions[p].name = Given[p].name /\ Partitions[p].at \in Nat
           /\ Opens(source, Partitions[p].at, "HFS0") =>
                /\ DOMAIN FilesOf(p) = DOMAIN Given[p].files
                /\ \A j \in DOMAIN Given[p].files :
                     /\ FilesOf(p)[j].name = Given[p].files[j].name
                     /\ FilesOf(p)[j].at \in Nat
                     /\ FilesOf(p)[j].size = Len(Given[p].files[j].bytes)
                     /\ Readable(source, FilesOf(p)[j]) =>
                          Bytes(source, FilesOf(p)[j]) = Given[p].files[j].bytes
  BY DEF Lists, Partitions, FilesOf
<1>3. Len(source) \in Nat
  BY <1>2 DEF IsList
<1>4. RootAt(source) \in Nat \ {0} /\ RootAt(source) < Len(source)
  BY <1>2, <1>3
<1>5. ASSUME NEW p \in DOMAIN parts
      PROVE  /\ Partitions[p].name = parts[p].name
             /\ Trims(p) => packing \/ FilesOf(p) = << >>
             /\ Trims(p) => ~Kept(p) \/ parts[p].files = << >>
             /\ ~Trims(p) =>
                  /\ Kept(p) /\ DOMAIN FilesOf(p) = DOMAIN parts[p].files
                  /\ \A j \in DOMAIN parts[p].files : ReadAs(FilesOf(p)[j], parts[p].files[j])
  <2>1. Partitions[p].name = parts[p].name
    BY <1>1, <1>2
  <2>2. Dropped(p) <=> ~Kept(p)
    BY <2>1 DEF Dropped, Kept
  <2>3. ~(packing /\ Dropped(p)) => Opens(source, Partitions[p].at, "HFS0")
    BY <1>1, <1>2 DEF OpensImage
  <2>4. ASSUME packing
        PROVE  /\ Trims(p) <=> ~Kept(p)
               /\ ~Trims(p) =>
                    /\ DOMAIN FilesOf(p) = DOMAIN parts[p].files
                    /\ \A j \in DOMAIN parts[p].files : ReadAs(FilesOf(p)[j], parts[p].files[j])
    <3>1. Trims(p) <=> ~Kept(p)
      BY <2>2, <2>4 DEF Trims
    <3>2. ASSUME ~Trims(p)
          PROVE  /\ DOMAIN FilesOf(p) = DOMAIN parts[p].files
                 /\ \A j \in DOMAIN parts[p].files : ReadAs(FilesOf(p)[j], parts[p].files[j])
      <4>1. Opens(source, Partitions[p].at, "HFS0")
        BY <2>2, <2>3, <3>1, <3>2
      <4>2. Given[p].files = Contents(parts[p].files)
        BY <2>4, WholePoint DEF Given
      <4>3. DOMAIN FilesOf(p) = DOMAIN parts[p].files
        BY <1>1, <1>2, <4>1, <4>2, ContentsPoint
      <4>4. ASSUME NEW j \in DOMAIN parts[p].files
            PROVE  ReadAs(FilesOf(p)[j], parts[p].files[j])
        <5> DEFINE e == FilesOf(p)[j]
                   f == parts[p].files[j]
                   d == Given[p].files[j]
        <5>1. d = [name |-> f.name, bytes |-> Data(f.content, f.size)]
          BY <4>2, ContentsPoint
        <5>2. d.name = NameIn(f) /\ d.bytes = BytesIn(f)
          <6> HIDE DEF d, f
          <6>1. QED
            BY <2>4, <5>1 DEF NameIn, BytesIn
        <5>3. j \in DOMAIN Given[p].files
          BY <4>2, ContentsPoint
        <5>4. /\ e.name = d.name /\ e.at \in Nat /\ e.size = Len(d.bytes)
              /\ Readable(source, e) => Bytes(source, e) = d.bytes
          BY <1>1, <1>2, <4>1, <5>3
        <5> HIDE DEF d, e, f
        <5>5. ReadAs(e, f)
          BY <5>2, <5>4 DEF ReadAs
        <5>6. QED
          BY <5>5 DEF e, f
      <4>5. QED
        BY <4>3, <4>4
    <3>3. QED
      BY <3>1, <3>2
  <2>5. ASSUME ~packing
        PROVE  /\ Trims(p) => FilesOf(p) = << >>
               /\ Trims(p) => ~Kept(p) \/ parts[p].files = << >>
               /\ ~Trims(p) =>
                    /\ Kept(p) /\ DOMAIN FilesOf(p) = DOMAIN parts[p].files
                    /\ \A j \in DOMAIN parts[p].files : ReadAs(FilesOf(p)[j], parts[p].files[j])
    <3>1. Trims(p) <=> FilesOf(p) = << >>
      BY <2>5 DEF Trims
    <3>2. Opens(source, Partitions[p].at, "HFS0")
      BY <2>3, <2>5
    <3>3. /\ DOMAIN FilesOf(p) = DOMAIN Given[p].files
          /\ \A j \in DOMAIN Given[p].files :
               /\ FilesOf(p)[j].name = Given[p].files[j].name
               /\ FilesOf(p)[j].at \in Nat
               /\ FilesOf(p)[j].size = Len(Given[p].files[j].bytes)
               /\ Readable(source, FilesOf(p)[j]) =>
                    Bytes(source, FilesOf(p)[j]) = Given[p].files[j].bytes
      BY <1>1, <1>2, <3>2
    <3>4. Given = Compressed(Plain(parts))
      BY <2>5 DEF Given
    <3>5. ASSUME ~Kept(p)
          PROVE  Trims(p)
      <4>1. Given[p].files = << >>
        BY <3>4, <3>5, CompressedPoint
      <4>2. DOMAIN FilesOf(p) = {}
        BY <3>3, <4>1
      <4>3. FilesOf(p) = << >>
        BY <4>2, NoEntries DEF FilesOf
      <4>4. QED
        BY <3>1, <4>3
    <3>6. ASSUME Kept(p)
          PROVE  /\ DOMAIN Given[p].files = DOMAIN parts[p].files
                 /\ \A j \in DOMAIN parts[p].files : Given[p].files[j] = Packed(parts[p].files[j])
      BY <3>4, <3>6, CompressedPoint
    <3>7. ASSUME Trims(p), Kept(p)
          PROVE  parts[p].files = << >>
      <4>1. DOMAIN parts[p].files = {}
        BY <3>1, <3>3, <3>6, <3>7
      <4>2. parts[p].files = [j \in 1..Len(parts[p].files) |-> parts[p].files[j]]
            /\ DOMAIN parts[p].files = 1..Len(parts[p].files)
        BY CardLists DEF IsList
      <4> DEFINE fs == parts[p].files
      <4> HIDE DEF fs
      <4>3. fs = [j \in {} |-> fs[j]]
        BY <4>1, <4>2 DEF fs
      <4>4. fs = << >>
        BY <4>3
      <4>5. QED
        BY <4>4 DEF fs
    <3>8. ASSUME Kept(p), NEW j \in DOMAIN parts[p].files
          PROVE  ReadAs(FilesOf(p)[j], parts[p].files[j])
      <4> DEFINE e == FilesOf(p)[j]
                 f == parts[p].files[j]
                 d == Given[p].files[j]
      <4>1. d = Packed(f) /\ j \in DOMAIN Given[p].files
        BY <3>6, <3>8
      <4>2. /\ e.name = d.name /\ e.at \in Nat /\ e.size = Len(d.bytes)
            /\ Readable(source, e) => Bytes(source, e) = d.bytes
        BY <3>3, <4>1
      <4> HIDE DEF e, f, d
      <4>3. ReadAs(e, f)
        BY <2>5, <4>1, <4>2 DEF ReadAs, NameIn, BytesIn
      <4>4. QED
        BY <4>3 DEF e, f
    <3>9. QED
      BY <3>1, <3>3, <3>5, <3>6, <3>7, <3>8
  <2>6. QED
    BY <2>1, <2>2, <2>4, <2>5
<1>6. QED
  BY <1>1, <1>2, <1>4, <1>5

\* What Ncz makes of a whole member.
LEMMA Recoded ==
  ASSUME NEW content, NEW n \in Nat, n > 0, NEW c, content[2] = c,
         n = IF packing THEN card.raw[c] ELSE card.ncz[c]
  PROVE  Recode(Data(content, n)) =
           IF packing THEN Data(<<"ncz", c>>, card.ncz[c]) ELSE Data(<<"raw", c>>, card.raw[c])
<1> DEFINE b == Data(content, n)
<1>1. b[1] = <<"data", content, 1>>
  <2>1. 1 \in 1..n
    OBVIOUS
  <2>2. QED
    BY <2>1, DataList
<1>2. <<"data", content, 1>>[2] = content
  OBVIOUS
<1>3. b[1][2] = content /\ b[1][2][2] = c
  BY <1>1, <1>2
<1>4. Recode(b) =
        IF b = Data(content, IF packing THEN card.raw[c] ELSE card.ncz[c])
        THEN Data(<<IF packing THEN "ncz" ELSE "raw", c>>,
                  IF packing THEN card.ncz[c] ELSE card.raw[c])
        ELSE Pads(IF packing THEN card.ncz[c] ELSE card.raw[c])
  BY <1>3 DEF Recode
<1>5. b = Data(content, IF packing THEN card.raw[c] ELSE card.ncz[c])
  OBVIOUS
<1>6. Recode(b) = Data(<<IF packing THEN "ncz" ELSE "raw", c>>,
                       IF packing THEN card.ncz[c] ELSE card.raw[c])
  BY <1>4, <1>5
<1>7. CASE packing
  BY <1>6, <1>7
<1>8. CASE ~packing
  BY <1>6, <1>8
<1>9. QED
  BY <1>7, <1>8

\* What a file is called and holds once it is converted.
NameOut(f) == IF packing THEN Packed(f).name ELSE f.name
BytesOut(f) == IF packing THEN Packed(f).bytes ELSE Data(f.content, f.size)

\* A file that can be read is converted into what is meant.
LEMMA OutputRight ==
  ASSUME card \in Cards, packing \in BOOLEAN, NEW p \in DOMAIN card.parts,
         NEW j \in DOMAIN card.parts[p].files, NEW f, f = card.parts[p].files[j],
         NEW e, ReadAs(e, f), Readable(source, e)
  PROVE  OutputName(e) = NameOut(f) /\ OutputBytes(e) = BytesOut(f)
<1>1. /\ f.size \in Nat /\ f.name = [stem |-> f.name.stem, ext |-> f.name.ext]
      /\ f.name.ext # "ncz" /\ MinNca \in Nat
      /\ Large(f) => /\ f.content = <<"raw", f.content[2]>>
                     /\ f.size = card.raw[f.content[2]] /\ f.size > 0
                     /\ card.ncz[f.content[2]] \in Nat \ {0}
  <2>1. f = card.parts[p].files[j]
    OBVIOUS
  <2>2. QED
    BY <2>1, CardFile, ZenonT(60)
<1>2. /\ Large(f) => /\ Packed(f).name = [f.name EXCEPT !.ext = "ncz"]
                     /\ Packed(f).bytes = Data(<<"ncz", f.content[2]>>, card.ncz[f.content[2]])
      /\ ~Large(f) => Packed(f).name = f.name /\ Packed(f).bytes = Data(f.content, f.size)
  BY PackedPoint
<1>3. /\ e.size = Len(BytesIn(f)) /\ e.name = NameIn(f) /\ Bytes(source, e) = BytesIn(f)
  BY DEF ReadAs
<1>4. CASE packing
  <2>1. e.size = f.size /\ e.name = f.name /\ Bytes(source, e) = Data(f.content, f.size)
    BY <1>1, <1>3, <1>4, DataList DEF BytesIn, NameIn
  <2>2. Converts(e) <=> Large(f)
    BY <1>4, <2>1 DEF Converts, Large
  <2>3. ASSUME Large(f)
        PROVE  OutputBytes(e) = Packed(f).bytes /\ OutputName(e) = Packed(f).name
    <3>1. Recode(Data(f.content, f.size)) = Data(<<"ncz", f.content[2]>>, card.ncz[f.content[2]])
      BY <1>1, <1>4, <2>3, Recoded
    <3>2. OutputName(e) = [e.name EXCEPT !.ext = "ncz"]
      BY <1>4, <2>2, <2>3 DEF OutputName
    <3>3. OutputBytes(e) = Recode(Bytes(source, e))
      BY <2>2, <2>3 DEF OutputBytes
    <3>4. QED
      BY <1>2, <2>1, <2>3, <3>1, <3>2, <3>3
  <2>4. ASSUME ~Large(f)
        PROVE  OutputBytes(e) = Packed(f).bytes /\ OutputName(e) = Packed(f).name
    BY <1>2, <2>1, <2>2, <2>4 DEF OutputName, OutputBytes
  <2>5. QED
    BY <1>4, <2>3, <2>4 DEF NameOut, BytesOut
<1>5. CASE ~packing
  <2>1. e.name = Packed(f).name /\ Bytes(source, e) = Packed(f).bytes
    BY <1>3, <1>5 DEF BytesIn, NameIn
  <2>2. ASSUME Large(f)
        PROVE  OutputBytes(e) = Data(f.content, f.size) /\ OutputName(e) = f.name
    <3> DEFINE s == f.name.stem
               c == f.content[2]
    <3>1. f.name = [stem |-> s, ext |-> "nca"] /\ f.name.ext = "nca"
      BY <1>1, <2>2 DEF Large
    <3>2. e.name = [f.name EXCEPT !.ext = "ncz"]
      BY <1>2, <2>1, <2>2
    <3> HIDE DEF s, c
    <3>3. e.name = [stem |-> s, ext |-> "ncz"]
      BY <3>1, <3>2
    <3>4. e.name.ext = "ncz" /\ [e.name EXCEPT !.ext = "nca"] = [stem |-> s, ext |-> "nca"]
      BY <3>3
    <3>5. Converts(e)
      BY <1>5, <3>4 DEF Converts
    <3>6. Recode(Data(<<"ncz", c>>, card.ncz[c])) = Data(<<"raw", c>>, card.raw[c])
      <4> DEFINE content == <<"ncz", c>>
      <4>1. content[2] = c
        OBVIOUS
      <4>2. card.ncz[c] \in Nat /\ card.ncz[c] > 0
        <5>1. card.ncz[c] \in Nat \ {0}
          BY <1>1, <2>2 DEF c
        <5>2. QED
          BY <5>1
      <4> HIDE DEF content
      <4>3. Recode(Data(content, card.ncz[c])) = Data(<<"raw", c>>, card.raw[c])
        BY <1>5, <4>1, <4>2, Recoded
      <4>4. QED
        BY <4>3 DEF content
    <3>7. OutputBytes(e) = Recode(Bytes(source, e))
      BY <3>5 DEF OutputBytes
    <3>8. OutputName(e) = [e.name EXCEPT !.ext = "nca"]
      BY <1>5, <3>5 DEF OutputName
    <3>9. Bytes(source, e) = Data(<<"ncz", c>>, card.ncz[c])
      BY <1>2, <2>1, <2>2 DEF c
    <3>10. Data(f.content, f.size) = Data(<<"raw", c>>, card.raw[c])
      <4>1. f.content = <<"raw", c>> /\ f.size = card.raw[c]
        BY <1>1, <2>2 DEF c
      <4>2. QED
        BY <4>1
    <3>11. OutputBytes(e) = Data(f.content, f.size)
      BY <3>6, <3>7, <3>9, <3>10
    <3>12. QED
      BY <3>1, <3>4, <3>8, <3>11
  <2>3. ASSUME ~Large(f)
        PROVE  OutputBytes(e) = Data(f.content, f.size) /\ OutputName(e) = f.name
    <3>1. e.name = f.name /\ Bytes(source, e) = Data(f.content, f.size)
      BY <1>2, <2>1, <2>3
    <3>2. ~Converts(e)
      BY <1>1, <1>5, <3>1 DEF Converts
    <3>3. QED
      BY <3>1, <3>2 DEF OutputName, OutputBytes
  <2>4. QED
    BY <1>5, <2>2, <2>3 DEF NameOut, BytesOut
<1>6. QED
  BY <1>4, <1>5

\* What is meant, file by file.
LEMMA MeantPoint ==
  ASSUME card \in Cards, packing \in BOOLEAN
  PROVE  /\ DOMAIN Meant = DOMAIN card.parts
         /\ \A p \in DOMAIN card.parts :
              /\ Meant[p].name = card.parts[p].name
              /\ Meant[p] = [name |-> Meant[p].name, files |-> Meant[p].files]
              /\ FilesType(Meant[p].files)
              /\ ~Kept(p) \/ card.parts[p].files = << >> => Meant[p].files = << >>
              /\ Kept(p) =>
                   /\ DOMAIN Meant[p].files = DOMAIN card.parts[p].files
                   /\ \A j \in DOMAIN card.parts[p].files :
                        Meant[p].files[j] = [name |-> NameOut(card.parts[p].files[j]),
                                             bytes |-> BytesOut(card.parts[p].files[j])]
<1> DEFINE parts == card.parts
           C == Compressed(Plain(parts))
<1>0. ASSUME NEW ds, FilesType(ds), DOMAIN ds = {}
      PROVE  ds = << >>
  <2>1. ds = [j \in 1..Len(ds) |-> ds[j]] /\ DOMAIN ds = 1..Len(ds)
    BY <1>0 DEF FilesType, IsList
  <2>2. ds = [j \in {} |-> ds[j]]
    BY <1>0, <2>1
  <2>3. QED
    BY <2>2
<1>1. CASE packing
  <2>1. Meant = C
    BY <1>1 DEF Meant
  <2>2. DOMAIN C = DOMAIN parts
    BY CompressedPoint
  <2>3. ASSUME NEW p \in DOMAIN parts
        PROVE  C[p] = [name |-> C[p].name, files |-> C[p].files]
    <3> DEFINE F == [j \in DOMAIN Plain(parts)[p].files |->
                       LET d == Plain(parts)[p].files[j]
                       IN IF ~Compressible(d) THEN d
                          ELSE LET c == d.bytes[1][2][2]
                               IN [name |-> [d.name EXCEPT !.ext = "ncz"],
                                   bytes |-> Data(<<"ncz", c>>, card.ncz[c])]]
    <3>1. C[p] = [Plain(parts)[p] EXCEPT !.files = F]
      BY PlainPoint DEF Compressed
    <3> HIDE DEF F
    <3>2. Plain(parts)[p] = [name |-> Plain(parts)[p].name, files |-> Plain(parts)[p].files]
      BY DEF Plain
    <3> DEFINE q == Plain(parts)[p]
               r == C[p]
    <3>3. r = [q EXCEPT !.files = F] /\ q = [name |-> q.name, files |-> q.files]
      BY <3>1, <3>2
    <3> HIDE DEF q, r
    <3>4. r = [name |-> r.name, files |-> r.files]
      BY <3>3
    <3>5. QED
      BY <3>4 DEF r
  <2>4. ASSUME NEW p \in DOMAIN parts
        PROVE  /\ C[p].name = parts[p].name /\ FilesType(C[p].files)
               /\ ~Kept(p) => C[p].files = << >>
               /\ Kept(p) => DOMAIN C[p].files = DOMAIN parts[p].files
    BY CompressedPoint
  <2>5. ASSUME NEW p \in DOMAIN parts, Kept(p), NEW j \in DOMAIN parts[p].files
        PROVE  C[p].files[j] = [name |-> NameOut(parts[p].files[j]),
                                bytes |-> BytesOut(parts[p].files[j])]
    <3>1. C[p].files[j] = Packed(parts[p].files[j])
      BY <2>5, CompressedPoint
    <3> DEFINE f == parts[p].files[j]
    <3> HIDE DEF f
    <3>2. Packed(f) = [name |-> Packed(f).name, bytes |-> Packed(f).bytes]
      BY DEF Packed
    <3>3. QED
      BY <1>1, <3>1, <3>2 DEF NameOut, BytesOut, f
  <2>6. ASSUME NEW p \in DOMAIN parts, parts[p].files = << >>
        PROVE  C[p].files = << >>
    <3>1. CASE Kept(p)
      <4>1. DOMAIN C[p].files = {}
        BY <2>4, <2>6, <3>1
      <4>2. QED
        BY <1>0, <2>4, <4>1
    <3>2. QED
      BY <2>4, <3>1
  <2> HIDE DEF C
  <2>7. QED
    BY <2>1, <2>2, <2>3, <2>4, <2>5, <2>6
<1>2. CASE ~packing
  <2> DEFINE P == Plain(parts)
  <2>1. Meant = P
    BY <1>2 DEF Meant
  <2>2. /\ DOMAIN P = DOMAIN parts
        /\ \A p \in DOMAIN parts : P[p] = [name |-> P[p].name, files |-> P[p].files]
    BY DEF Plain
  <2>3. \A p \in DOMAIN parts :
          /\ P[p].name = parts[p].name
          /\ Kept(p) => P[p].files = Contents(parts[p].files)
          /\ ~Kept(p) => P[p].files = << >>
    BY PlainPoint
  <2> HIDE DEF P
  <2>4. ASSUME NEW p \in DOMAIN parts
        PROVE  FilesType(P[p].files)
    <3>1. CASE Kept(p)
      BY <2>3, <3>1, ContentsPoint
    <3>2. CASE ~Kept(p)
      <4>1. P[p].files = << >>
        BY <2>3, <3>2
      <4>2. QED
        BY <4>1 DEF FilesType, IsList
    <3>3. QED
      BY <3>1, <3>2
  <2>5. ASSUME NEW p \in DOMAIN parts, Kept(p)
        PROVE  /\ DOMAIN P[p].files = DOMAIN parts[p].files
               /\ \A j \in DOMAIN parts[p].files :
                    P[p].files[j] = [name |-> NameOut(parts[p].files[j]),
                                     bytes |-> BytesOut(parts[p].files[j])]
    <3>1. P[p].files = Contents(parts[p].files)
      BY <2>3, <2>5
    <3>2. QED
      BY <1>2, <3>1, ContentsPoint DEF NameOut, BytesOut
  <2>6. ASSUME NEW p \in DOMAIN parts, parts[p].files = << >>
        PROVE  P[p].files = << >>
    <3>1. CASE Kept(p)
      <4>1. DOMAIN P[p].files = {}
        BY <2>5, <2>6, <3>1
      <4>2. QED
        BY <1>0, <2>4, <4>1
    <3>2. QED
      BY <2>3, <3>1
  <2>7. QED
    BY <2>1, <2>2, <2>3, <2>4, <2>5, <2>6
<1>3. QED
  BY <1>1, <1>2

-----------------------------------------------------------------------------
\* An entry of the root and the partition it stands for.
EntryOK(f, root, end, e, d) ==
  /\ e.name = d.name /\ e.offset \in Nat /\ e.size \in Nat
  /\ Reserved + e.offset + e.size <= end
  /\ PartAt(f, root + Reserved + e.offset, e.size, d.files)

\* The image so far: the partitions done are behind the space for the root header,
\* each where its entry says.
RootOK ==
  /\ IsList(target) /\ Len(target) >= RootAt(source) /\ target[1] = source[1]
  /\ addPos \in Nat /\ Reserved <= addPos
  /\ IsList(rootEntries) /\ part = Len(rootEntries) + 1 /\ part <= Len(card.parts) + 1
  /\ \A p \in 1..Len(rootEntries) :
       EntryOK(target, RootAt(source), addPos, rootEntries[p], Meant[p])

\* The partition at hand: its files so far, behind the space for its header.
NestedOK ==
  /\ part \in DOMAIN card.parts /\ ~Trimmed
  /\ nested = [start |-> nested.start, actual |-> nested.actual,
               entries |-> nested.entries, next |-> nested.next]
  /\ nested.start = RootAt(source) + addPos
  /\ nested.actual \in Nat /\ Reserved <= nested.actual
  /\ IsList(nested.entries) /\ nested.next = Len(nested.entries) + 1
  /\ nested.next <= Len(card.parts[part].files) + 1
  /\ \A j \in 1..Len(nested.entries) :
       /\ FileAt(target, nested.start + Reserved, nested.entries[j], Meant[part].files[j])
       /\ Reserved + nested.entries[j].offset + nested.entries[j].size <= nested.actual

\* The image converted opens and lists what it is to list.
SourceOK == Lists(source, Given) /\ OpensImage

\* The invariant: what the image converted lists, what the one made of it holds so
\* far, and what it lists once it is complete.
XczInv ==
  /\ packing \in BOOLEAN
  /\ xcz \in {"idle", "head", "parts", "files", "packed", "done", "failed"}
  /\ xcz # "idle" => card \in Cards
  /\ xcz = "head" => /\ OpensXci(source) => Lists(source, Given)
                     /\ rootEntries = << >> /\ part = 1
  /\ xcz \in {"parts", "files"} => SourceOK /\ RootOK
  /\ xcz = "parts" => pos = RootAt(source) + addPos
  /\ xcz = "files" => NestedOK
  /\ xcz = "packed" => packing /\ Lists(target, Meant) /\ Listing(target) = Meant
  /\ xcz = "done" => ~packing /\ Listing(target) = Meant

\* What is meant stays so as long as the image converted does.
LEMMA MeantKept ==
  ASSUME UNCHANGED <<card, packing, source>>
  PROVE  /\ Meant' = Meant /\ Given' = Given /\ Partitions' = Partitions
         /\ SourceOK => SourceOK'
         /\ Trims(part)' <=> Trims(part')
         /\ \A p : FilesOf(p)' = FilesOf(p) /\ (Trims(p)' <=> Trims(p))
<1>1. /\ Plain(card.parts)' = Plain(card.parts) /\ Whole(card.parts)' = Whole(card.parts)
      /\ Compressed(Plain(card.parts))' = Compressed(Plain(card.parts))
  BY DEF Plain, Whole, Compressed
<1>2. Meant' = Meant /\ Given' = Given
  BY <1>1 DEF Meant, Given
<1>3. Partitions' = Partitions
  BY DEF Partitions
<1>4. \A p : FilesOf(p)' = FilesOf(p) /\ (Dropped(p)' <=> Dropped(p))
  BY <1>3 DEF FilesOf, Dropped
<1>5. \A p : Trims(p)' <=> Trims(p)
  BY <1>4 DEF Trims
<1>6. Trims(part)' <=> Trims(part')
  BY <1>3 DEF Trims, FilesOf, Dropped
<1>7. SourceOK => SourceOK'
  <2>1. OpensImage => OpensImage'
    BY <1>3, <1>4 DEF OpensImage
  <2>2. Lists(source, Given) => Lists(source, Given)'
    BY <1>2 DEF Lists
  <2>3. QED
    BY <2>1, <2>2 DEF SourceOK
<1>8. QED
  BY <1>2, <1>3, <1>4, <1>5, <1>6, <1>7

\* The first step: the headers are copied.
LEMMA CopyHeadStep ==
  ASSUME XczInv, CopyHead
  PROVE  XczInv'
<1>1. /\ xcz = "head" /\ OpensImage /\ xcz' = "parts" /\ card \in Cards
      /\ target' = Slice(source, 0, RootAt(source))
      /\ pos' = RootAt(source) + Reserved /\ addPos' = Reserved
      /\ UNCHANGED <<card, packing, source, rootEntries, part, nested>>
      /\ packing \in BOOLEAN /\ rootEntries = << >> /\ part = 1
  BY DEF XczInv, CopyHead
<1>2. Lists(source, Given)
  BY <1>1 DEF XczInv, OpensImage
<1>3. SourceOK' /\ Meant' = Meant
  BY <1>1, <1>2, MeantKept DEF SourceOK
<1>4. RootAt(source) \in Nat \ {0} /\ RootAt(source) < Len(source) /\ IsList(source)
  BY <1>1, <1>2, SourceKnown
<1>5. IsList(target') /\ Len(target') = RootAt(source) /\ target'[1] = source[1]
  <2> DEFINE R == RootAt(source)
  <2>1. Len(source) \in Nat
    BY <1>4 DEF IsList
  <2>2. target' = SubSeq(source, 1, R)
    BY <1>1, <1>4 DEF Slice
  <2>3. R \in Nat /\ 1 <= R /\ R <= Len(source)
    BY <1>4, <2>1
  <2> HIDE DEF R
  <2>4. /\ IsList(SubSeq(source, 1, R)) /\ Len(SubSeq(source, 1, R)) = R
        /\ \A k \in 1..Len(SubSeq(source, 1, R)) : SubSeq(source, 1, R)[k] = source[1 + k - 1]
    <3>1. 1 \in Nat /\ 1 <= 1 /\ R - 1 + 1 = R
      BY <2>3
    <3>2. QED
      BY <1>4, <2>3, <3>1, PartList
  <2>5. QED
    BY <2>2, <2>3, <2>4 DEF R
<1>6. Reserved \in Nat
  BY CardAssumption
<1>7. RootAt(source)' = RootAt(source)
  BY <1>1 DEF RootAt
<1>8. RootOK'
  <2>1. IsList(<< >>) /\ Len(<< >>) = 0
    BY DEF IsList
  <2>2. Len(card.parts) \in Nat
    BY <1>1, CardLists
  <2>3. rootEntries' = << >> /\ part' = 1 /\ addPos' = Reserved
    BY <1>1
  <2>4. part' <= Len(card.parts)' + 1
    BY <1>1, <2>2
  <2>5. IsList(target)' /\ Len(target)' >= RootAt(source)' /\ (target[1] = source[1])'
    BY <1>1, <1>4, <1>5, <1>7 DEF IsList
  <2>6. IsList(rootEntries)' /\ part' = Len(rootEntries)' + 1
    BY <2>1, <2>3 DEF IsList
  <2>7. \A p \in 1..Len(rootEntries)' : FALSE
    BY <2>1, <2>3
  <2>8. QED
    BY <1>6, <2>3, <2>4, <2>5, <2>6, <2>7 DEF RootOK
<1>9. QED
  BY <1>1, <1>3, <1>6, <1>7, <1>8 DEF XczInv

\* What is known of the image converted while another is made of it.
LEMMA Sizes ==
  ASSUME XczInv, xcz \in {"parts", "files"}
  PROVE  /\ card \in Cards /\ packing \in BOOLEAN /\ SourceOK /\ RootOK
         /\ RootAt(source) \in Nat \ {0} /\ addPos \in Nat /\ Reserved \in Nat
         /\ Reserved <= addPos /\ MediaUnit \in Nat \ {0}
         /\ IsList(target) /\ Len(target) \in Nat /\ Len(target) >= RootAt(source)
         /\ Len(card.parts) \in Nat /\ DOMAIN card.parts = 1..Len(card.parts)
         /\ DOMAIN Partitions = 1..Len(card.parts) /\ Len(Partitions) = Len(card.parts)
         /\ Len(rootEntries) \in Nat /\ IsList(rootEntries) /\ part = Len(rootEntries) + 1
<1>1. card \in Cards /\ packing \in BOOLEAN /\ SourceOK /\ RootOK
  BY DEF XczInv
<1>2. RootAt(source) \in Nat \ {0} /\ DOMAIN Partitions = DOMAIN card.parts
  BY <1>1, SourceKnown DEF SourceOK
<1>3. Len(card.parts) \in Nat /\ DOMAIN card.parts = 1..Len(card.parts)
  BY <1>1, CardLists
<1>4. Len(Partitions) = Len(card.parts)
  <2> DEFINE n == Len(card.parts)
             P == Partitions
  <2>1. P = [p \in 1..n |-> P[p]] /\ n \in Nat
    <3>1. P = [i \in 1..source[RootAt(source) + 1][2] |-> P[i]]
      BY DEF Partitions, Entries
    <3> HIDE DEF P
    <3>2. DOMAIN P = 1..n
      BY <1>2, <1>3 DEF P
    <3>3. QED
      BY <1>3, <3>1, <3>2
  <2> HIDE DEF P, n
  <2>2. Len(P) = n
    BY <2>1, FunctionList
  <2>3. QED
    BY <2>2 DEF P, n
<1>5. /\ addPos \in Nat /\ Reserved <= addPos
      /\ IsList(target) /\ Len(target) >= RootAt(source)
      /\ IsList(rootEntries) /\ part = Len(rootEntries) + 1
  BY <1>1 DEF RootOK
<1>6. Len(target) \in Nat /\ Len(rootEntries) \in Nat
  BY <1>5 DEF IsList
<1>7. QED
  BY <1>1, <1>2, <1>3, <1>4, <1>5, <1>6, CardAssumption

\* The entries keep telling the truth when what is written lies outside of the
\* partitions done.
LEMMA EntriesKept ==
  ASSUME XczInv, xcz \in {"parts", "files"}, NEW g, IsList(g), Len(target) <= Len(g),
         NEW end \in Nat, addPos <= end,
         Same(target, g, RootAt(source) + Reserved, RootAt(source) + addPos),
         NEW p \in 1..Len(rootEntries)
  PROVE  EntryOK(g, RootAt(source), end, rootEntries[p], Meant[p])
<1> DEFINE e == rootEntries[p]
           o == e.offset
           z == e.size
           ds == Meant[p].files
           at == RootAt(source) + Reserved + o
<1>1. EntryOK(target, RootAt(source), addPos, e, Meant[p])
  BY Sizes DEF RootOK
<1>2. /\ e.name = Meant[p].name /\ o \in Nat /\ z \in Nat /\ Reserved + o + z <= addPos
      /\ PartAt(target, at, z, ds)
  BY <1>1 DEF EntryOK
<1>3. p \in DOMAIN card.parts
  BY Sizes DEF RootOK
<1>4. FilesType(ds)
  BY <1>3, Sizes, MeantPoint
<1>6. /\ RootAt(source) \in Nat /\ addPos \in Nat /\ Reserved \in Nat /\ IsList(target)
  BY Sizes
<1> HIDE DEF o, z, ds
<1>7. at \in Nat
  BY <1>2, <1>6, SMTT(30)
<1>8. Same(target, g, at, at + z)
  <2>1. ASSUME NEW k \in (at + 1)..(at + z)
        PROVE  k \in (RootAt(source) + Reserved + 1)..(RootAt(source) + addPos)
    <3> DEFINE r == RootAt(source)
    <3>1. r \in Nat /\ addPos \in Nat /\ Reserved \in Nat /\ o \in Nat /\ z \in Nat
          /\ Reserved + o + z <= addPos /\ at = r + Reserved + o /\ k \in (at + 1)..(at + z)
      BY <1>2, <1>6
    <3> HIDE DEF r, at
    <3>2. k \in Int /\ at + 1 <= k /\ k <= at + z /\ at \in Nat
      BY <3>1
    <3>3. r + Reserved + 1 <= k /\ k <= r + addPos
      BY <3>1, <3>2
    <3>4. QED
      BY <3>1, <3>2, <3>3 DEF r
  <2> HIDE DEF at
  <2>2. QED
    BY <2>1 DEF Same
<1> HIDE DEF at
<1>9. PartAt(g, at, z, ds)
  BY <1>2, <1>4, <1>6, <1>7, <1>8, PartKept
<1>10. Reserved + o + z <= end
  BY <1>2, <1>6
<1>11. QED
  BY <1>2, <1>9, <1>10 DEF EntryOK, e, o, z, ds, at

\* One partition more.
LEMMA RootGrows ==
  ASSUME XczInv, xcz \in {"parts", "files"}, UNCHANGED <<card, packing, source>>,
         IsList(target'), Len(target) <= Len(target'), NEW size \in Nat,
         addPos' = addPos + size, part' = part + 1, part \in DOMAIN card.parts,
         rootEntries' = Append(rootEntries, RootEntry(size)),
         Same(target, target', 0, RootAt(source) + addPos),
         PartAt(target', RootAt(source) + addPos, size, Meant[part].files)
  PROVE  RootOK'
<1> DEFINE n == Len(rootEntries)
           R == RootAt(source)
<1>1. /\ card \in Cards /\ packing \in BOOLEAN /\ SourceOK
      /\ R \in Nat \ {0} /\ addPos \in Nat /\ Reserved \in Nat /\ Reserved <= addPos
      /\ IsList(target) /\ Len(target) \in Nat /\ Len(target) >= R
      /\ Len(card.parts) \in Nat /\ DOMAIN card.parts = 1..Len(card.parts)
      /\ n \in Nat /\ IsList(rootEntries) /\ part = n + 1
  BY Sizes
<1>2. Meant' = Meant /\ R' = R
  BY MeantKept DEF RootAt
<1>3. /\ IsList(rootEntries') /\ Len(rootEntries') = n + 1
      /\ \A k \in 1..n : rootEntries'[k] = rootEntries[k]
      /\ rootEntries'[n + 1] = RootEntry(size)
  BY <1>1, LongerList
<1>4. ASSUME NEW p \in 1..n
      PROVE  EntryOK(target', R, addPos', rootEntries'[p], Meant[p])
  <2>1. Same(target, target', R + Reserved, R + addPos)
    BY <1>1 DEF Same
  <2>2. addPos' \in Nat /\ addPos <= addPos'
    BY <1>1
  <2>3. EntryOK(target', R, addPos', rootEntries[p], Meant[p])
    BY <2>1, <2>2, EntriesKept
  <2>4. QED
    BY <1>3, <2>3
<1>5. EntryOK(target', R, addPos', rootEntries'[n + 1], Meant[n + 1])
  <2> DEFINE e == RootEntry(size)
  <2>1. e.name = Partitions[part].name /\ e.size = size /\ e.offset = addPos - Reserved
    BY DEF RootEntry
  <2>2. Partitions[part].name = Meant[part].name
    BY <1>1, SourceKnown, MeantPoint DEF SourceOK
  <2> HIDE DEF e, R
  <2>3. e.offset \in Nat /\ Reserved + e.offset + e.size = addPos + size
        /\ R + Reserved + e.offset = R + addPos
    BY <1>1, <2>1
  <2>4. PartAt(target', R + Reserved + e.offset, e.size, Meant[n + 1].files)
    BY <1>1, <2>1, <2>3 DEF R
  <2>5. Reserved + e.offset + e.size <= addPos'
    BY <1>1, <2>3
  <2>6. e.name = Meant[n + 1].name
    BY <1>1, <2>1, <2>2
  <2>7. rootEntries'[n + 1] = e
    BY <1>3 DEF e
  <2>8. QED
    BY <2>1, <2>3, <2>4, <2>5, <2>6, <2>7 DEF EntryOK
<1>6. target'[1] = source[1] /\ Len(target') >= R
  <2>1. 1 \in (0 + 1)..(R + addPos) /\ 1 <= Len(target)
    BY <1>1
  <2>2. target'[1] = target[1]
    BY <2>1 DEF Same
  <2>3. target[1] = source[1]
    BY Sizes DEF RootOK
  <2>4. Len(target') \in Nat
    BY DEF IsList
  <2>5. QED
    BY <1>1, <2>2, <2>3, <2>4
<1>7. addPos' \in Nat /\ Reserved <= addPos' /\ part' = Len(rootEntries') + 1
      /\ part' <= Len(card.parts) + 1
  BY <1>1, <1>3
<1>8. ASSUME NEW p \in 1..Len(rootEntries')
      PROVE  EntryOK(target', R, addPos', rootEntries'[p], Meant[p])
  <2>1. p \in 1..n \/ p = n + 1
    BY <1>1, <1>3
  <2>2. CASE p \in 1..n
    BY <1>4, <2>2
  <2>3. CASE p = n + 1
    BY <1>5, <2>3
  <2>4. QED
    BY <2>1, <2>2, <2>3
<1>9. QED
  BY <1>2, <1>3, <1>6, <1>7, <1>8 DEF RootOK

\* Back among the partitions.
LEMMA NextPartition ==
  ASSUME XczInv, xcz \in {"parts", "files"}, UNCHANGED <<card, packing, source>>,
         RootOK', xcz' = "parts", pos' = RootAt(source) + addPos'
  PROVE  XczInv'
<1>1. SourceOK' /\ RootAt(source)' = RootAt(source)
  BY Sizes, MeantKept DEF RootAt
<1>2. packing' \in BOOLEAN /\ card' \in Cards
  BY Sizes
<1>3. QED
  BY <1>1, <1>2 DEF XczInv

\* A partition is left out.
LEMMA TrimStep ==
  ASSUME XczInv, TrimPartition
  PROVE  XczInv'
<1> DEFINE R == RootAt(source)
           at == R + addPos
<1>1. /\ xcz = "parts" /\ part <= Len(Partitions) /\ Trimmed
      /\ target' = WriteAt(target, pos, Placeholder) /\ pos' = pos + MediaUnit
      /\ rootEntries' = Append(rootEntries, RootEntry(MediaUnit))
      /\ addPos' = addPos + MediaUnit /\ part' = part + 1
      /\ UNCHANGED <<card, packing, source>> /\ xcz' = "parts"
  BY DEF TrimPartition
<1>2. xcz \in {"parts", "files"}
  BY <1>1
<1>3. /\ card \in Cards /\ packing \in BOOLEAN /\ SourceOK
      /\ R \in Nat \ {0} /\ addPos \in Nat /\ Reserved \in Nat /\ Reserved <= addPos
      /\ MediaUnit \in Nat \ {0}
      /\ IsList(target) /\ Len(target) \in Nat
      /\ DOMAIN card.parts = 1..Len(card.parts) /\ Len(card.parts) \in Nat
      /\ Len(Partitions) = Len(card.parts)
      /\ Len(rootEntries) \in Nat /\ part = Len(rootEntries) + 1
  BY <1>2, Sizes
<1>4. pos = at /\ at \in Nat
  BY <1>1, <1>3 DEF XczInv
<1>5. part \in DOMAIN card.parts
  BY <1>1, <1>3
<1>6. Meant[part].files = << >>
  BY <1>1, <1>3, <1>5, SourceKnown, MeantPoint DEF SourceOK, Trimmed
<1>7. /\ IsList(Placeholder) /\ Len(Placeholder) = MediaUnit
      /\ Placeholder[1] = FixedHeader("HFS0", 0, 1)
  <2> DEFINE first == <<FixedHeader("HFS0", 0, 1)>>
             rest == Pads(MediaUnit - 1)
  <2>1. IsList(first) /\ Len(first) = 1 /\ first[1] = FixedHeader("HFS0", 0, 1)
    <3>1. first \in Seq({FixedHeader("HFS0", 0, 1)})
      OBVIOUS
    <3>2. QED
      BY <3>1, SeqList
  <2>2. IsList(rest) /\ Len(rest) = MediaUnit - 1
    <3>1. MediaUnit - 1 \in Int /\ MediaUnit - 1 >= 0
      BY <1>3
    <3>2. QED
      BY <3>1, PadsList
  <2>3. Placeholder = first \o rest
    BY DEF Placeholder
  <2> HIDE DEF first, rest
  <2>4. IsList(first) /\ IsList(rest)
    BY <2>1, <2>2
  <2> DEFINE w == first \o rest
  <2>5. /\ IsList(w) /\ Len(w) = Len(first) + Len(rest)
        /\ \A k \in 1..Len(first) : w[k] = first[k]
    BY <2>4, JoinedList
  <2>6. Placeholder = w
    BY <2>3
  <2> HIDE DEF w
  <2>7. Len(w) = MediaUnit /\ w[1] = FixedHeader("HFS0", 0, 1)
    <3>1. w[1] = first[1]
      BY <2>1, <2>5
    <3>2. 1 + (MediaUnit - 1) = MediaUnit
      BY <1>3
    <3>3. QED
      BY <2>1, <2>2, <2>5, <3>1, <3>2
  <2>8. QED
    BY <2>5, <2>6, <2>7
<1> HIDE DEF at
<1>8. target' = WriteAt(target, at, Placeholder)
  BY <1>1, <1>4
<1>9. /\ IsList(target') /\ Len(target') \in Nat /\ Len(target) <= Len(target')
      /\ Holds(target', at, Placeholder)
  BY <1>3, <1>4, <1>7, <1>8, WrittenTo
<1>10. Same(target, target', 0, at)
  BY <1>3, <1>4, <1>7, <1>8, WrittenTo
<1>11. PartAt(target', at, MediaUnit, Meant[part].files)
  <2>1. target'[at + 1] = FixedHeader("HFS0", 0, 1)
    <3>1. 1 \in 1..Len(Placeholder)
      BY <1>3, <1>7
    <3>2. QED
      BY <1>7, <1>9, <3>1 DEF Holds
  <2> DEFINE cells == <<FixedHeader("HFS0", 0, 1)>>
  <2>2. Len(cells) = 1 /\ cells[1] = FixedHeader("HFS0", 0, 1)
    OBVIOUS
  <2> HIDE DEF cells
  <2>3. at + 1 <= Len(target')
    BY <1>3, <1>4, <1>7, <1>9 DEF Holds
  <2>4. Holds(target', at, cells)
    BY <2>1, <2>2, <2>3 DEF Holds
  <2>5. QED
    BY <1>3, <1>6, <2>4 DEF PartAt, cells
<1>12. RootOK'
  <2>1. MediaUnit \in Nat
    BY <1>3
  <2>2. QED
    BY <1>1, <1>2, <1>5, <1>9, <1>10, <1>11, <2>1, RootGrows DEF at
<1>13. pos' = R + addPos'
  BY <1>1, <1>3, <1>4 DEF at
<1>14. QED
  BY <1>1, <1>2, <1>12, <1>13, NextPartition

\* The next partition is begun.
LEMMA BeginStep ==
  ASSUME XczInv, BeginPartition
  PROVE  XczInv'
<1>1. /\ xcz = "parts" /\ part <= Len(Partitions) /\ ~Trimmed /\ xcz' = "files"
      /\ nested' = [start |-> RootAt(source) + addPos, actual |-> Reserved,
                    entries |-> << >>, next |-> 1]
      /\ UNCHANGED <<card, packing, source, target, addPos, rootEntries, part>>
  BY DEF BeginPartition
<1>2. xcz \in {"parts", "files"}
  BY <1>1
<1>3. /\ card \in Cards /\ packing \in BOOLEAN /\ SourceOK /\ RootOK
      /\ Reserved \in Nat /\ Len(card.parts) \in Nat
      /\ DOMAIN card.parts = 1..Len(card.parts)
      /\ Len(Partitions) = Len(card.parts)
      /\ Len(rootEntries) \in Nat /\ part = Len(rootEntries) + 1
  BY <1>2, Sizes
<1>4. SourceOK' /\ Meant' = Meant /\ RootAt(source)' = RootAt(source)
      /\ (Trimmed' <=> Trimmed)
  <2>1. Trims(part)' <=> Trims(part')
    BY <1>1, MeantKept
  <2>2. QED
    BY <1>1, <1>3, <2>1, MeantKept DEF RootAt, Trimmed
<1>5. RootOK'
  BY <1>1, <1>3, <1>4 DEF RootOK
<1>6. NestedOK'
  <2>1. part \in DOMAIN card.parts
    BY <1>1, <1>3
  <2>2. /\ nested'.start = RootAt(source) + addPos /\ nested'.actual = Reserved
        /\ nested'.entries = << >> /\ nested'.next = 1
        /\ nested' = [start |-> nested'.start, actual |-> nested'.actual,
                      entries |-> nested'.entries, next |-> nested'.next]
    BY <1>1
  <2>3. IsList(<< >>) /\ Len(<< >>) = 0 /\ Len(card.parts[part].files) \in Nat
    BY <1>3, <2>1, CardLists DEF IsList
  <2>4. 1 <= Len(card.parts[part].files) + 1 /\ 1 = Len(<< >>) + 1 /\ Reserved <= Reserved
    BY <1>3, <2>3
  <2>5. \A j \in 1..Len(nested'.entries) : FALSE
    BY <2>2, <2>3
  <2>6. IsList(nested'.entries) /\ nested'.next = Len(nested'.entries) + 1
        /\ nested'.next <= Len(card.parts[part].files) + 1
    BY <2>2, <2>3, <2>4
  <2>7. QED
    BY <1>1, <1>3, <1>4, <2>1, <2>2, <2>4, <2>5, <2>6 DEF NestedOK
<1>7. QED
  BY <1>1, <1>3, <1>4, <1>5, <1>6 DEF XczInv

\* A file goes behind those there.
LEMMA AddStep ==
  ASSUME XczInv, AddFile
  PROVE  XczInv'
<1> DEFINE R == RootAt(source)
           bytes == OutputBytes(File)
           at == nested.start + nested.actual
           n == Len(nested.entries)
           j == nested.next
           e == [name |-> OutputName(File), size |-> Len(bytes),
                 offset |-> nested.actual - Reserved]
           f == card.parts[part].files[j]
<1>1. /\ xcz = "files" /\ nested.next <= Len(Files) /\ Readable(source, File)
      /\ target' = WriteAt(target, at, bytes)
      /\ nested' = [nested EXCEPT !.entries = Append(@, e),
                                  !.actual = at + Len(bytes) - nested.start,
                                  !.next = @ + 1]
      /\ UNCHANGED <<card, xcz, packing, source, addPos, rootEntries, part>>
  BY DEF AddFile
<1>2. xcz \in {"parts", "files"}
  BY <1>1
<1>3. /\ card \in Cards /\ packing \in BOOLEAN /\ SourceOK /\ RootOK
      /\ R \in Nat \ {0} /\ addPos \in Nat /\ Reserved \in Nat /\ Reserved <= addPos
      /\ IsList(target) /\ Len(target) \in Nat
      /\ Len(card.parts) \in Nat /\ DOMAIN card.parts = 1..Len(card.parts)
      /\ Len(rootEntries) \in Nat
  BY <1>2, Sizes
<1>4. NestedOK
  BY <1>1 DEF XczInv
<1>5. /\ part \in DOMAIN card.parts /\ ~Trims(part)
      /\ nested = [start |-> nested.start, actual |-> nested.actual,
                   entries |-> nested.entries, next |-> nested.next]
      /\ nested.start = R + addPos /\ nested.actual \in Nat /\ Reserved <= nested.actual
      /\ IsList(nested.entries) /\ j = n + 1
      /\ j <= Len(card.parts[part].files) + 1
      /\ \A k \in 1..n :
           /\ FileAt(target, nested.start + Reserved, nested.entries[k], Meant[part].files[k])
           /\ Reserved + nested.entries[k].offset + nested.entries[k].size <= nested.actual
  BY <1>4 DEF NestedOK, Trimmed
<1>6. /\ n \in Nat /\ at \in Nat /\ nested.start \in Nat
      /\ R + addPos <= at /\ nested.start + Reserved <= at /\ 1 <= at
      /\ nested.start + nested.actual = at
  BY <1>3, <1>5, SMTT(30) DEF IsList
<1>7. /\ Kept(part) /\ DOMAIN Files = DOMAIN card.parts[part].files
      /\ \A k \in DOMAIN card.parts[part].files : ReadAs(Files[k], card.parts[part].files[k])
  BY <1>3, <1>5, SourceKnown DEF SourceOK, Files
<1>8. Len(Files) = Len(card.parts[part].files) /\ j \in DOMAIN card.parts[part].files
  <2> DEFINE F == Files
             m == Len(card.parts[part].files)
  <2>1. m \in Nat /\ DOMAIN card.parts[part].files = 1..m
    BY <1>3, <1>5, CardLists
  <2>2. F = [i \in 1..m |-> F[i]]
    <3>1. F = [i \in DOMAIN F |-> F[i]]
      BY DEF Files, FilesOf, Entries
    <3> HIDE DEF F
    <3>2. DOMAIN F = 1..m
      BY <1>7, <2>1 DEF F
    <3>3. QED
      BY <3>1, <3>2
  <2> HIDE DEF F, m
  <2>3. Len(F) = m
    BY <2>1, <2>2, FunctionList
  <2>4. j <= m
    BY <1>1, <2>3 DEF F
  <2>5. QED
    BY <1>5, <1>6, <2>1, <2>3, <2>4 DEF F, m
<1>9. OutputName(File) = NameOut(f) /\ bytes = BytesOut(f)
  <2> DEFINE g == card.parts[part].files[j]
  <2>1. ReadAs(File, g)
    BY <1>7, <1>8 DEF File
  <2>2. g = card.parts[part].files[j]
    OBVIOUS
  <2> HIDE DEF g
  <2>3. OutputName(File) = NameOut(g) /\ OutputBytes(File) = BytesOut(g)
    BY <1>1, <1>3, <1>5, <1>8, <2>1, <2>2, OutputRight
  <2>4. QED
    BY <2>3 DEF g
<1>10. Meant[part].files[j] = [name |-> NameOut(f), bytes |-> BytesOut(f)]
       /\ FilesType(Meant[part].files) /\ DOMAIN Meant[part].files = DOMAIN card.parts[part].files
  BY <1>3, <1>5, <1>7, <1>8, MeantPoint
<1> HIDE DEF f, bytes, R
<1>11. IsList(bytes) /\ Len(bytes) \in Nat
  <2>1. j \in DOMAIN Meant[part].files
    BY <1>8, <1>10
  <2>2. DOMAIN Meant[part].files = 1..Len(Meant[part].files)
    BY <1>10 DEF FilesType, IsList
  <2>3. IsList(Meant[part].files[j].bytes)
    BY <1>10, <2>1, <2>2 DEF FilesType
  <2>4. IsList(bytes)
    BY <1>9, <1>10, <2>3
  <2>5. QED
    BY <2>4 DEF IsList
<1>12. at \in Nat /\ IsList(target) /\ target' = WriteAt(target, at, bytes)
  BY <1>1, <1>3, <1>6
<1>13. /\ IsList(target') /\ Len(target') \in Nat /\ Len(target) <= Len(target')
       /\ Holds(target', at, bytes)
  <2> HIDE DEF at
  <2>1. QED
    BY <1>11, <1>12, WrittenTo
<1>14. Same(target, target', 0, at)
  <2> HIDE DEF at
  <2>1. QED
    BY <1>11, <1>12, WrittenTo
<1>15. SourceOK' /\ Meant' = Meant /\ RootAt(source)' = RootAt(source) /\ (Trimmed' <=> Trimmed)
  <2>1. Trims(part)' <=> Trims(part')
    BY <1>1, MeantKept
  <2>2. QED
    BY <1>1, <1>3, <2>1, MeantKept DEF RootAt, Trimmed
<1>16. RootOK'
  <2>1. Same(target, target', RootAt(source) + Reserved, RootAt(source) + addPos)
    <3> HIDE DEF at
    <3>1. \A k \in (R + Reserved + 1)..(R + addPos) : k \in (0 + 1)..at
      <4>1. R \in Nat /\ addPos \in Nat /\ Reserved \in Nat /\ at \in Nat /\ R + addPos <= at
        BY <1>3, <1>6
      <4>2. QED
        BY <4>1
    <3>2. QED
      BY <1>14, <3>1 DEF Same, R
  <2>2. \A p \in 1..Len(rootEntries) :
          EntryOK(target', RootAt(source), addPos, rootEntries[p], Meant[p])
    BY <1>2, <1>3, <1>13, <2>1, EntriesKept
  <2>3. target'[1] = target[1]
    <3> HIDE DEF at
    <3>1. 1 \in (0 + 1)..at /\ 1 <= Len(target)
      <4>1. Len(target) >= R
        BY <1>3 DEF RootOK, R
      <4>2. QED
        BY <1>3, <1>6, <4>1
    <3>2. QED
      BY <1>14, <3>1 DEF Same
  <2>4. /\ IsList(target) /\ Len(target) >= R /\ target[1] = source[1]
        /\ IsList(rootEntries) /\ part = Len(rootEntries) + 1 /\ part <= Len(card.parts) + 1
    BY <1>3 DEF RootOK, R
  <2>5. Len(target') >= R
    BY <1>3, <1>13, <2>4
  <2>6. QED
    BY <1>1, <1>3, <1>13, <1>15, <2>2, <2>3, <2>4, <2>5 DEF RootOK, R
<1>17. /\ nested'.start = nested.start /\ nested'.actual = nested.actual + Len(bytes)
       /\ nested'.entries = Append(nested.entries, e) /\ nested'.next = j + 1
       /\ nested' = [start |-> nested'.start, actual |-> nested'.actual,
                     entries |-> nested'.entries, next |-> nested'.next]
  <2> DEFINE s == nested.start
             a == nested.actual
             es == nested.entries
             m == nested.next
  <2>1. at + Len(bytes) - s = a + Len(bytes)
    BY <1>5, <1>6, <1>11
  <2> HIDE DEF e
  <2>2. nested' = [start |-> s, actual |-> a + Len(bytes), entries |-> Append(es, e),
                   next |-> m + 1]
    <3>1. nested = [start |-> s, actual |-> a, entries |-> es, next |-> m]
      BY <1>5
    <3>2. nested' = [nested EXCEPT !.entries = Append(es, e), !.actual = at + Len(bytes) - s,
                                   !.next = m + 1]
      BY <1>1
    <3> HIDE DEF s, a, es, m, at
    <3>3. QED
      BY <2>1, <3>1, <3>2
  <2> HIDE DEF s, a, es, m, at
  <2>3. /\ nested'.start = s /\ nested'.actual = a + Len(bytes)
        /\ nested'.entries = Append(es, e) /\ nested'.next = m + 1
    BY <2>2
  <2>4. nested' = [start |-> nested'.start, actual |-> nested'.actual,
                   entries |-> nested'.entries, next |-> nested'.next]
    BY <2>2
  <2>5. QED
    BY <2>3, <2>4 DEF s, a, es, m
<1>18. /\ IsList(nested'.entries) /\ Len(nested'.entries) = n + 1
       /\ \A k \in 1..n : nested'.entries[k] = nested.entries[k]
       /\ nested'.entries[n + 1] = e
  <2> DEFINE es == nested.entries
  <2>1. IsList(es) /\ nested'.entries = Append(es, e) /\ n = Len(es)
    BY <1>5, <1>17
  <2> HIDE DEF es, e, n
  <2>2. QED
    BY <2>1, LongerList DEF es
<1>19. ASSUME NEW k \in 1..n
       PROVE  /\ FileAt(target', nested.start + Reserved, nested.entries[k],
                        Meant[part].files[k])
              /\ Reserved + nested.entries[k].offset + nested.entries[k].size
                   <= nested.actual + Len(bytes)
  <2> DEFINE x == nested.entries[k]
             o == nested.start + Reserved + x.offset
             d == Meant[part].files[k]
  <2>1. /\ x.name = d.name /\ x.size = Len(d.bytes) /\ x.offset \in Nat
        /\ Holds(target, o, d.bytes) /\ Reserved + x.offset + x.size <= nested.actual
    BY <1>5 DEF FileAt
  <2>2. IsList(d.bytes)
    <3>1. k \in 1..Len(Meant[part].files)
      <4>1. k \in DOMAIN card.parts[part].files
        <5>1. DOMAIN card.parts[part].files = 1..Len(card.parts[part].files)
              /\ Len(card.parts[part].files) \in Nat
          BY <1>3, <1>5, CardLists
        <5>2. QED
          BY <1>5, <1>6, <1>8, <5>1
      <4>2. DOMAIN Meant[part].files = 1..Len(Meant[part].files)
        BY <1>10 DEF FilesType, IsList
      <4>3. QED
        BY <1>10, <4>1, <4>2
    <3>2. QED
      BY <1>10, <3>1 DEF FilesType
  <2>3. Len(d.bytes) \in Nat
    BY <2>2 DEF IsList
  <2>4. o \in Nat /\ 0 <= o /\ o + Len(d.bytes) <= at
    <3>1. /\ nested.start \in Nat /\ nested.actual \in Nat /\ Reserved \in Nat
          /\ x.offset \in Nat /\ nested.start + nested.actual = at
          /\ Len(d.bytes) \in Nat /\ Reserved + x.offset + Len(d.bytes) <= nested.actual
      BY <1>3, <1>5, <1>6, <2>1, <2>3
    <3> DEFINE s == nested.start
               a == nested.actual
               y == x.offset
               l == Len(d.bytes)
    <3>2. s \in Nat /\ a \in Nat /\ Reserved \in Nat /\ y \in Nat /\ s + a = at /\ l \in Nat
          /\ Reserved + y + l <= a
      BY <3>1
    <3> HIDE DEF s, a, y, l
    <3>3. s + Reserved + y \in Nat /\ 0 <= s + Reserved + y /\ s + Reserved + y + l <= s + a
      BY <3>2
    <3>4. QED
      BY <3>2, <3>3 DEF s, y, l
  <2> HIDE DEF o, d, at
  <2>5. Holds(target', o, d.bytes)
    <3> DEFINE b == d.bytes
               from == 0
    <3>1. /\ IsList(target) /\ IsList(target') /\ Len(target) <= Len(target')
          /\ o \in Nat /\ IsList(b) /\ Holds(target, o, b) /\ from \in Nat /\ at \in Nat
          /\ Same(target, target', from, at) /\ from <= o /\ o + Len(b) <= at
      BY <1>3, <1>6, <1>13, <1>14, <2>1, <2>2, <2>4
    <3> HIDE DEF b, from
    <3>2. Holds(target', o, b)
      BY <3>1, HeldKept
    <3>3. QED
      BY <3>2 DEF b
  <2>6. Reserved + x.offset + x.size <= nested.actual + Len(bytes)
    <3> DEFINE y == x.offset
               z == x.size
               a == nested.actual
    <3>1. y \in Nat /\ z \in Nat /\ a \in Nat /\ Reserved \in Nat /\ Len(bytes) \in Nat
          /\ Reserved + y + z <= a
      BY <1>3, <1>5, <1>11, <2>1, <2>3
    <3> HIDE DEF y, z, a
    <3>2. Reserved + y + z <= a + Len(bytes)
      BY <3>1
    <3>3. QED
      BY <3>2 DEF y, z, a
  <2>7. QED
    BY <2>1, <2>5, <2>6 DEF FileAt, o, d
<1>20. /\ FileAt(target', nested.start + Reserved, e, Meant[part].files[j])
       /\ Reserved + e.offset + e.size <= nested.actual + Len(bytes)
  <2> DEFINE d == Meant[part].files[j]
  <2>1. d.name = OutputName(File) /\ d.bytes = bytes
    BY <1>9, <1>10
  <2>2. e.name = d.name /\ e.size = Len(bytes) /\ e.offset = nested.actual - Reserved
    BY <2>1
  <2> HIDE DEF d, e
  <2>3. e.offset \in Nat /\ nested.start + Reserved + e.offset = at
        /\ Reserved + e.offset + e.size <= nested.actual + Len(bytes)
    <3> DEFINE s == nested.start
               a == nested.actual
    <3>1. s \in Nat /\ a \in Nat /\ Reserved \in Nat /\ Reserved <= a /\ at = s + a
          /\ Len(bytes) \in Nat /\ e.offset = a - Reserved /\ e.size = Len(bytes)
      BY <1>3, <1>5, <1>6, <1>11, <2>2
    <3> HIDE DEF s, a, at
    <3>2. e.offset \in Nat /\ s + Reserved + e.offset = at
          /\ Reserved + e.offset + e.size <= a + Len(bytes)
      BY <3>1
    <3>3. QED
      BY <3>2 DEF s, a
  <2> HIDE DEF at
  <2>4. Holds(target', at, bytes)
    BY <1>13
  <2>5. FileAt(target', nested.start + Reserved, e, d)
    BY <2>1, <2>2, <2>3, <2>4 DEF FileAt
  <2>6. QED
    BY <2>3, <2>5 DEF d
<1>21. NestedOK'
  <2> HIDE DEF e, at
  <2>1. /\ nested'.start = RootAt(source)' + addPos' /\ nested'.actual \in Nat
        /\ Reserved <= nested'.actual /\ nested'.next = Len(nested'.entries) + 1
    <3>1. nested'.start = RootAt(source)' + addPos'
      BY <1>1, <1>5, <1>15, <1>17 DEF R
    <3>2. nested'.actual \in Nat /\ Reserved <= nested'.actual
      <4>1. nested.actual \in Nat /\ Reserved \in Nat /\ Reserved <= nested.actual
        BY <1>3, <1>5
      <4>2. QED
        BY <1>11, <1>17, <4>1
    <3>3. QED
      BY <1>5, <1>17, <1>18, <3>1, <3>2
  <2>2. nested'.next <= Len(card.parts[part].files) + 1
    <3>1. DOMAIN card.parts[part].files = 1..Len(card.parts[part].files)
          /\ Len(card.parts[part].files) \in Nat
      BY <1>3, <1>5, CardLists
    <3>2. QED
      BY <1>8, <1>17, <3>1
  <2>3. ASSUME NEW k \in 1..Len(nested'.entries)
        PROVE  /\ FileAt(target', nested'.start + Reserved, nested'.entries[k],
                         Meant[part].files[k])
               /\ Reserved + nested'.entries[k].offset + nested'.entries[k].size
                    <= nested'.actual
    <3>1. k \in 1..n \/ k = n + 1
      BY <1>6, <1>18
    <3>2. CASE k \in 1..n
      BY <1>17, <1>18, <1>19, <3>2
    <3>3. CASE k = n + 1
      BY <1>5, <1>17, <1>18, <1>20, <3>3
    <3>4. QED
      BY <3>1, <3>2, <3>3
  <2>4. part' \in DOMAIN card'.parts /\ ~Trimmed' /\ part' = part /\ card' = card
    BY <1>1, <1>5, <1>15 DEF Trimmed
  <2>5. QED
    BY <1>15, <1>17, <1>18, <2>1, <2>2, <2>3, <2>4 DEF NestedOK
<1>22. QED
  BY <1>1, <1>3, <1>15, <1>16, <1>21 DEF XczInv

\* The header of the partition goes into the space left for it.
LEMMA CloseStep ==
  ASSUME XczInv, ClosePartition
  PROVE  XczInv'
<1> DEFINE R == RootAt(source)
           start == nested.start
           actual == nested.actual
           es == nested.entries
           size == actual + MediaUnit - (actual % MediaUnit)
           header == Hfs0Header(es)
           headed == WriteAt(target, start, header)
           pads == Pads(size - actual)
           end == start + actual
           fs == card.parts[part].files
           ds == Meant[part].files
<1>1. /\ xcz = "files" /\ nested.next > Len(Files) /\ Hfs0HeaderSize(es) <= Reserved
      /\ target' = WriteAt(headed, end, pads) /\ pos' = start + size
      /\ rootEntries' = Append(rootEntries, RootEntry(size)) /\ addPos' = addPos + size
      /\ part' = part + 1 /\ xcz' = "parts"
      /\ UNCHANGED <<card, packing, source>>
  BY DEF ClosePartition
<1>2. xcz \in {"parts", "files"}
  BY <1>1
<1>3. /\ card \in Cards /\ packing \in BOOLEAN /\ SourceOK /\ RootOK
      /\ R \in Nat \ {0} /\ addPos \in Nat /\ Reserved \in Nat /\ MediaUnit \in Nat \ {0}
      /\ IsList(target) /\ Len(target) \in Nat
  BY <1>2, Sizes
<1>4. NestedOK
  BY <1>1 DEF XczInv
<1>5. /\ part \in DOMAIN card.parts /\ ~Trims(part)
      /\ start = R + addPos /\ actual \in Nat /\ Reserved <= actual
      /\ IsList(es) /\ nested.next = Len(es) + 1 /\ nested.next <= Len(fs) + 1
      /\ \A k \in 1..Len(es) :
           /\ FileAt(target, start + Reserved, es[k], ds[k])
           /\ Reserved + es[k].offset + es[k].size <= actual
  BY <1>4 DEF NestedOK, Trimmed
<1>6. Kept(part) /\ DOMAIN Files = DOMAIN fs
  BY <1>3, <1>5, SourceKnown DEF SourceOK, Files
<1>7. Len(fs) \in Nat /\ DOMAIN fs = 1..Len(fs) /\ Len(Files) = Len(fs)
  <2>1. Len(fs) \in Nat /\ DOMAIN fs = 1..Len(fs)
    BY <1>3, <1>5, CardLists
  <2> DEFINE F == Files
             m == Len(fs)
  <2>2. F = [i \in 1..m |-> F[i]]
    <3>1. F = [i \in DOMAIN F |-> F[i]]
      BY DEF Files, FilesOf, Entries
    <3> HIDE DEF F
    <3>2. DOMAIN F = 1..m
      BY <1>6, <2>1 DEF F
    <3>3. QED
      BY <3>1, <3>2
  <2>3. m \in Nat
    BY <2>1
  <2> HIDE DEF F, m
  <2>4. Len(F) = m
    BY <2>2, <2>3, FunctionList
  <2>5. QED
    BY <2>1, <2>4 DEF F, m
<1>8. FilesType(ds) /\ DOMAIN ds = DOMAIN fs
  BY <1>3, <1>5, <1>6, MeantPoint
<1>9. Len(es) \in Nat /\ Len(es) = Len(fs) /\ Len(ds) = Len(fs)
  <2>1. Len(es) \in Nat
    BY <1>5 DEF IsList
  <2>2. DOMAIN ds = 1..Len(ds) /\ Len(ds) \in Nat
    BY <1>8, ListDomain DEF FilesType
  <2>3. Len(ds) = Len(fs)
    <3> DEFINE a == Len(ds)
               b == Len(fs)
    <3>1. 1..a = 1..b /\ a \in Nat /\ b \in Nat
      BY <1>7, <1>8, <2>2
    <3> HIDE DEF a, b
    <3>2. a = b
      BY <3>1
    <3>3. QED
      BY <3>2 DEF a, b
  <2>4. QED
    BY <1>1, <1>5, <1>7, <2>1, <2>3
<1>10. size \in Nat /\ actual <= size /\ Reserved <= size /\ start \in Nat /\ end \in Nat
       /\ size - actual \in Int /\ size - actual >= 0 /\ start + size = end + (size - actual)
       /\ start + Reserved <= end
  <2> DEFINE r == actual % MediaUnit
  <2>1. r \in Nat /\ r < MediaUnit
    BY <1>3, <1>5
  <2>2. size = actual + MediaUnit - r
    OBVIOUS
  <2> HIDE DEF r, size
  <2>3. actual \in Nat /\ MediaUnit \in Nat /\ Reserved \in Nat /\ Reserved <= actual
        /\ R \in Nat /\ addPos \in Nat /\ start = R + addPos
    BY <1>3, <1>5
  <2> HIDE DEF start, actual, R
  <2>4. size \in Nat /\ actual <= size /\ Reserved <= size /\ start \in Nat /\ end \in Nat
        /\ size - actual \in Int /\ size - actual >= 0
    BY <2>1, <2>2, <2>3
  <2>5. start + size = end + (size - actual) /\ start + Reserved <= end
    BY <2>3, <2>4
  <2>6. QED
    BY <2>4, <2>5
<1>11. IsList(header) /\ Len(header) = 1 + 2 * Len(es) /\ Len(header) \in Nat
       /\ Len(header) <= Reserved
  <2>1. IsList(header) /\ Len(header) = 1 + 2 * Len(es)
    BY <1>5, HeaderCells
  <2>2. QED
    BY <1>1, <1>9, <2>1 DEF Hfs0HeaderSize
<1>12. IsList(pads)
  <2> HIDE DEF size, actual
  <2>1. QED
    BY <1>10, PadsList
<1> HIDE DEF size, header, end
<1>13. /\ IsList(headed) /\ Len(headed) \in Nat /\ Len(target) <= Len(headed)
       /\ Holds(headed, start, header) /\ Same(target, headed, 0, start)
       /\ \A to \in Nat : Same(target, headed, start + Len(header), to)
  <2> HIDE DEF start
  <2> DEFINE w == headed
  <2>1. w = WriteAt(target, start, header)
    OBVIOUS
  <2> HIDE DEF w
  <2>2. /\ IsList(w) /\ Len(w) \in Nat /\ Len(target) <= Len(w)
        /\ Holds(w, start, header) /\ Same(target, w, 0, start)
        /\ \A to \in Nat : Same(target, w, start + Len(header), to)
    BY <1>3, <1>10, <1>11, <2>1, WrittenTo
  <2>3. QED
    BY <2>2 DEF w
<1> HIDE DEF headed, pads
<1>14. /\ IsList(target') /\ Len(target') \in Nat /\ Len(headed) <= Len(target')
       /\ Same(headed, target', 0, end)
  <2>1. IsList(headed) /\ end \in Nat /\ IsList(pads) /\ target' = WriteAt(headed, end, pads)
    BY <1>1, <1>10, <1>12, <1>13
  <2>2. QED
    BY <2>1, WrittenTo
<1>15. Len(target) <= Len(target')
  BY <1>3, <1>13, <1>14
<1> HIDE DEF start, actual, es, R
<1>16. Same(target, target', 0, R + addPos)
  <2>1. ASSUME NEW k \in (0 + 1)..(R + addPos), k <= Len(target)
        PROVE  k <= Len(target') /\ target'[k] = target[k]
    <3>1. k \in (0 + 1)..start /\ k \in (0 + 1)..end
      BY <1>3, <1>5, <1>10
    <3>2. k <= Len(headed) /\ headed[k] = target[k]
      BY <1>13, <2>1, <3>1 DEF Same
    <3>3. QED
      BY <1>14, <3>1, <3>2 DEF Same
  <2>2. QED
    BY <2>1 DEF Same
<1>17. Same(target, target', start + Reserved, end)
  <2>1. ASSUME NEW k \in (start + Reserved + 1)..end, k <= Len(target)
        PROVE  k <= Len(target') /\ target'[k] = target[k]
    <3>1. k \in (start + Len(header) + 1)..end /\ k \in (0 + 1)..end
      BY <1>3, <1>10, <1>11
    <3>2. k <= Len(headed) /\ headed[k] = target[k]
      BY <1>10, <1>13, <2>1, <3>1 DEF Same
    <3>3. QED
      BY <1>14, <3>1, <3>2 DEF Same
  <2>2. QED
    BY <2>1 DEF Same
<1>18. Holds(target', start, header)
  <2>1. 0 \in Nat /\ 0 <= start /\ start + Len(header) <= end
    BY <1>3, <1>10, <1>11
  <2>2. /\ IsList(headed) /\ IsList(target') /\ Len(headed) <= Len(target')
        /\ start \in Nat /\ IsList(header) /\ Holds(headed, start, header)
        /\ end \in Nat /\ Same(headed, target', 0, end)
    BY <1>10, <1>11, <1>13, <1>14
  <2>3. QED
    BY <2>1, <2>2, HeldKept
<1>19. BuiltOf(target', start, size, ds, es)
  <2>1. ASSUME NEW k \in 1..Len(ds)
        PROVE  /\ FileAt(target', start + Reserved, es[k], ds[k])
               /\ Reserved + es[k].offset + es[k].size <= size
    <3> DEFINE b == ds[k].bytes
               x == es[k]
               o == start + Reserved + x.offset
    <3>1. /\ x.name = ds[k].name /\ x.size = Len(b) /\ x.offset \in Nat
          /\ Holds(target, o, b) /\ Reserved + x.offset + x.size <= actual
      BY <1>5, <1>9 DEF FileAt, start, actual, es
    <3>2. IsList(b) /\ Len(b) \in Nat
      BY <1>8 DEF FilesType, IsList
    <3>3. start + actual = end /\ actual \in Nat /\ actual <= size /\ size \in Nat
          /\ start \in Nat /\ Reserved \in Nat
      BY <1>3, <1>5, <1>10 DEF end, start, actual
    <3>4. o \in Nat /\ start + Reserved \in Nat /\ start + Reserved <= o /\ o + Len(b) <= end
          /\ Reserved + x.offset + x.size <= size
      <4> DEFINE y == x.offset
                 l == Len(b)
      <4>1. y \in Nat /\ l \in Nat /\ Reserved + y + l <= actual /\ o = start + Reserved + y
            /\ x.size = l
        BY <3>1, <3>2
      <4> HIDE DEF y, l, o, b, x
      <4>2. o \in Nat /\ start + Reserved \in Nat /\ start + Reserved <= o /\ o + l <= end
            /\ Reserved + y + l <= size
        BY <3>3, <4>1
      <4>3. QED
        BY <4>1, <4>2 DEF y, l
    <3> HIDE DEF o, b
    <3> DEFINE from == start + Reserved
    <3>5. /\ IsList(target) /\ IsList(target') /\ Len(target) <= Len(target')
          /\ o \in Nat /\ IsList(b) /\ Holds(target, o, b) /\ from \in Nat /\ end \in Nat
          /\ Same(target, target', from, end) /\ from <= o /\ o + Len(b) <= end
      BY <1>3, <1>10, <1>14, <1>15, <1>17, <3>1, <3>2, <3>4
    <3> HIDE DEF from
    <3>6. Holds(target', o, b)
      BY <3>5, HeldKept
    <3>7. QED
      BY <3>1, <3>4, <3>6 DEF FileAt, o, b
  <2>2. IsList(es) /\ Len(es) = Len(ds) /\ Hfs0HeaderSize(es) <= Reserved
    BY <1>1, <1>5, <1>9 DEF es
  <2>3. QED
    BY <1>10, <1>18, <2>1, <2>2 DEF BuiltOf, header
<1>20. PartAt(target', RootAt(source) + addPos, size, Meant[part].files)
  <2>1. start = RootAt(source) + addPos
    BY <1>5 DEF R, start
  <2>2. PartAt(target', start, size, ds)
    BY <1>19 DEF PartAt
  <2>3. QED
    BY <2>1, <2>2
<1>21. RootOK'
  <2>1. Same(target, target', 0, RootAt(source) + addPos)
    BY <1>16 DEF R
  <2>2. size \in Nat /\ part \in DOMAIN card.parts
    BY <1>5, <1>10
  <2>3. /\ UNCHANGED <<card, packing, source>> /\ IsList(target')
        /\ Len(target) <= Len(target') /\ addPos' = addPos + size /\ part' = part + 1
        /\ rootEntries' = Append(rootEntries, RootEntry(size))
    BY <1>1, <1>14, <1>15
  <2>4. QED
    BY <1>2, <1>20, <2>1, <2>2, <2>3, RootGrows
<1>22. pos' = RootAt(source) + addPos'
  <2>1. pos' = start + size /\ start = R + addPos /\ addPos' = addPos + size
    BY <1>1, <1>5 DEF start
  <2>2. R \in Nat /\ addPos \in Nat /\ size \in Nat
    BY <1>3, <1>10
  <2> HIDE DEF start
  <2>3. (R + addPos) + size = R + (addPos + size)
    BY <2>2
  <2>4. QED
    BY <2>1, <2>3 DEF R
<1>23. QED
  BY <1>1, <1>2, <1>21, <1>22, NextPartition

\* Partitions where the root header says are listed as what they were made of.
LEMMA ListedBack ==
  ASSUME Reserved \in Nat, NEW f, IsList(f), NEW root \in Nat \ {0}, RootAt(f) = root,
         NEW es, IsList(es), Holds(f, root, Hfs0Header(es)), NEW end,
         NEW ds, ds = [p \in 1..Len(es) |-> ds[p]],
         \A p \in 1..Len(es) : /\ EntryOK(f, root, end, es[p], ds[p])
                               /\ FilesType(ds[p].files)
                               /\ ds[p] = [name |-> ds[p].name, files |-> ds[p].files]
                               /\ \A j \in DOMAIN ds[p].files :
                                    ds[p].files[j] = [name |-> ds[p].files[j].name,
                                                      bytes |-> ds[p].files[j].bytes]
  PROVE  Lists(f, ds) /\ Listing(f) = ds
<1> DEFINE n == Len(es)
           E == Entries(f, root)
<1>1. n \in Nat /\ Len(f) \in Nat /\ DOMAIN ds = 1..n
  BY DEF IsList
<1>2. \A p \in 1..n : es[p].offset \in Nat /\ es[p].size \in Nat /\ es[p].name = ds[p].name
  BY DEF EntryOK
<1>3. E = [p \in 1..n |-> [name |-> es[p].name, at |-> root + Reserved + es[p].offset,
                           size |-> es[p].size]]
  BY <1>2, HeaderRead
<1>4. root \in 1..(Len(f) - 1)
  <2>1. Len(Hfs0Header(es)) = 1 + 2 * n
    BY HeaderCells
  <2>2. root + (1 + 2 * n) <= Len(f)
    BY <2>1 DEF Holds
  <2> HIDE DEF n
  <2>3. QED
    BY <1>1, <2>2
<1> HIDE DEF E
<1>5. DOMAIN E = 1..n /\ \A p \in 1..n : /\ E[p].name = ds[p].name
                                         /\ E[p].at = root + Reserved + es[p].offset
  BY <1>2, <1>3
<1>6. ASSUME NEW p \in 1..n
      PROVE  /\ E[p].at \in Nat
             /\ DOMAIN Entries(f, E[p].at) = DOMAIN ds[p].files
             /\ \A j \in DOMAIN ds[p].files :
                  /\ Entries(f, E[p].at)[j].name = ds[p].files[j].name
                  /\ Entries(f, E[p].at)[j].at \in Nat
                  /\ Entries(f, E[p].at)[j].size = Len(ds[p].files[j].bytes)
                  /\ Bytes(f, Entries(f, E[p].at)[j]) = ds[p].files[j].bytes
  <2> DEFINE at == E[p].at
             fs == ds[p].files
             size == es[p].size
             o == es[p].offset
  <2>1. PartAt(f, root + Reserved + o, size, fs) /\ FilesType(fs)
        /\ o \in Nat /\ size \in Nat
    BY DEF EntryOK
  <2>2. at = root + Reserved + o
    BY <1>5
  <2> HIDE DEF at, fs, size, o
  <2>3. at \in Nat /\ PartAt(f, at, size, fs)
    BY <2>1, <2>2
  <2>4. /\ DOMAIN Entries(f, at) = DOMAIN fs
        /\ \A j \in DOMAIN fs :
             /\ Entries(f, at)[j].name = fs[j].name
             /\ Entries(f, at)[j].at \in Nat
             /\ Entries(f, at)[j].size = Len(fs[j].bytes)
             /\ Bytes(f, Entries(f, at)[j]) = fs[j].bytes
    BY <2>1, <2>3, PartRead
  <2>5. QED
    BY <2>3, <2>4 DEF at, fs
<1>7. Lists(f, ds)
  <2>1. Entries(f, RootAt(f)) = E
    BY DEF E
  <2>2. DOMAIN E = DOMAIN ds
    BY <1>1, <1>5
  <2>3. ASSUME NEW p \in DOMAIN ds
        PROVE  /\ E[p].name = ds[p].name /\ E[p].at \in Nat
               /\ Opens(f, E[p].at, "HFS0") =>
                    /\ DOMAIN Entries(f, E[p].at) = DOMAIN ds[p].files
                    /\ \A j \in DOMAIN ds[p].files :
                         /\ Entries(f, E[p].at)[j].name = ds[p].files[j].name
                         /\ Entries(f, E[p].at)[j].at \in Nat
                         /\ Entries(f, E[p].at)[j].size = Len(ds[p].files[j].bytes)
                         /\ Readable(f, Entries(f, E[p].at)[j]) =>
                              Bytes(f, Entries(f, E[p].at)[j]) = ds[p].files[j].bytes
    BY <1>1, <1>5, <1>6
  <2>4. QED
    BY <1>4, <2>1, <2>2, <2>3 DEF Lists
<1>8. ASSUME NEW p \in 1..n
      PROVE  [name |-> E[p].name,
              files |-> [j \in DOMAIN Entries(f, E[p].at) |->
                           [name |-> Entries(f, E[p].at)[j].name,
                            bytes |-> Bytes(f, Entries(f, E[p].at)[j])]]] = ds[p]
  <2> DEFINE es0 == Entries(f, E[p].at)
             fs == ds[p].files
             F == [j \in DOMAIN es0 |-> [name |-> es0[j].name, bytes |-> Bytes(f, es0[j])]]
  <2>1. DOMAIN es0 = DOMAIN fs
        /\ \A j \in DOMAIN fs : es0[j].name = fs[j].name /\ Bytes(f, es0[j]) = fs[j].bytes
    BY <1>6
  <2>2. \A j \in DOMAIN fs : fs[j] = [name |-> fs[j].name, bytes |-> fs[j].bytes]
    OBVIOUS
  <2>3. fs = [j \in 1..Len(fs) |-> fs[j]] /\ DOMAIN fs = 1..Len(fs)
    <3>1. FilesType(fs)
      OBVIOUS
    <3> HIDE DEF fs
    <3>2. QED
      BY <3>1 DEF FilesType, IsList
  <2>4. ds[p] = [name |-> ds[p].name, files |-> fs] /\ E[p].name = ds[p].name
    BY <1>5
  <2> HIDE DEF es0, fs
  <2>5. F = [j \in DOMAIN fs |-> fs[j]]
    BY <2>1, <2>2
  <2>6. F = fs
    BY <2>3, <2>5
  <2> HIDE DEF F
  <2>7. [name |-> E[p].name, files |-> F] = ds[p]
    BY <2>4, <2>6
  <2>8. QED
    BY <2>7 DEF F, es0
<1>9. Listing(f) = ds
  <2> DEFINE Q(p) == [name |-> E[p].name,
                      files |-> [j \in DOMAIN Entries(f, E[p].at) |->
                                   [name |-> Entries(f, E[p].at)[j].name,
                                    bytes |-> Bytes(f, Entries(f, E[p].at)[j])]]]
  <2>1. Listing(f) = [p \in DOMAIN E |-> Q(p)]
    BY DEF Listing, E
  <2>2. \A p \in 1..n : Q(p) = ds[p]
    BY <1>8
  <2> HIDE DEF Q
  <2>3. QED
    BY <1>5, <2>1, <2>2
<1>10. QED
  BY <1>7, <1>9

\* What is meant is such a list.
LEMMA MeantList ==
  ASSUME card \in Cards, packing \in BOOLEAN
  PROVE  /\ Meant = [p \in DOMAIN card.parts |-> Meant[p]]
         /\ \A p \in DOMAIN card.parts :
              /\ FilesType(Meant[p].files)
              /\ Meant[p] = [name |-> Meant[p].name, files |-> Meant[p].files]
              /\ \A j \in DOMAIN Meant[p].files :
                   Meant[p].files[j] = [name |-> Meant[p].files[j].name,
                                        bytes |-> Meant[p].files[j].bytes]
<1>1. Meant = [p \in DOMAIN card.parts |-> Meant[p]]
  <2>1. Plain(card.parts) = [p \in DOMAIN Plain(card.parts) |-> Plain(card.parts)[p]]
    BY DEF Plain
  <2> DEFINE P == Plain(card.parts)
             M == Meant
  <2>2. Compressed(P) = [p \in DOMAIN Compressed(P) |-> Compressed(P)[p]]
    BY DEF Compressed
  <2> HIDE DEF P
  <2>3. M = [p \in DOMAIN M |-> M[p]]
    BY <2>1, <2>2 DEF Meant, P
  <2> HIDE DEF M
  <2>4. DOMAIN M = DOMAIN card.parts
    BY MeantPoint DEF M
  <2>5. M = [p \in DOMAIN card.parts |-> M[p]]
    BY <2>3, <2>4
  <2>6. QED
    BY <2>5 DEF M
<1>2. ASSUME NEW p \in DOMAIN card.parts, NEW j \in DOMAIN Meant[p].files
      PROVE  Meant[p].files[j] = [name |-> Meant[p].files[j].name,
                                  bytes |-> Meant[p].files[j].bytes]
  <2>1. Kept(p)
    <3>1. ~Kept(p) => Meant[p].files = << >>
      BY MeantPoint
    <3> DEFINE F == Meant[p].files
    <3> HIDE DEF F
    <3>2. F = << >> => DOMAIN F = {}
      OBVIOUS
    <3>3. QED
      BY <3>1, <3>2 DEF F
  <2> DEFINE f == card.parts[p].files[j]
             d == Meant[p].files[j]
  <2>2. d = [name |-> NameOut(f), bytes |-> BytesOut(f)]
    BY <2>1, MeantPoint
  <2> HIDE DEF f, d
  <2>3. d = [name |-> d.name, bytes |-> d.bytes]
    BY <2>2
  <2>4. QED
    BY <2>3 DEF d
<1>3. QED
  BY <1>1, <1>2, MeantPoint

\* The root header goes into the space left for it, and the image is complete.
LEMMA EndStep ==
  ASSUME XczInv, EndRoot
  PROVE  XczInv'
<1> DEFINE R == RootAt(source)
           header == Hfs0Header(rootEntries)
<1>1. /\ xcz = "parts" /\ part > Len(Partitions)
      /\ Hfs0HeaderSize(rootEntries) <= Reserved
      /\ target' = WriteAt(target, R, header)
      /\ xcz' = IF packing THEN "packed" ELSE "done"
      /\ UNCHANGED <<card, packing, source, addPos, rootEntries, part, nested>>
  BY DEF EndRoot
<1>2. xcz \in {"parts", "files"}
  BY <1>1
<1>3. /\ card \in Cards /\ packing \in BOOLEAN /\ SourceOK /\ RootOK
      /\ R \in Nat \ {0} /\ addPos \in Nat /\ Reserved \in Nat /\ Reserved <= addPos
      /\ IsList(target) /\ Len(target) \in Nat /\ Len(target) >= R
      /\ Len(card.parts) \in Nat /\ DOMAIN card.parts = 1..Len(card.parts)
      /\ Len(Partitions) = Len(card.parts)
      /\ Len(rootEntries) \in Nat /\ IsList(rootEntries) /\ part = Len(rootEntries) + 1
  BY <1>2, Sizes
<1>4. Len(rootEntries) = Len(card.parts) /\ 1..Len(rootEntries) = DOMAIN card.parts
  <2>1. part <= Len(card.parts) + 1
    BY <1>3 DEF RootOK
  <2>2. Len(rootEntries) = Len(card.parts)
    BY <1>1, <1>3, <2>1
  <2>3. QED
    BY <1>3, <2>2
<1>5. IsList(header) /\ Len(header) \in Nat /\ Len(header) <= Reserved
  <2>1. IsList(header) /\ Len(header) = 1 + 2 * Len(rootEntries)
    BY <1>3, HeaderCells
  <2>2. QED
    BY <1>1, <1>3, <2>1 DEF Hfs0HeaderSize
<1> HIDE DEF header, R
<1>6. /\ IsList(target') /\ Len(target') \in Nat /\ Len(target) <= Len(target')
      /\ Holds(target', R, header) /\ Same(target, target', 0, R)
      /\ \A to \in Nat : Same(target, target', R + Len(header), to)
  <2>1. R \in Nat /\ IsList(target) /\ IsList(header) /\ target' = WriteAt(target, R, header)
    BY <1>1, <1>3, <1>5
  <2>2. QED
    BY <2>1, WrittenTo
<1>7. Same(target, target', R + Reserved, R + addPos)
  <2>1. Same(target, target', R + Len(header), R + addPos)
    BY <1>3, <1>6
  <2>2. \A k \in (R + Reserved + 1)..(R + addPos) : k \in (R + Len(header) + 1)..(R + addPos)
    BY <1>3, <1>5
  <2>3. QED
    BY <2>1, <2>2 DEF Same
<1>8. \A p \in 1..Len(rootEntries) : EntryOK(target', R, addPos, rootEntries[p], Meant[p])
  <2>1. addPos <= addPos
    BY <1>3
  <2>2. QED
    BY <1>2, <1>3, <1>6, <1>7, <2>1, EntriesKept DEF R
<1>9. RootAt(target') = R
  <2>1. 1 \in (0 + 1)..R /\ 1 <= Len(target)
    BY <1>3
  <2>2. target'[1] = target[1]
    BY <1>6, <2>1 DEF Same
  <2>3. target[1] = source[1]
    BY <1>3 DEF RootOK
  <2>4. QED
    BY <2>2, <2>3 DEF RootAt, R
<1>10. Meant' = Meant
  BY <1>1, MeantKept
<1>11. Lists(target', Meant) /\ Listing(target') = Meant
  <2> DEFINE ds == Meant
             f == target'
  <2>1. /\ ds = [p \in 1..Len(rootEntries) |-> ds[p]]
        /\ \A p \in 1..Len(rootEntries) :
             /\ FilesType(ds[p].files)
             /\ ds[p] = [name |-> ds[p].name, files |-> ds[p].files]
             /\ \A j \in DOMAIN ds[p].files :
                  ds[p].files[j] = [name |-> ds[p].files[j].name,
                                    bytes |-> ds[p].files[j].bytes]
    BY <1>3, <1>4, MeantList
  <2>2. /\ IsList(f) /\ RootAt(f) = R /\ Holds(f, R, header)
        /\ \A p \in 1..Len(rootEntries) : EntryOK(f, R, addPos, rootEntries[p], ds[p])
    BY <1>6, <1>8, <1>9
  <2>3. Holds(f, R, Hfs0Header(rootEntries))
    BY <2>2 DEF header
  <2> HIDE DEF ds, f
  <2>4. Lists(f, ds) /\ Listing(f) = ds
    BY <1>3, <2>1, <2>2, <2>3, ListedBack, SMTT(30)
  <2>5. QED
    BY <2>4 DEF ds, f
<1>12. Lists(target, Meant)' /\ Listing(target)' = Meant'
  <2>1. Lists(target, Meant)' <=> Lists(target', Meant')
    BY DEF Lists
  <2>2. Listing(target)' = Listing(target')
    BY DEF Listing
  <2>3. QED
    BY <1>10, <1>11, <2>1, <2>2
<1>13. QED
  BY <1>1, <1>3, <1>12 DEF XczInv


\* The image made is the one converted next.
LEMMA UnpackStep ==
  ASSUME XczInv, Unpack
  PROVE  XczInv'
<1>1. /\ xcz = "packed" /\ packing' = FALSE /\ source' = target /\ card' = card
      /\ rootEntries' = << >> /\ part' = 1 /\ xcz' = "head"
  BY DEF Unpack
<1>2. card \in Cards /\ packing /\ Lists(target, Meant)
  BY <1>1 DEF XczInv
<1>3. Given' = Meant
  <2>1. Plain(card.parts)' = Plain(card.parts)
    BY <1>1 DEF Plain
  <2>2. Compressed(Plain(card.parts))' = Compressed(Plain(card.parts))
    BY <1>1, <2>1 DEF Compressed
  <2>3. QED
    BY <1>1, <1>2, <2>2 DEF Given, Meant
<1>4. Lists(source, Given)'
  <2>1. Lists(source, Given)' <=> Lists(source', Given')
    BY DEF Lists
  <2>2. QED
    BY <1>1, <1>2, <1>3, <2>1
<1>5. QED
  BY <1>1, <1>2, <1>4 DEF XczInv

\* A conversion that fails leaves nothing to be said of the image.
LEMMA FailStep ==
  ASSUME XczInv, xcz # "idle", XczFails
  PROVE  XczInv'
BY DEF XczInv, XczFails

\* Nor does the invariant depend on the other converters.
LEMMA XczIdles ==
  ASSUME XczInv, UNCHANGED xczVars
  PROVE  XczInv'
<1>1. /\ UNCHANGED <<card, packing, source>> /\ xcz' = xcz /\ target' = target /\ pos' = pos
      /\ addPos' = addPos /\ rootEntries' = rootEntries /\ part' = part /\ nested' = nested
  BY DEF xczVars
<1>2. Meant' = Meant /\ Given' = Given /\ (SourceOK => SourceOK')
  BY <1>1, MeantKept
<1>3. (Trimmed' <=> Trimmed) /\ RootAt(source)' = RootAt(source)
  <2>1. Trimmed' <=> Trims(part)'
    BY DEF Trimmed
  <2>2. \A p : Trims(p)' <=> Trims(p)
    BY <1>1, MeantKept
  <2>3. Trims(part)' <=> Trims(part')
    BY <1>1, MeantKept
  <2>4. Trimmed' <=> Trimmed
    BY <1>1 DEF Trimmed, Trims, Dropped, FilesOf, Partitions
  <2>5. QED
    BY <1>1, <2>4 DEF RootAt
<1>4. RootOK => RootOK'
  BY <1>1, <1>2, <1>3 DEF RootOK
<1>5. NestedOK => NestedOK'
  BY <1>1, <1>2, <1>3 DEF NestedOK
<1>6. /\ (OpensXci(source) => Lists(source, Given))
         => (OpensXci(source)' => Lists(source, Given)')
      /\ Lists(target, Meant) => Lists(target, Meant)'
      /\ Listing(target)' = Listing(target)
  <2>1. OpensXci(source)' <=> OpensXci(source)
    BY <1>1 DEF OpensXci
  <2>2. Lists(source, Given)' <=> Lists(source, Given)
    BY <1>1, <1>2 DEF Lists
  <2>3. Lists(target, Meant)' <=> Lists(target, Meant)
    BY <1>1, <1>2 DEF Lists
  <2>4. Listing(target)' = Listing(target)
    BY <1>1 DEF Listing
  <2>5. QED
    BY <2>1, <2>2, <2>3, <2>4
<1>7. QED
  BY <1>1, <1>2, <1>3, <1>4, <1>5, <1>6 DEF XczInv

\* It holds before anything is converted: a card that opens lists its parts.
LEMMA XczBegins ==
  ASSUME XczIdle \/ XczStart
  PROVE  XczInv
<1>1. CASE XczIdle
  BY <1>1 DEF XczInv, XczIdle, Fresh
<1>2. CASE XczStart
  <2>1. card \in Cards /\ xcz = "head" /\ packing = TRUE /\ source = card.file
        /\ rootEntries = << >> /\ part = 1
    BY <1>2 DEF XczStart, Fresh
  <2>2. OpensXci(source) => Lists(source, Whole(card.parts))
    BY <2>1, CardAssumption DEF CardOK
  <2>3. QED
    BY <2>1, <2>2 DEF XczInv, Given
<1>3. QED
  BY <1>1, <1>2

\* Every step keeps it.
LEMMA XczNextKeeps ==
  ASSUME XczInv, [XczNext]_xczVars
  PROVE  XczInv'
<1>1. CASE RejectImage
  BY <1>1, FailStep DEF RejectImage
<1>2. CASE SourceCutShort
  BY <1>2, FailStep DEF SourceCutShort
<1>3. CASE HeaderOverflows
  BY <1>3, FailStep DEF HeaderOverflows
<1>4. QED
  BY <1>1, <1>2, <1>3, CopyHeadStep, TrimStep, BeginStep, AddStep, CloseStep, EndStep,
     UnpackStep, XczIdles DEF XczNext

\* And it says what is to be shown.
LEMMA XczRestores ==
  ASSUME XczInv
  PROVE  CardRestored
BY DEF XczInv, CardRestored, Meant

-----------------------------------------------------------------------------
\* The invariant of the conversion of card images, for any images, any number of
\* partitions and files of any size: the partitions done lie behind the space for
\* the root header where its entries will say, and so do the files of the one at
\* hand.
THEOREM XczInvariance == SwitchSpec => []XczInv
<1>1. SwitchInit => XczInv
  BY XczBegins DEF SwitchInit
<1>2. XczInv /\ [SwitchNext]_allVars => XczInv'
  <2>1. [SwitchNext]_allVars => XczNext \/ UNCHANGED xczVars
    BY DEF SwitchNext, allVars
  <2>2. QED
    BY <2>1, XczNextKeeps
<1>3. QED
  BY <1>1, <1>2, PTL DEF SwitchSpec

\* The .xcz lists the partitions kept with every large NCA compressed, the .xci
\* made of it what the card held, byte for byte, whatever the card.
THEOREM Xcz_CardRestored == SwitchSpec => []CardRestored
BY XczInvariance, XczRestores, PTL

=============================================================================
