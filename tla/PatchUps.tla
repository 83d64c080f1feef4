------------------------------ MODULE PatchUps ------------------------------
(***************************************************************************)
(* UpsPatcher (lib/patcher/ups_patcher.dart): the XOR of two files, as runs*)
(* of differing bytes that each end in a zero byte, with the distance from *)
(* one run to the next as a number of variable length.  The patch leads    *)
(* from either file to the other.  A run that reaches or passes the end of *)
(* the output is left at that end: what it still holds is read as          *)
(* distances, and when nothing there ends a number, so are the checksums   *)
(* that close the patch.  Such a distance may be more than an int holds:   *)
(* the offset wraps, and what follows is XORed over the output, or past it.*)
(*                                                                         *)
(* A byte has two bits, so that numbers take several bytes in small files: *)
(* the upper one is the stop bit of a number, the lower one its digit.  The*)
(* CRC32 of a file is the file itself; the bytes of the three stored ones  *)
(* are arbitrary.                                                          *)
(***************************************************************************)
EXTENDS Integers, Sequences
Joined == INSTANCE SequencesExt

(***************************************************************************)
(* A job is a record: x and y, the files the patch was made of, and runs,  *)
(* where they differ; rom; body and footer, the bytes of the patch before  *)
(* and in its checksums; intact, whether the patch's own checksum holds;   *)
(* ignore, ignoreChecksum.                                                 *)
(***************************************************************************)
CONSTANTS
  NoUpsJob,   \* the value of `ups' while the patcher does not run
  IntLimit    \* the least number an int cannot hold: 2^63

ASSUME IntAssumption == IntLimit \in Nat \ {0}

VARIABLES
  ups,        \* the job that runs, or NoUpsJob
  upsStep,    \* "open", "next", "xor", "tail", "done", "failed"
  patchPos,   \* bytes of the patch that were read
  xSize, ySize,
  offset,     \* the end of the last distance or run
  outAt,      \* outPos
  romCursor,
  result,     \* out
  overrun     \* history: the offset has wrapped

upsVars == <<ups, upsStep, patchPos, xSize, ySize, offset, outAt, romCursor,
             result, overrun>>

Bit(b, n) == IF n = 0 THEN b % 2 ELSE b \div 2
XorByte(a, b) == ((Bit(a, 0) + Bit(b, 0)) % 2) + 2 * ((Bit(a, 1) + Bit(b, 1)) % 2)

Byte(s, i) == IF i < Len(s) THEN s[i + 1] ELSE 0

-----------------------------------------------------------------------------
\* The format, as the tools that make patches write it.
Number[n \in Nat] ==
  IF n <= 1 THEN <<n + 2>> ELSE <<n % 2>> \o Number[n \div 2 - 1]

Differ(x, y) ==
  {p \in 0..((IF Len(x) >= Len(y) THEN Len(x) ELSE Len(y)) - 1) : Byte(x, p) # Byte(y, p)}

\* The stretches in which two files differ.
UpsRuns(x, y) ==
  LET size == IF Len(x) >= Len(y) THEN Len(x) ELSE Len(y)
      Past(a) == CHOOSE b \in (a + 1)..size :
                   b \notin Differ(x, y) /\ a..(b - 1) \subseteq Differ(x, y)
      starts == SelectSeq([p \in 1..size |-> p - 1],
                          LAMBDA p : p \in Differ(x, y) /\ p - 1 \notin Differ(x, y))
  IN [k \in DOMAIN starts |-> [from |-> starts[k], to |-> Past(starts[k])]]

\* The end of the run before the k-th, with the zero byte behind it.
Before(runs, k) == IF k = 1 THEN 0 ELSE runs[k - 1].to + 1

RunBytes(x, y, runs, k) ==
  LET a == runs[k].from
  IN Number[a - Before(runs, k)]
       \o [i \in 1..(runs[k].to - a) |-> XorByte(Byte(x, a + i - 1), Byte(y, a + i - 1))]
       \o <<0>>

UpsBody(x, y, runs) ==
  Number[Len(x)] \o Number[Len(y)]
    \o Joined!FlattenSeq([k \in DOMAIN runs |-> RunBytes(x, y, runs, k)])

-----------------------------------------------------------------------------
Patch == ups.body \o ups.footer

\* What an int holds of the number n.
Wrap(n) == ((n + IntLimit) % (2 * IntLimit)) - IntLimit

\* decode(): where the number read from byte p on ends; `offset' and `shift' after
\* k bytes that do not end it, and its value, as numbers; the value as an int.
\* (Sums, products and shifts of ints that wrap are what an int holds of them.)
NumberEnds(p) == {q \in (p + 1)..Len(Patch) : Patch[q] >= 2}
NumberEnd(p) == CHOOSE q \in NumberEnds(p) : \A r \in NumberEnds(p) : q <= r
NumberRead(p) ==
  LET Read[k \in 0..(Len(Patch) - p)] ==
        IF k = 0 THEN [sum |-> 0, shift |-> 1]
        ELSE LET r == Read[k - 1]
             IN [sum |-> r.sum + Bit(Patch[p + k], 0) * r.shift + 2 * r.shift,
                 shift |-> 2 * r.shift]
  IN Read
NumberValue(p) ==
  LET r == NumberRead(p)[NumberEnd(p) - p - 1]
  IN r.sum + Bit(Patch[NumberEnd(p)], 0) * r.shift
Decoded(p) == Wrap(NumberValue(p))

\* An index past the patch throws; PatchWorker reports the failure.
UpsFail == upsStep' = "failed" /\ UNCHANGED <<ups, patchPos, xSize, ySize, offset,
                                              outAt, romCursor, result, overrun>>

Forward(x, y) == Len(ups.rom) = x /\ ups.rom = ups.x
Reverse(x, y) == Len(ups.rom) = y /\ ups.rom = ups.y

\* The header, the checks before the loop, and which way the patch leads; there is
\* no list of a negative size.
UpsOpen ==
  /\ ups # NoUpsJob
  /\ upsStep = "open"
  /\ LET p == NumberEnd(0)
         x == Decoded(0)
         y == Decoded(p)
         back == ~Forward(x, y) /\ Reverse(x, y)
     IN IF \/ NumberEnds(0) = {} \/ NumberEnds(p) = {}
           \/ ~ups.ignore /\ ~(ups.intact /\ (Forward(x, y) \/ Reverse(x, y)))
           \/ (IF back THEN x ELSE y) < 0
        THEN UpsFail
        ELSE /\ xSize' = IF back THEN y ELSE x
             /\ ySize' = IF back THEN x ELSE y
             /\ result' = [i \in 1..ySize' |-> 0]
             /\ patchPos' = NumberEnd(p)
             /\ upsStep' = "next"
             /\ UNCHANGED <<ups, offset, outAt, romCursor, overrun>>

\* The bytes of out from the next one on, as far as the ROM goes.
CopyRom(n) ==
  LET take == IF Len(ups.rom) - romCursor < n THEN Len(ups.rom) - romCursor ELSE n
  IN [i \in 1..ySize |->
        IF outAt < i /\ i <= outAt + take THEN ups.rom[romCursor + i - outAt]
        ELSE result[i]]

\* Mutant of UpsNext: the ROM is copied, its cursor stays.
UpsNextCursorStays ==
  /\ ups # NoUpsJob
  /\ upsStep = "next" /\ patchPos < Len(ups.body)
  /\ IF NumberEnds(patchPos) = {} THEN UpsFail
     ELSE LET to == Wrap(offset + Decoded(patchPos))
          IN /\ patchPos' = NumberEnd(patchPos)
             /\ offset' = to
             /\ overrun' = (overrun \/ to # offset + NumberValue(patchPos))
             /\ IF to > ySize
                THEN UNCHANGED <<upsStep, outAt, romCursor, result>>
                ELSE /\ result' = CopyRom(to - outAt)
                     /\ UNCHANGED romCursor
                     /\ outAt' = to
                     /\ upsStep' = "xor"
             /\ UNCHANGED <<ups, xSize, ySize>>

\* The distance to the next run; the ROM is copied up to it.
UpsNext ==
  /\ ups # NoUpsJob
  /\ upsStep = "next" /\ patchPos < Len(ups.body)
  /\ IF NumberEnds(patchPos) = {} THEN UpsFail
     ELSE LET to == Wrap(offset + Decoded(patchPos))
              room == Len(ups.rom) - romCursor
              n == IF to - outAt < room THEN to - outAt ELSE room
          IN /\ patchPos' = NumberEnd(patchPos)
             /\ offset' = to
             /\ overrun' = (overrun \/ to # offset + NumberValue(patchPos))
             /\ IF to > ySize
                THEN UNCHANGED <<upsStep, outAt, romCursor, result>>
                ELSE /\ result' = CopyRom(to - outAt)
                     /\ romCursor' = IF n > 0 THEN romCursor + n ELSE romCursor
                     /\ outAt' = IF to > outAt THEN to ELSE outAt
                     /\ upsStep' = "xor"
             /\ UNCHANGED <<ups, xSize, ySize>>

\* One byte of a run; the loop starts at the offset and ends at ySize.  A byte that
\* is not in the patch, or has no place in the output, throws.
UpsXor ==
  /\ ups # NoUpsJob
  /\ upsStep = "xor"
  /\ IF offset >= ySize
     THEN /\ upsStep' = "next"
          /\ UNCHANGED <<ups, patchPos, xSize, ySize, offset, outAt, romCursor,
                         result, overrun>>
     ELSE IF patchPos >= Len(Patch) \/ (Patch[patchPos + 1] # 0 /\ outAt >= ySize)
     THEN UpsFail
     ELSE /\ patchPos' = patchPos + 1
          /\ offset' = offset + 1
          /\ IF Patch[patchPos + 1] = 0
             THEN /\ upsStep' = "next"
                  /\ UNCHANGED <<outAt, romCursor, result>>
             ELSE LET y == IF offset < xSize THEN Byte(ups.rom, romCursor) ELSE 0
                  IN /\ result' = [result EXCEPT ![outAt + 1] =
                                     XorByte(Patch[patchPos + 1], y)]
                     /\ outAt' = outAt + 1
                     /\ romCursor' = IF offset < xSize THEN romCursor + 1
                                     ELSE romCursor
                     /\ UNCHANGED upsStep
          /\ UNCHANGED <<ups, xSize, ySize, overrun>>

\* The file the patch leads to from this ROM.
Goal == IF ups.rom = ups.x THEN ups.y ELSE ups.x

\* The tail, the output file, and its checksum.
UpsTail ==
  /\ ups # NoUpsJob
  /\ upsStep = "next" /\ patchPos >= Len(ups.body)
  /\ result' = CopyRom(ySize - outAt)
  /\ upsStep' = IF ~ups.ignore /\ result' # Goal THEN "failed" ELSE "done"
  /\ UNCHANGED <<ups, patchPos, xSize, ySize, offset, outAt, romCursor, overrun>>

-----------------------------------------------------------------------------
UpsIdle ==
  /\ ups = NoUpsJob
  /\ upsStep = "open"
  /\ patchPos = 0 /\ xSize = 0 /\ ySize = 0
  /\ offset = 0 /\ outAt = 0 /\ romCursor = 0
  /\ result = << >> /\ overrun = FALSE

StartUps(j) ==
  /\ ups = NoUpsJob
  /\ ups' = j
  /\ UNCHANGED <<upsStep, patchPos, xSize, ySize, offset, outAt, romCursor,
                 result, overrun>>

UpsStep == UpsOpen \/ UpsNext \/ UpsXor \/ UpsTail

-----------------------------------------------------------------------------
\* A difference of the files reaches the end of the output, or lies past it.
RunLeftOpen == \E k \in DOMAIN ups.runs : ups.runs[k].to >= Len(Goal)

\* A whole patch turns either of its files into the other, with the checksums on or
\* off.  It may fail only when a run is left open at the end of the output, so
\* that the offset wraps or no byte ends a distance; with the checksums off, only
\* an offset that wraps there makes the output another.
UpsApplies ==
  ups # NoUpsJob /\ ups.intact /\ ups.rom \in {ups.x, ups.y} =>
    /\ upsStep = "done" => result = Goal \/ (ups.ignore /\ overrun)
    /\ upsStep = "failed" => overrun \/ NumberEnds(patchPos) = {}
    /\ upsStep = "failed" \/ overrun => RunLeftOpen

-----------------------------------------------------------------------------
\* The inductive invariant.

\* The runs are the stretches in which the files differ, all of them, in order.
RunsOK(x, y, runs) ==
  /\ runs \in Seq([from : Nat, to : Nat])
  /\ \A k \in DOMAIN runs :
       /\ runs[k].from < runs[k].to /\ runs[k].to \notin Differ(x, y)
       /\ runs[k].from..(runs[k].to - 1) \subseteq Differ(x, y)
  /\ \A j, k \in DOMAIN runs : j < k => runs[j].to < runs[k].from
  /\ \A p \in Differ(x, y) :
       \E k \in DOMAIN runs : p \in runs[k].from..(runs[k].to - 1)

\* Any files; when the patch's own checksum holds, it is a patch of two of them,
\* whose sizes an int holds.
UpsJobOK(j) ==
  /\ \A f \in {j.x, j.y, j.rom, j.body, j.footer} : f \in Seq(0..3)
  /\ j.intact => /\ Len(j.x) < IntLimit /\ Len(j.y) < IntLimit
                 /\ RunsOK(j.x, j.y, j.runs) /\ j.body = UpsBody(j.x, j.y, j.runs)

\* Where the runs of the patch start; the last place is their end.
UpsPlaces ==
  {P \in [0..Len(ups.runs) -> Nat] :
     /\ P[0] = Len(Number[Len(ups.x)]) + Len(Number[Len(ups.y)])
     /\ \A k \in 1..Len(ups.runs) :
          P[k] = P[k - 1] + Len(RunBytes(ups.x, ups.y, ups.runs, k))}

\* The output is right as far as outAt, and from there to the offset the files do
\* not differ; the ROM was read as far as the output goes.
UpsCopied ==
  /\ xSize = Len(ups.rom) /\ ySize = Len(Goal)
  /\ outAt \in 0..ySize /\ offset \in Nat /\ outAt <= offset /\ patchPos \in Nat
  /\ romCursor = IF outAt <= xSize THEN outAt ELSE xSize
  /\ result = [i \in 1..ySize |-> IF i <= outAt THEN Goal[i] ELSE 0]
  /\ \A p \in Differ(ups.x, ups.y) : p < outAt \/ p >= offset \/ p >= ySize

\* Before run k, and within it.
AtRun(k) ==
  /\ offset = Before(ups.runs, k)
  /\ \E P \in UpsPlaces : patchPos = P[k - 1]

InRun(k) ==
  /\ offset \in ups.runs[k].from..ups.runs[k].to /\ outAt = offset
  /\ \E P \in UpsPlaces :
       patchPos = P[k - 1] + Len(Number[ups.runs[k].from - Before(ups.runs, k)])
                    + (offset - ups.runs[k].from)

\* Past the end of the output nothing that is read changes anything until the
\* offset wraps.
Beyond == RunLeftOpen /\ (overrun \/ offset >= ySize)

UpsInv ==
  IF ups = NoUpsJob THEN UpsIdle
  ELSE /\ UpsJobOK(ups)
       /\ ups.intact /\ ups.rom \in {ups.x, ups.y} =>
            /\ overrun \in BOOLEAN /\ (overrun => RunLeftOpen)
            /\ upsStep = "open" => /\ patchPos = 0 /\ offset = 0 /\ outAt = 0
                                   /\ romCursor = 0 /\ ~overrun
            /\ (upsStep \in {"next", "xor"} /\ ~overrun) => UpsCopied
            /\ upsStep = "next" => Beyond \/ \E k \in 1..(Len(ups.runs) + 1) : AtRun(k)
            /\ upsStep = "xor" => Beyond \/ \E k \in 1..Len(ups.runs) : InRun(k)
            /\ upsStep = "done" => result = Goal \/ (ups.ignore /\ overrun)
            /\ upsStep = "failed" => /\ RunLeftOpen
                                     /\ overrun \/ NumberEnds(patchPos) = {}
=============================================================================
