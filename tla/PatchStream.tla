---------------------------- MODULE PatchStream ----------------------------
(***************************************************************************)
(* The patchers that write the output from its first byte to its last while*)
(* they read the records of the patch: IpsPatcher (lib/patcher/ips_patcher *)
(* .dart, which EbpPatcher calls too) and ApsN64Patcher (aps_n64_patcher   *)
(* .dart).  Both keep two counters, of the output and of the ROM, beside   *)
(* the real position of the ROM's file handle.                             *)
(*                                                                         *)
(* A byte of the output is named by where it comes from: <<"rom", i>>,     *)
(* <<"rec", k, j>> for byte j of record k (j = 0 throughout a run of one   *)
(* value), or Zero.                                                        *)
(***************************************************************************)
EXTENDS Integers, Sequences

(***************************************************************************)
(* A job of these patchers is a record:                                    *)
(*   fmt      "ips" or "n64"                                               *)
(*   romSize  length of the ROM                                            *)
(*   records  sequence of [at, len, run]                                   *)
(*   missing  bytes of the last record's data that the file lacks          *)
(*   eof      "ips": the end marker is there                               *)
(*   cutAt    "ips": the truncation offset after the marker, or -1         *)
(*   outSize  "n64": the size of the output the header records             *)
(***************************************************************************)
CONSTANT NoStreamJob   \* the value of `job' while none of these runs

VARIABLES
  job,      \* the job that runs, or NoStreamJob
  step,     \* "record", "data", "skip", "done"
  rec,      \* index of the record that is read, or read next
  romPos,   \* the counters
  outPos,
  handle,   \* position of the ROM's file handle
  written   \* the output file

streamVars == <<job, step, rec, romPos, outPos, handle, written>>

Zero == <<"zero">>

Least(a, b) == IF a <= b THEN a ELSE b
AtLeast0(n) == IF n < 0 THEN 0 ELSE n

\* What a read of n bytes of the ROM at position h gives.
RomBytes(h, n) ==
  [i \in 1..AtLeast0(Least(n, job.romSize - h)) |-> <<"rom", h + i - 1>>]

Zeros(n) == [i \in 1..AtLeast0(n) |-> Zero]

Rec == job.records[rec]

HasRecord == rec <= Len(job.records)
Short == rec = Len(job.records) /\ job.missing > 0

-----------------------------------------------------------------------------
\* The ROM up to a record's offset, and zeros where the ROM ends before it.
CopyToOffset ==
  /\ job # NoStreamJob
  /\ step = "record" /\ HasRecord
  /\ LET upto == Least(Rec.at, job.romSize)
         copied == AtLeast0(upto - outPos)
         fill == IF Rec.at > job.romSize THEN Rec.at - (outPos + copied) ELSE 0
         data == RomBytes(handle, copied)
     IN /\ written' = written \o data \o Zeros(fill)
        /\ handle' = handle + Len(data)
        /\ romPos' = romPos + copied
        /\ outPos' = outPos + copied + AtLeast0(fill)
  /\ step' = "data"
  /\ UNCHANGED <<job, rec>>

\* The data of a record, or the run of one value.  The counter moves by the
\* record's size also when the file has less.
WriteData ==
  /\ job # NoStreamJob
  /\ step = "data"
  /\ LET have == IF Short THEN Rec.len - job.missing ELSE Rec.len
     IN written' = written \o
          [j \in 1..have |-> <<"rec", rec, IF Rec.run THEN 0 ELSE j>>]
  /\ outPos' = outPos + Rec.len
  /\ step' = "skip"
  /\ UNCHANGED <<job, rec, romPos, handle>>

\* Mutant of SkipReplaced: the ROM goes on where it was.
SkipNothing ==
  /\ job # NoStreamJob
  /\ step = "skip"
  /\ step' = "record"
  /\ rec' = rec + 1
  /\ UNCHANGED <<job, romPos, outPos, handle, written>>

\* The bytes the record replaced are skipped in the ROM.  A record that reaches
\* past the ROM's end sets the counter and leaves the handle.
SkipReplaced ==
  /\ job # NoStreamJob
  /\ step = "skip"
  /\ IF Rec.at > job.romSize THEN UNCHANGED <<romPos, handle>>
     ELSE IF romPos + Rec.len > job.romSize
          THEN romPos' = job.romSize /\ UNCHANGED handle
          ELSE romPos' = romPos + Rec.len /\ handle' = romPos + Rec.len
  /\ step' = "record"
  /\ rec' = rec + 1
  /\ UNCHANGED <<job, outPos, written>>

\* The end marker: the rest of the ROM follows, up to the truncation offset
\* when there is one that the counter has not passed.
IpsEnd ==
  /\ job # NoStreamJob
  /\ step = "record" /\ ~HasRecord
  /\ job.fmt = "ips" /\ job.eof
  /\ written' = written \o
       IF romPos < job.romSize
       THEN RomBytes(handle, (IF job.cutAt >= romPos THEN job.cutAt
                              ELSE job.romSize) - romPos)
       ELSE << >>
  /\ step' = "done"
  /\ UNCHANGED <<job, rec, romPos, outPos, handle>>

\* The file ends without a marker: the loop is left, and nothing is said.
IpsRunsOut ==
  /\ job # NoStreamJob
  /\ step = "record" /\ ~HasRecord
  /\ job.fmt = "ips" /\ ~job.eof
  /\ step' = "done"
  /\ UNCHANGED <<job, rec, romPos, outPos, handle, written>>

\* copyBytes(rom, output, outSize - outPos)
N64End ==
  /\ job # NoStreamJob
  /\ step = "record" /\ ~HasRecord
  /\ job.fmt = "n64"
  /\ written' = written \o RomBytes(handle, job.outSize - outPos)
  /\ step' = "done"
  /\ UNCHANGED <<job, rec, romPos, outPos, handle>>

-----------------------------------------------------------------------------
StreamIdle ==
  /\ job = NoStreamJob
  /\ step = "done" /\ rec = 1
  /\ romPos = 0 /\ outPos = 0 /\ handle = 0
  /\ written = << >>

StartStream(j) ==
  /\ job = NoStreamJob
  /\ job' = j
  /\ step' = "record"
  /\ UNCHANGED <<rec, romPos, outPos, handle, written>>

StreamStep ==
  \/ CopyToOffset \/ WriteData \/ SkipReplaced
  \/ IpsEnd \/ IpsRunsOut \/ N64End

-----------------------------------------------------------------------------
\* What a patch means: the ROM, with each record at its absolute offset.
EndOf(r) == r.at + r.len

LastEnd == IF job.records = << >> THEN 0
           ELSE EndOf(job.records[Len(job.records)])

Covering(x) ==
  {k \in DOMAIN job.records :
     job.records[k].at <= x /\ x < EndOf(job.records[k])}

MeantByte(x) ==
  IF Covering(x) # {}
  THEN LET k == CHOOSE k \in Covering(x) : \A l \in Covering(x) : l <= k
       IN <<"rec", k, IF job.records[k].run THEN 0
                      ELSE x - job.records[k].at + 1>>
  ELSE IF x < job.romSize THEN <<"rom", x>> ELSE Zero

MeantSize ==
  IF job.fmt = "n64" THEN job.outSize
  ELSE IF job.cutAt # -1 THEN Least(job.cutAt, job.romSize)
  ELSE IF LastEnd > job.romSize THEN LastEnd ELSE job.romSize

\* The patches the usual tools write: whole, with records that ascend and do
\* not overlap; a truncation offset or a size of the output that lies past the
\* last record, and a size past the ROM only as far as the last record reaches.
Usual ==
  /\ job.missing = 0
  /\ \A k \in 2..Len(job.records) : EndOf(job.records[k - 1]) <= job.records[k].at
  /\ job.fmt = "ips" => /\ job.eof
                        /\ job.cutAt # -1 => LastEnd <= Least(job.cutAt, job.romSize)
  /\ job.fmt = "n64" =>
       LastEnd = job.outSize \/ (LastEnd < job.outSize /\ job.outSize <= job.romSize)

\* The output is what the patch means, byte for byte, although it is written in
\* one pass by counters that only follow the ROM's file handle.
PatchedRight ==
  job # NoStreamJob /\ step = "done" /\ Usual =>
    written = [i \in 1..MeantSize |-> MeantByte(i - 1)]

-----------------------------------------------------------------------------
StreamJobOK(j) ==
  /\ j.fmt \in {"ips", "n64"}
  /\ j.romSize \in Nat /\ j.missing \in Nat /\ j.outSize \in Nat
  /\ j.cutAt \in Nat \cup {-1}
  /\ j.records \in Seq([at : Nat, len : Nat, run : BOOLEAN])

\* Where the last record that was read ends.
PrevEnd == IF rec = 1 THEN 0 ELSE EndOf(job.records[rec - 1])

\* What is written is what is meant, as far as it goes.  The counters say how far
\* that is, in the output and, while there is ROM left, in the ROM; the file
\* handle is there too.
StreamInv ==
  IF job = NoStreamJob
  THEN rec = 1 /\ romPos = 0 /\ outPos = 0 /\ handle = 0 /\ written = << >>
  ELSE /\ StreamJobOK(job)
       /\ step \in {"record", "data", "skip", "done"}
       /\ Usual =>
            /\ rec \in 1..(Len(job.records) + 1)
            /\ step \in {"data", "skip"} => HasRecord
            /\ outPos = CASE step = "record" -> PrevEnd
                          [] step = "data" -> Rec.at
                          [] step = "skip" -> EndOf(Rec)
                          [] OTHER -> outPos
            /\ handle \in Nat
            /\ step # "done" =>
                 LET inRom == IF step = "record" THEN PrevEnd ELSE Rec.at
                 IN /\ romPos = Least(inRom, job.romSize)
                    /\ inRom <= job.romSize => handle = inRom
            /\ written = [i \in 1..(IF step = "done" THEN MeantSize ELSE outPos)
                            |-> MeantByte(i - 1)]
=============================================================================
