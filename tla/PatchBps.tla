------------------------------ MODULE PatchBps ------------------------------
(***************************************************************************)
(* BpsPatcher (lib/patcher/bps_patcher.dart): the output is put together by*)
(* actions that copy from the ROM, from the patch or from the output itself*)
(* (maybe from bytes the same action writes).  The offsets of two kinds of *)
(* copies are relative to where the previous copy of that kind ended.      *)
(*                                                                         *)
(* The patch is any that a correct encoder could write for two files: it is*)
(* chosen action by action while it is applied.  The CRC32 of a file is the*)
(* file itself.                                                            *)
(***************************************************************************)
EXTENDS Integers, Sequences

(***************************************************************************)
(* A job is a record: x and y, the files the patch leads from and to; rom; *)
(* intact, whether the patch's own checksum holds; ignore, ignoreChecksum. *)
(***************************************************************************)
CONSTANT NoBpsJob   \* the value of `bps' while the patcher does not run

VARIABLES
  bps,            \* the job that runs, or NoBpsJob
  bpsStep,        \* "open", "apply", "done", "failed"
  enc,            \* the encoder: bytes of y described, ends of its last copies
  outputPos,
  romRelOffset,
  outRelOffset,
  bpsOut          \* out

bpsVars == <<bps, bpsStep, enc, outputPos, romRelOffset, outRelOffset, bpsOut>>

BpsFail ==
  /\ bpsStep' = "failed"
  /\ UNCHANGED <<bps, enc, outputPos, romRelOffset, outRelOffset, bpsOut>>

-----------------------------------------------------------------------------
\* The format, as the tools that make patches write it: the numbers n and rel of
\* the next action, its literal bytes, and where the encoder's copies then end.
Agree(s, from, len) ==
  /\ from >= 0 /\ from + len <= Len(s)
  /\ \A k \in 1..len : s[from + k] = bps.y[enc.pos + k]

Signed(d) == IF d >= 0 THEN 2 * d ELSE 1 - 2 * d

Action(mode, len, rel, data, src, tgt) ==
  [n |-> 4 * (len - 1) + mode, rel |-> Signed(rel), data |-> data,
   after |-> [pos |-> enc.pos + len, src |-> src, tgt |-> tgt]]

Lengths == 1..(Len(bps.y) - enc.pos)

NextActions ==
  {Action(0, l, 0, << >>, enc.src, enc.tgt) :
     l \in {k \in Lengths : Agree(bps.x, enc.pos, k)}}
  \cup {Action(1, l, 0, SubSeq(bps.y, enc.pos + 1, enc.pos + l), enc.src, enc.tgt) :
          l \in Lengths}
  \cup {Action(2, c[1], c[2] - enc.src, << >>, c[2] + c[1], enc.tgt) :
          c \in {d \in Lengths \X (0..Len(bps.x)) : Agree(bps.x, d[2], d[1])}}
  \cup {Action(3, c[1], c[2] - enc.tgt, << >>, enc.src, c[2] + c[1]) :
          c \in {d \in Lengths \X (0..(enc.pos - 1)) : Agree(bps.y, d[2], d[1])}}

-----------------------------------------------------------------------------
\* The checks before the loop; the output has the size the patch records.
BpsOpen ==
  /\ bps # NoBpsJob
  /\ bpsStep = "open"
  /\ IF ~bps.ignore /\ ~(bps.intact /\ bps.rom = bps.x)
     THEN BpsFail
     ELSE /\ bpsOut' = [i \in 1..Len(bps.y) |-> 0]
          /\ bpsStep' = "apply"
          /\ UNCHANGED <<bps, enc, outputPos, romRelOffset, outRelOffset>>

Mode(n) == n % 4
Length(n) == n \div 4 + 1
Offset(rel) == (IF rel % 2 = 1 THEN -1 ELSE 1) * (rel \div 2)

\* setRange: what it throws at.
InRange(s, from, len) ==
  /\ outputPos + len <= Len(bpsOut)
  /\ from >= 0 /\ from + len <= Len(s)

Written(len, Value(_)) ==
  [i \in DOMAIN bpsOut |->
     IF outputPos < i /\ i <= outputPos + len THEN Value(i - outputPos)
     ELSE bpsOut[i]]

Applying(a, mode) ==
  /\ bpsStep = "apply"
  /\ Mode(a.n) = mode
  /\ enc' = a.after

SourceRead(a) ==
  /\ Applying(a, 0)
  /\ LET len == Length(a.n)
     IN IF ~InRange(bps.rom, outputPos, len)
        THEN bpsStep' = "failed" /\ UNCHANGED <<outputPos, bpsOut>>
        ELSE /\ bpsOut' = Written(len, LAMBDA k : bps.rom[outputPos + k])
             /\ outputPos' = outputPos + len
             /\ UNCHANGED bpsStep
  /\ UNCHANGED <<bps, romRelOffset, outRelOffset>>

TargetRead(a) ==
  /\ Applying(a, 1)
  /\ LET len == Length(a.n)
     IN /\ bpsOut' = Written(len, LAMBDA k : a.data[k])
        /\ outputPos' = outputPos + len
  /\ UNCHANGED <<bps, bpsStep, romRelOffset, outRelOffset>>

\* Mutant of SourceCopy: the cursor stays where the copy began.
SourceCopyCursorStays(a) ==
  /\ Applying(a, 2)
  /\ LET len == Length(a.n)
         from == romRelOffset + Offset(a.rel)
     IN /\ romRelOffset' = from
        /\ IF ~InRange(bps.rom, from, len)
           THEN bpsStep' = "failed" /\ UNCHANGED <<outputPos, bpsOut>>
           ELSE /\ bpsOut' = Written(len, LAMBDA k : bps.rom[from + k])
                /\ outputPos' = outputPos + len
                /\ UNCHANGED bpsStep
  /\ UNCHANGED <<bps, outRelOffset>>

SourceCopy(a) ==
  /\ Applying(a, 2)
  /\ LET len == Length(a.n)
         from == romRelOffset + Offset(a.rel)
     IN IF ~InRange(bps.rom, from, len)
        THEN /\ bpsStep' = "failed"
             /\ romRelOffset' = from
             /\ UNCHANGED <<outputPos, bpsOut>>
        ELSE /\ bpsOut' = Written(len, LAMBDA k : bps.rom[from + k])
             /\ outputPos' = outputPos + len
             /\ romRelOffset' = from + len
             /\ UNCHANGED bpsStep
  /\ UNCHANGED <<bps, outRelOffset>>

\* Byte by byte: from a place less than its length back the copy goes on with
\* the bytes it has just written.
Copied(from, len) ==
  LET New[i \in DOMAIN bpsOut] ==
        IF outputPos < i /\ i <= outputPos + len
        THEN IF from < outputPos THEN New[i - (outputPos - from)]
             ELSE bpsOut[i + (from - outputPos)]
        ELSE bpsOut[i]
  IN New

TargetCopy(a) ==
  /\ Applying(a, 3)
  /\ LET len == Length(a.n)
         from == outRelOffset + Offset(a.rel)
     IN IF ~InRange(bpsOut, from, len)
        THEN /\ bpsStep' = "failed"
             /\ UNCHANGED <<outputPos, outRelOffset, bpsOut>>
        ELSE /\ bpsOut' = Copied(from, len)
             /\ outputPos' = outputPos + len
             /\ outRelOffset' = from + len
             /\ UNCHANGED bpsStep
  /\ UNCHANGED <<bps, romRelOffset>>

\* The actions are used up: the output is on disk, whatever its checksum says.
BpsEnd ==
  /\ bps # NoBpsJob
  /\ bpsStep = "apply"
  /\ enc.pos = Len(bps.y)
  /\ bpsStep' = IF ~bps.ignore /\ bpsOut # bps.y THEN "failed" ELSE "done"
  /\ UNCHANGED <<bps, enc, outputPos, romRelOffset, outRelOffset, bpsOut>>

-----------------------------------------------------------------------------
BpsIdle ==
  /\ bps = NoBpsJob
  /\ bpsStep = "open"
  /\ enc = [pos |-> 0, src |-> 0, tgt |-> 0]
  /\ outputPos = 0 /\ romRelOffset = 0 /\ outRelOffset = 0
  /\ bpsOut = << >>

StartBps(j) ==
  /\ bps = NoBpsJob
  /\ bps' = j
  /\ UNCHANGED <<bpsStep, enc, outputPos, romRelOffset, outRelOffset, bpsOut>>

BpsStep ==
  \/ BpsOpen
  \/ /\ bps # NoBpsJob /\ bpsStep = "apply"
     /\ \E a \in NextActions :
          SourceRead(a) \/ TargetRead(a) \/ SourceCopy(a) \/ TargetCopy(a)
  \/ BpsEnd

-----------------------------------------------------------------------------
\* Whatever actions the encoder took, mixed and chained through the two relative
\* cursors, reading ahead or into its own output, a whole patch turns the ROM it
\* was made for into the other file and is not rejected.
BpsApplies ==
  bps # NoBpsJob /\ bps.intact /\ bps.rom = bps.x =>
    /\ bpsStep # "failed"
    /\ bpsStep = "done" => bpsOut = bps.y

-----------------------------------------------------------------------------
BpsJobOK(j) == j.x \in Seq(Int) /\ j.y \in Seq(Int)

\* The patcher is where the encoder is, with all its cursors, and has written
\* what the encoder has described.
BpsInv ==
  IF bps = NoBpsJob
  THEN /\ bpsStep = "open" /\ enc = [pos |-> 0, src |-> 0, tgt |-> 0]
       /\ outputPos = 0 /\ romRelOffset = 0 /\ outRelOffset = 0
  ELSE /\ BpsJobOK(bps)
       /\ bps.intact /\ bps.rom = bps.x =>
            /\ bpsStep \in {"open", "apply", "done"}
            /\ enc = [pos |-> outputPos, src |-> romRelOffset, tgt |-> outRelOffset]
            /\ outputPos \in 0..Len(bps.y) /\ romRelOffset \in Nat /\ outRelOffset \in Nat
            /\ bpsStep = "open" => outputPos = 0
            /\ bpsStep = "apply" =>
                 /\ bpsOut \in Seq(Int) /\ Len(bpsOut) = Len(bps.y)
                 /\ \A i \in 1..outputPos : bpsOut[i] = bps.y[i]
            /\ bpsStep = "done" => bpsOut = bps.y
=============================================================================
