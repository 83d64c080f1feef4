---------------------------- MODULE PatchXdelta ----------------------------
(***************************************************************************)
(* XdeltaPatcher (lib/patcher/xdelta_patcher.dart) and the loop it calls,  *)
(* decode_stream of packages/xdelta3_ffi/src/xdelta3_ffi.c: it feeds the   *)
(* patch to the decoder of xdelta3 buffer by buffer, fetches the blocks of *)
(* the ROM the decoder asks for, and writes what it decodes, one window    *)
(* at a time.                                                              *)
(*                                                                         *)
(* The decoder is vendored code, modelled from what the loop relies on: it *)
(* keeps the input of a window until it has all of it, asks for a block    *)
(* whenever it needs another than the one it holds, and compares a decoded *)
(* window with its checksum, when the patch has one for it.                *)
(***************************************************************************)
EXTENDS Integers, Sequences

(***************************************************************************)
(* A job is a record: header, the length of the patch's header; windows,   *)
(* each with the place in the patch where it ends, the ROM blocks it is    *)
(* put together from, and sum, whether it has a checksum; x, the blocks of *)
(* the file the patch was made for; rom, those of the file selected; kept, *)
(* how much of the patch there is; room, how many windows the disk has     *)
(* space for; ignore, ignoreChecksum.                                      *)
(***************************************************************************)
CONSTANTS
  NoXdJob,    \* the value of `xd' while the patcher does not run
  Buffer,     \* BUFFER_SIZE
  LongBlocks  \* the blocks whose place is a long: 32 bits on Windows, or 64

ASSUME BufferAssumption == Buffer \in Nat \ {0}
ASSUME LongAssumption == LongBlocks \in Nat \ {0}

VARIABLES
  xd,         \* the job that runs, or NoXdJob
  xdStep,     \* "read", "decode", "window", "done", "failed"
  fed,        \* how much of the patch the decoder was given
  readLen,    \* input_buf_read
  winDone,    \* windows decoded and written
  decoded,    \* the window being decoded, as far as it is
  curblkno,
  curblk,     \* the block in source.curblk
  xdOut       \* the windows in the output file

xdVars == <<xd, xdStep, fed, readLen, winDone, decoded, curblkno, curblk, xdOut>>

\* A block past the end of the ROM is empty: fread reads nothing.
NoBlock == -1
BlockOf(file, b) == IF b < Len(file) THEN file[b + 1] ELSE NoBlock

\* Where window w of a patch ends.
EndIn(patch, w) == IF w = 0 THEN patch.header ELSE patch.windows[w].end

WindowEnd(w) == EndIn(xd, w)

\* What window w decodes to with the blocks of a file.
Decoding(file, w) ==
  [k \in DOMAIN xd.windows[w].blocks |-> BlockOf(file, xd.windows[w].blocks[k])]

\* The first n windows of the file the patch leads to.
Target(n) == [w \in 1..n |-> Decoding(xd.x, w)]

-----------------------------------------------------------------------------
\* fread, avail_input: a read that comes back short ends the patch.
ReadPatch ==
  /\ xd # NoXdJob
  /\ xdStep = "read"
  /\ readLen' = IF xd.kept - fed < Buffer THEN xd.kept - fed ELSE Buffer
  /\ fed' = fed + readLen'
  /\ xdStep' = "decode"
  /\ UNCHANGED <<xd, winDone, decoded, curblkno, curblk, xdOut>>

\* The decoder has all of the next window.
WindowComplete ==
  winDone < Len(xd.windows) /\ WindowEnd(winDone + 1) <= fed

\* XD3_INPUT: the loop goes on while the buffer came back full.  What the decoder
\* still waits for is not asked: xd3_close_stream's answer is dropped.
WantsInput ==
  /\ xdStep = "decode"
  /\ ~WindowComplete
  /\ xdStep' = IF readLen = Buffer THEN "read" ELSE "done"
  /\ UNCHANGED <<xd, fed, readLen, winDone, decoded, curblkno, curblk, xdOut>>

\* XD3_WINSTART
WindowStarts ==
  /\ xdStep = "decode"
  /\ WindowComplete
  /\ xdStep' = "window" /\ decoded' = << >>
  /\ UNCHANGED <<xd, fed, readLen, winDone, curblkno, curblk, xdOut>>

Blocks == xd.windows[winDone + 1].blocks
Wanted == Blocks[Len(decoded) + 1]

\* Mutant of Fetched: the number of the block is set, its bytes stay.
FetchedNumber(b) == curblk

\* The place of a block is 64 bits wide and fseek takes a long: the place wraps,
\* to an earlier block or to a negative one, which fseek refuses.
SeekBlock(b) == b % (2 * LongBlocks)
Seeks(b) == SeekBlock(b) < LongBlocks

\* fread
Fetched(b) == BlockOf(xd.rom, SeekBlock(b))

\* XD3_GETSRCBLK
GetSourceBlock ==
  /\ xdStep = "window"
  /\ Len(decoded) < Len(Blocks)
  /\ Wanted # curblkno
  /\ IF Seeks(Wanted)
     THEN curblkno' = Wanted /\ curblk' = Fetched(Wanted) /\ UNCHANGED xdStep
     ELSE xdStep' = "failed" /\ UNCHANGED <<curblkno, curblk>>
  /\ UNCHANGED <<xd, fed, readLen, winDone, decoded, xdOut>>

\* The decoder copies out of the block it holds; there is nothing to copy when
\* the ROM ends before it.
CopyFromBlock ==
  /\ xdStep = "window"
  /\ Len(decoded) < Len(Blocks)
  /\ Wanted = curblkno
  /\ IF curblk = NoBlock
     THEN xdStep' = "failed" /\ UNCHANGED decoded
     ELSE decoded' = Append(decoded, curblk) /\ UNCHANGED xdStep
  /\ UNCHANGED <<xd, fed, readLen, winDone, curblkno, curblk, xdOut>>

\* The window has a checksum, and XD3_ADLER32_NOVER is not set.
Compared(w) == xd.windows[w].sum /\ ~xd.ignore

\* The checksum; then XD3_OUTPUT, where a short fwrite ends the run, and
\* XD3_WINFINISH.
WindowEnds ==
  /\ xdStep = "window"
  /\ Len(decoded) = Len(Blocks)
  /\ IF \/ Compared(winDone + 1) /\ decoded # Decoding(xd.x, winDone + 1)
        \/ winDone = xd.room
     THEN xdStep' = "failed" /\ UNCHANGED <<winDone, xdOut>>
     ELSE /\ xdOut' = Append(xdOut, decoded)
          /\ winDone' = winDone + 1
          /\ xdStep' = "decode"
  /\ UNCHANGED <<xd, fed, readLen, decoded, curblkno, curblk>>

-----------------------------------------------------------------------------
XdIdle ==
  /\ xd = NoXdJob
  /\ xdStep = "read"
  /\ fed = 0 /\ readLen = 0
  /\ winDone = 0 /\ decoded = << >>
  /\ curblkno = 0 /\ curblk = NoBlock
  /\ xdOut = << >>

\* The first block is read before the loop.
StartXdelta(j) ==
  /\ xd = NoXdJob
  /\ xd' = j
  /\ curblk' = BlockOf(j.rom, 0)
  /\ UNCHANGED <<xdStep, fed, readLen, winDone, decoded, curblkno, xdOut>>

XdStep ==
  /\ xd # NoXdJob
  /\ \/ ReadPatch
     \/ WantsInput
     \/ WindowStarts
     \/ GetSourceBlock
     \/ CopyFromBlock
     \/ WindowEnds

-----------------------------------------------------------------------------
\* The file selected is the one the patch was made for, and a long reaches its end.
OwnRom == xd.rom = xd.x /\ Len(xd.x) <= LongBlocks

\* Wherever the buffers cut the patch, a whole patch on the ROM it was made for
\* is not rejected and gives the whole file, if fseek reaches all of the ROM.  On
\* any ROM, and for a patch cut short, a run that reports success with the checks
\* on has written the right window wherever the patch has a checksum for it, and
\* leaves windows out of a patch cut short only.
XdeltaApplies ==
  xd # NoXdJob =>
    LET whole == xd.kept >= WindowEnd(Len(xd.windows))
        all == Len(xd.windows)
    IN /\ whole /\ OwnRom /\ xd.room >= all =>
            /\ xdStep # "failed"
            /\ xdStep = "done" => xdOut = Target(all)
       /\ xdStep = "done" =>
            /\ Len(xdOut) = winDone
            /\ \A w \in 1..winDone : Compared(w) => xdOut[w] = Decoding(xd.x, w)
            /\ whole => winDone = all

-----------------------------------------------------------------------------
\* The jobs: a patch is made for blocks that are there.
XdJobOK(j) ==
  /\ j.header \in Nat /\ j.kept \in Nat /\ j.room \in Nat
  /\ j.x \in Seq(Nat) /\ j.rom \in Seq(Nat)
  /\ j.windows \in Seq([end : Nat, blocks : Seq(Nat), sum : BOOLEAN])
  /\ \A v, w \in 0..Len(j.windows) : v <= w => EndIn(j, v) <= EndIn(j, w)
  /\ \A w \in DOMAIN j.windows :
       \A k \in DOMAIN j.windows[w].blocks : j.windows[w].blocks[k] < Len(j.x)

\* The block held is the one its number leads fseek to; a short read was the last
\* one; the window being decoded is what the ROM gives; those written are the right
\* ones when compared, or when the ROM is.
XdInv ==
  IF xd = NoXdJob
  THEN /\ xdStep = "read" /\ fed = 0 /\ readLen = 0 /\ winDone = 0
       /\ decoded = << >> /\ curblkno = 0 /\ xdOut = << >>
  ELSE /\ XdJobOK(xd)
       /\ fed \in 0..xd.kept /\ readLen \in 0..Buffer /\ winDone \in 0..Len(xd.windows)
       /\ curblkno \in Nat /\ curblk = Fetched(curblkno)
       /\ xdStep # "read" => readLen = Buffer \/ fed = xd.kept
       /\ xdStep = "window" =>
            /\ winDone < Len(xd.windows)
            /\ decoded \in Seq(Nat) /\ Len(decoded) <= Len(Blocks)
            /\ \A k \in 1..Len(decoded) : decoded[k] = Fetched(Blocks[k])
       /\ xdStep = "done" => ~WindowComplete /\ readLen < Buffer
       /\ xdOut \in Seq(Seq(Nat)) /\ Len(xdOut) = winDone
       /\ \A w \in 1..winDone : Compared(w) \/ OwnRom => xdOut[w] = Decoding(xd.x, w)
       /\ OwnRom /\ xd.room >= Len(xd.windows) => xdStep # "failed"
=============================================================================
