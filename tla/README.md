# FinalRom: TLA+ models, checks and proofs

FinalRom is a Flutter application that converts game images: CHD discs, NSZ and
NSP archives, card images, 3DS encryption, patches, hashes. Two kinds of code in
it go wrong in ways a unit test hardly reaches. One is its *blocs*: event
handlers on the UI isolate that drive worker isolates, native calls, heap cells
shared with them, ports, timers and scratch directories. The other is its
*converters*, whose cursors, offsets and tables meet in combinations nobody wrote
a file for, and which may be killed between any two writes. This directory models
both. TLC checks all of them; TLAPS proves the safety of the blocs, of the NSZ
pipeline, of 3DS encryption, of the NCZ codec and of the patchers, and that
both kinds of queue implement what a queue promises.

    tlc -config NativeQueue.cfg MCNativeQueue.tla     (any run of PROJECT.json)
    tlapm NativeQueueProofs.tla

## Inventory

| Component (under `src/`) | State | Operations | Interacts with | What makes it correct |
|---|---|---|---|---|
| CHD and archive queues: `lib/blocs/chd_bloc.dart`, `archive_bloc.dart`, `queue_progress.dart` | job list, index, results, flags, two C heap cells, a timer, a port | start, cancel, tick, result, close | `ChdWorker`/`ArchiveWorker` isolates blocked in a native call | cells never freed under the call; nothing leaks; results are the queue's own; the queue ends |
| NSZ and unmerge queues: `nsz_bloc.dart`, `nsp_unmerge_bloc.dart` | job list, index, results, isolate, port, scratch path | start, cancel, progress, result, close | workers that are killed to cancel; scratch directories | one worker at a time; no scratch directory forgotten; the queue ends, or hangs on nothing but a job that was lost |
| NSZ benchmark: `lib/ui/nsz_benchmark_screen.dart` | isolate, port, scratch path, output path | start, cancel, result, dispose | the same worker, without a bloc | the same; the output stays until the screen is left |
| 3DS batch: `batch_bloc.dart` | item list, two maps keyed by path, parallelism | add, remove, clear, start, cancel, progress, result, close | a pool of `CryptoWorker` isolates | the limit; every running item has its worker; the summary is complete |
| One-shot blocs: conversion, merge, patcher, hasher | isolate, port | start, cancel, progress, result, close | one killed-to-cancel worker | no orphan worker, no stale result |
| 3DS crypto: `lib/src/` | the ROM file | per partition: sections, then flags | file system | encrypt and decrypt are inverse; a crash is recoverable |
| NCZ codec: `lib/switch/ncz.dart` | section table, stream, emitter | partition, compress, decompress | zstd, AES | the pieces cover the body; what is compressed is plaintext; the NCA comes back |
| NSZ archive: `nsz_archive.dart` | temp directory, semaphore, nested isolates | compress, decompress | NCZ codec, PFS0 | permits conserved; all members written; clean-up after the last writer |
| XCZ archive: `xcz_archive.dart` | one file handle, root and nested builders | compress, decompress | NCZ codec, HFS0, XCI | every file is found again; no header over a file |
| Switch containers: `pfs0`, `hfs0`, `xci_reader`, `nca`, `cnmt` | offsets | build, open, read | files | what is built can be read back |
| Merger and unmerger: `merger.dart`, `unmerger.dart` | members, titles | merge, group, write | containers | every title comes back as it went in |
| Patchers: `lib/patcher/` (nine formats), `packages/xdelta3_ffi` | cursors, blocks | apply | files, the xdelta decoder | the output is what the patch means |
| Patch screen and verification: `lib/ui/patcher_tab.dart`, `lib/services/patch_verifier.dart` | selections, banner | pick, check, apply | patchers, one-shot bloc | the banner speaks of the files selected |
| Scratch files and caches: `file_service.dart` | scratch directories | create, delete, purge, Clear cache | NSZ queue, benchmark, launch | what a dead process left is deleted |
| Settings, other screens | preferences, widgets | | all blocs | the gate: no Start while one runs |
| Native bridges: `packages/chdman_ffi`, `archive_ffi` | output file | compress, extract | the two cells | a partial output is removed, or at least its removal tried |

The hard behaviours: an event handled between two steps of an `async` handler
(`await Isolate.spawn`, `await createScratchDir`, a check that reads a whole ROM),
a cancel racing a result, a result of an abandoned worker, cells shared with
native code that nothing can interrupt, a spawn that fails, resources to release
on every path, a process that dies with directories on disk or a file half
converted; and in the converters, sections that overlap, records that reach past
the end of a file, numbers that run into what follows them, files cut short.
`PROJECT.json` lists them one by one, at their lines, under `hazards`.

## How the code is read

* **One turn of the event loop is one action.** A message on a port, a timer or
  a click calls `add`; the handler runs in the microtasks of the same turn, up
  to its end or its first `await`. What follows an `await` is another action,
  always enabled once what it waits for has happened, whatever came in between.
* **A closed port drops what is sent to it**, also what was already queued.
* **`Isolate.kill(immediate)` is taken as immediate.** A worker that has sent
  its result has ended.
* **The message that resolves `Isolate.spawn` comes before any message of the
  isolate**, since the isolate sends it before its entry point runs.
* `ArchiveBloc` has the same handlers as `ChdBloc`; `main.dart` does not
  register it at this commit, but the bloc and its worker are there.
* The screens disable Start while their bloc runs. `NativeQueue` makes this a
  constant (`Gated`) because the code defends itself against its absence
  (`chd_bloc.dart:177`).
* **A converter runs alone in its isolate**, so one record, piece, member or
  partition is one action; files are small, and a byte is named by where it comes
  from whenever its value does not matter.

## Modules

| Module | Models | Used by |
|---|---|---|
| `JobQueue` | abstract: what a queue of files promises to its screen | refinement target of the next two |
| `NativeQueue` | `ChdBloc`, `ArchiveBloc`, their workers, the native calls | `MCNativeQueue` |
| `NativeQueueInv` | the inductive invariant `IInv` | `MCNativeQueue`, proofs |
| `NativeQueueProofs` | theorems about `NativeQueue`, its refinement of `JobQueue` included | |
| `ScratchQueue` | `NszBloc`, `NspUnmergeBloc`, `NszBenchmarkScreen`, their workers, scratch directories, purges, a restart | `MCScratchQueue` |
| `ScratchQueueProofs` | theorems about `ScratchQueue`, whose module holds its inductive invariant; the refinement included | |
| `BatchPool` | `BatchBloc` and its pool of `CryptoWorker`s | `MCBatchPool` |
| `BatchPoolProofs` | theorems about `BatchPool`, whose module holds its inductive invariant | |
| `OneShot` | `ConversionBloc`, `NspMergeBloc`, `PatcherBloc`, `HasherBloc`, their workers; holds its inductive invariant | `MCOneShot` |
| `OneShotProofs` | theorems about `OneShot` | |
| `NszPipeline` | `NszArchive` in the isolate of an NSZ job: the loop, `_Semaphore`, the nested isolates, the temporary directory; holds its inductive invariant | `MCNszPipeline` |
| `NszPipelineProofs` | theorems about `NszPipeline` | |
| `ThreeDsCrypto` | `decrypt3ds` and `encrypt3ds` on the partitions of an image; holds its inductive invariant | `MCThreeDsCrypto` |
| `ThreeDsCryptoProofs` | theorems about `ThreeDsCrypto` | |
| `NczCodec` | `Ncz.compress` and `Ncz.decompress` on the body of one NCA; holds the invariants of its partition, of the round trip and of its keys | `SwitchFiles` |
| `SwitchContainers` | the layout of PFS0, HFS0 and XCI files: operators, no state | `NspTools`, `XczArchive` |
| `NspTools` | `NspMerger.merge`, and `NspUnmerger.unmerge` of its output | `SwitchFiles` |
| `XczArchive` | `XczArchive.compress` and `decompress`; holds what is assumed of a card | `SwitchFiles` |
| `SwitchFiles` | the three converters of Switch files, each run by itself | `MCSwitchFiles` |
| `SwitchFilesProofs` | theorems about `NczCodec` and `XczArchive` | |
| `PatchStream` | `IpsPatcher` (and `EbpPatcher`), `ApsN64Patcher` | `PatchSession` |
| `PatchUps`, `PatchBps` | `UpsPatcher`, `BpsPatcher` | `PatchSession` |
| `PatchInPlace` | `PpfPatcher`, `ApsGbaPatcher`, `DpsPatcher` | `PatchSession` |
| `PatchXdelta` | `XdeltaPatcher` and `decode_stream` of `xdelta3_ffi.c` | `PatchSession` |
| `PatchSession` | the patch screen with `PatchVerifier`, and the patcher it leads to; holds the inductive invariant, a part of which is in each patcher | `MCPatchSession` |
| `PatchProofs` | theorems about `PatchSession` and all its patchers | |

The modules compose in two ways. By `EXTENDS`: `PatchSession` holds the screen and
all the patchers, and its `Dispatch` starts one of them with the files selected at
that moment; `SwitchFiles` holds the converters, over one set of containers. By
hand-over: a worker of `ScratchQueue` is one action per message there, what an NSZ
worker does in between is `NszPipeline`, whose `Kill` is the queue's `_cleanup`,
and what one of the pipeline's jobs makes of the bytes is `NczCodec`. In the same
way the worker of `BatchPool` and of `OneShot`'s conversion is an operation of
`ThreeDsCrypto`, and that of its patch run a patcher. `NativeQueue` and
`ScratchQueue` both implement `JobQueue`.

**JobQueue.** Jobs end one at a time and in order; the list is done when every job
has ended, or after a cancel. `Relaunch` is a new process, which begins with an
empty list: `ScratchQueue` maps its `Restart` to it, `NativeQueue` has none
(`session` stays 0). `Spec` says what may happen, `Progress` what must: a running
list ends.

**NativeQueue.** A worker is named `<<s, i>>`, job `i` of the `s`-th Start; its cells,
port and timer carry the same name, so that "freed while in use" and "late result" can
be said. `cells`, `port`, `timer` are the bloc's nullable fields; `heap`, `openPorts`,
`timers` are what really exists. `StartChd` is `_onStartChd` with the detach or
dispose and the `_startJob` it calls; `FinishRecorded` is `_onChdFinished` with the
next `_startJob`; `CancelIdle` and `CancelActive` are the two branches of
`_onCancelChd`. `NativeOk`, `NativeCancelled` and `NativeError` are the three ways a
native call returns, with what each kind of call does to its output: `Leftovers` lists
what an error return may leave, from the `std::remove` calls of `chdman_ffi.cpp` and
`archive_ffi.c`. Removals are best effort, those of the native code and
`_cleanupPartial`: what they fail to remove is "stuck", which nobody is told. A call
returns ok when its loop ran to its end; what the last steps lost whose results nobody
looks at (`archive_write_close`, `fclose`, `read_data`) makes its output "damaged"
(`Written`). `Isolate.spawn` is not awaited in this bloc, so its asynchronous failure
(`SpawnFails`) reaches nobody.

**ScratchQueue.** Same naming. `step[w]` says which `await` of `_startJob` is pending.
`variant` chooses `NszBloc` (two awaits, a scratch directory), `NspUnmergeBloc` (one
await, none) or `NszBenchmarkScreen` (a single job, no clean-up before it, a directory
that is kept when it succeeded). `disk` is what is on disk, `deleting` the calls of
`deleteScratchDir` under way, which nobody awaits: `DeletionEnds` deletes the
directory or, refused, leaves it ("left") and swallows the error.
`WorkerCreatesTempDir` makes a directory live again that was deleted under its worker.
`WorkerDies` is an isolate that ends without a result, as `nsz_doc` shows one: nobody
listens for its exit. `Restart` is a process that dies, its isolates with it, and the
next one's `main`, which starts `purgeScratchDirs` without awaiting it: `PurgeVisits`
is one turn of its loop, which may find directories made since, deletes a directory in
use (POSIX) or skips it (Windows). What refuses a deletion is a handle or an isolate
of the process that asked; after a relaunch there is none. `ClearCacheVisits` is the
same from the settings, at any time. `overtaken` is a history variable: it becomes
TRUE when a cancel or a close is handled while a `_startJob` awaits. The bloc's
promises hold until then and, as `scratch_doc` shows, not after. For the refinement, a
queue that was closed or overtaken (`Abandoned`) is a disposed one, of which
`JobQueue` promises nothing. `Hung` is a queue that waits for a job which was lost
without a word: its isolate died, or the await on `createScratchDir` threw.

**BatchPool.** `ports` and `isolates` are the maps `_activePorts` and
`_activeIsolates`; `openPorts` and `wk` what exists. `by` is a history variable:
whose result settled an item; so is `serial`, which says that at most one worker
ran at a time and no spawn failed so far. The order of the list is abstracted: any
pending item may be started next. A closed bloc refuses events but an awaited spawn
still registers its isolate. Progress events only change an item's progress text,
which no property tells apart.

**OneShot.** A run is named by its number; its port and isolate carry the same
name. `StartRun`, `Cancel`, `Finished` and `Close` are the handlers with the
`_cleanup` each calls; `SpawnReturns` and `SpawnFails` are the two ends of the
awaited `Isolate.spawn`. `SpawnFails` runs the handler of the failed result it
adds, which ends whatever run is current. Start is not gated: a file dropped on
the hasher (`hasher_tab.dart:32`) starts a run over a running one. `Report` and
`noted` are the facts a worker reports on the way (`_alreadyDecrypted`,
`_lastTrimMessage`). `overtaken` is a history variable as above, for each run.

**NszPipeline.** NCAs are named by their index. `pc` is where the archive function
is; `dead` means that an uncaught error ended the isolate, `killed` that the bloc
did. `Dispatch` reads the header of an NCA and runs its job up to the first await
that is not immediate (a permit and `Isolate.run`, or a place in the queue);
`GoOn` is the part of the loop that runs in the same turn, taking over entries
that are no NCAs. `JobSucceeds` and `JobFails` hold the job's `finally`. Serial
compression and `decompress` have the same control and are one mode
(`PackInLoop`). A nested isolate survives the isolate that started it. Files are
`whole` or not; one written in a deleted directory is lost. Progress is left out.

**ThreeDsCrypto.** AES-CTR is an XOR with a key stream, so a section of a partition is
the set of keys whose stream it is XORed with; `{}` is plain text and `Toggle` applies
a stream. `Released(p)` and `Decrypted` are the two forms of a partition. Between them
each write is an action (`CryptExHeader`, `CryptTable`, `RecodeDotCode`, `CryptBody`,
`CryptRomFs`, `WriteMethod`, `WriteFlags`), in the `Order` of the code, and `Kill` may
come before any of them. A file killed in the middle of one section's chunks is
damaged in the same partition as one killed before or after that section, which is
what the properties speak of. `RecodeDotCode` finds `.code` only if the table is
readable when it looks. The keys come from the partition's own flags when decrypting,
as the pre-scan read them before the first write (`scanned`), from partition 0's
backup header when encrypting; `Uniform` says of an image that this makes no
difference. `killed` and `reworked` are history variables: files an operation was
killed on, and files made from a damaged one, of which nothing is promised.

**NczCodec.** A byte is its place in the NCA and the key stream positions it is
XORed with, so compressing under a wrong counter shows although it round-trips.
`TakeSection` and `CloseTable` are `_partition` (with `_parseBktr2`), the emitter is
`_BodyEmitter`, `Foreign` are the files of the reference tool, whose tables start
within the header or end short. zstd keeps what it is given and hands it out in
pieces of any length.

**NspTools, SwitchContainers.** A container is a sequence of cells: a header, an
entry, a name, a byte of a member. What an NCA header, a CNMT or a ticket says is a
function of its content, given by the instance. `merge` collects members (duplicates
by name, tickets that do not parse, inputs cut short) and writes; `unmerge` scans,
groups by CNMT and splits.

**XczArchive.** One file handle, whose position the root builder and the builder
of the current partition share; the headers are written last, into the space left
for them. Compressing writes a placeholder for every partition but `secure`, unless
they are kept, decompressing for the empty ones (`Trims`). Every partition that is
read has to open (`OpensImage`). A header that outgrows its space, a partition's or
the root's, fails the conversion.

**PatchStream, PatchUps, PatchBps, PatchInPlace.** Each is the patcher's loop, record
by record. `PatchStream` keeps apart the counters and the handle's real position.
`PatchUps` has two-bit bytes, one of them the stop bit, so numbers of several bytes
occur in small files, and its ints wrap at `IntLimit` (`Wrap`), as a run left open at
the end of the output may be read as a distance of any length; `overrun` is a history
variable that says the offset did. `PatchInPlace` refuses a PPF of less than 61 bytes
(`TooSmall`) before anything else. `PatchBps` chooses the patch while it is applied:
any action a correct encoder could write. The checksum of a file is the file. The
meaning of a patch (`MeantByte`, `Goal`, `Meant`) is written from the format, apart
from the loops.

**PatchXdelta.** The loop over the decoder's answers: more input, a block of the ROM,
a window to write. The decoder is vendored code, modelled from what the loop relies
on. A window of the patch is its end in the file and the blocks it copies; the output
is the sequence of the windows written, each the blocks it was decoded to. A window
may have no checksum. `fseek` takes a long: the place of a block wraps at
`LongBlocks`, to another block or to one that `fseek` refuses (`SeekBlock`, `Seeks`).

**PatchSession.** `checks` are the compatibility checks under way, of which any may
end next; each sets the banner. `asked` is the ROM the output was named after when
the button was pressed; the run takes what is selected when the path was found.

Operators named as a variant of another (`NotSignalled`, `StartableLate`,
`FetchedNumber`, ...) stand before the definition they vary and are not part of the
specifications: each is a plausible mistake, and `PROJECT.json` pairs it with the
property that catches it.

## Runs

| Run | Bounds | Shows |
|---|---|---|
| `nq` | 2 Starts of up to 2 jobs, 1 progress tick, three kinds of call (each at one position of the queue), not gated, spawns may fail, close, fair | 425,144 states: `IInv` (types included), `NoUseAfterFree`, `NothingLeaks`, `ResultsFaithful`, `CleanupTried`, `CancelStopsQueue`, `ImplementsJobQueue`, `QueueEnds` |
| `scratch` | a Start of up to 2 jobs and one of 1, three variants, cancels and purges anywhere, Clear cache up to the end of the first, refused deletions, failures, dying isolates, close, 1 restart, fair | 775,361 states: `OneWorkerAtATime`, `ScratchOwned`, `ImplementsJobQueue`, `QueueEnds`, `LeftoversPurged` |
| `scratch_doc` | 1 job, 1 Start | refutes "reliably deleted on cancel" |
| `batch` | 2 files, 2 batches, 1 or 2 workers, cancels, failing spawns, close, fair | 322,179 states: `NoOrphanItem`, `RunningWithinParallelism`, `ResultFromOwnBatch` while `serial`, `FirstBatchEnds` |
| `batch_doc` | 2 files, 1 batch, 2 workers | refutes the completeness of the summary |
| `oneshot` | 3 runs, started over each other, cancels, close, failing spawns, fair | 44,015 states: `SuccessIsFaithful`, `FailureIsOwn`, `OrphansAreOvertaken`, `RunEnds` |
| `nsz_pipeline` | 4 NCAs and a copied entry, setting 0 to 3, both modes, every failure, a kill at any time, fair | 25,301 states: `PipelineInv`, `IsolatesWithinSlots`, `SuccessIsWhole`, `DirOutlivesWriters`, `LateErrorSurfaces`, `Ends` |
| `nsz_doc` | 2 NCAs and a copied entry, 1 slot, fair | refutes "will surface a clear error" |
| `threeds` | 2 partitions, 2 files, 2 operations, a kill before any write, 20 images (keys, sections, a second partition that is a manual, a program, under a key of its own, absent, past the end), each in any mix of forms | 198,148 states: `AtMostOneDamaged`, `OnlyKillDamages`, `SuccessConverts` |
| `switch` | NCAs of 4 or 10 bytes with none, one or two of 8 ranges as section, 3 kinds of crypto, 4 BKTR2 tables; 6 foreign tables; chunks of 3, blocks of 4, cipher blocks of 2. Kits of two or three inputs out of 9 titles, as NSP or card image. Cards of 2 or 3 partitions with up to 4 files | 339,690 states: `BodyCovered`, `StreamIsPlain`, `Rebuilt`, `TitlesRestored`, `CardRestored` |
| `patch` | ROMs of up to 4 bytes; up to 2 records or windows before, across and past the end; every BPS patch of short files; ints that wrap at 8, longs that reach 3 blocks; patches cut anywhere, checks on and off; a shelf of 3 ROMs, 2 patches and 3 selections | 685,609 states: `PatchedRight`, `UpsApplies`, `BpsApplies`, `BlocksApplied`, `XdeltaApplies` |
| `patch_doc` | the shelf of 3 ROMs | refutes "Patch is compatible with the selected ROM" |

**Why the bounds are enough.** The races need an old worker and a new one (two Starts,
two batches) and a next job within a queue (two jobs). A third of either adds a
repetition of the same hand-over. In the scratch queue, whose directories and their
deletions multiply the states, only the first Start has a next job (`LenAt`), and Clear
cache is used until the second (`MaxClearStarts`); the purge of a relaunch still meets
that one. One restart meets every state of the first
process; what a second finds on disk differs in nothing but who left it. For
`NativeQueue`, `ScratchQueue`, `BatchPool`, `OneShot`, `NszPipeline` and
`ThreeDsCrypto`, `NczCodec`, `XczArchive` and every patch format, the proofs below
remove the bounds. In the batch, two files are enough for a full pool (limit 1) and
for a pool with room left (limit 2). A stray spawn of the one-shot blocs can meet the
next run and the one after: three. The pipeline needs an NCA that works, one that
waits and one the loop has not reached, and a copied entry between two NCAs; four NCAs
give the queue two waiters. Partition 0 and the others differ in their keys, and a
conversion treats one partition at a time: two. The second operation meets whatever
the first left, a damaged file included. In the converters a cursor is wrong after the
first step that moved it wrongly, so two records, two sections and two windows meet
every hand-over from one to the next; the sizes are chosen so that chunks, blocks,
cipher blocks and buffers straddle every boundary there is. An int of 64 bits wraps
after nine bytes without a stop bit, one that wraps at `IntLimit` = 8 after three of
the model's; and `LongBlocks` = 3 puts ROMs within, at and past what `fseek` reaches.

**Deadlock** is checked in `batch_doc` and `scratch_doc`, where the user can always
act. It is off in the runs with `Close` (a closed bloc whose
isolates ended has nothing left to do), in those of the pipeline (a killed job), of
`ThreeDsCrypto` (no operation left under the bound) and of the converters (a file
converted is the end).

**Fairness.** Weak fairness of what the runtime owes: an isolate that was spawned
starts, an await that can return returns, a worker over finite files ends or dies, a
message to an open port is delivered, a purge goes on to its next directory. Nothing
is assumed of the user, nor of a native call that was cancelled beyond that it
returns. Spawns that fail are in all the runs; the native queues have no answer to an
asynchronous one (see `hazards`), and the refinement gives up exactly that queue. No
worker of `ScratchQueue` owes a result: its isolate may die instead, and `QueueEnds`
then says that the queue hangs on that job and on nothing else. In the pipeline a step
of the loop, of a job and of a nested isolate is taken eventually while it can be, as
file operations return; `Kill` is owed by nobody. The converters are checked for
safety only: each loop reads on in a finite file.

## What the runs refuted

* `scratch_doc`: `nsz_bloc.dart:155` says the scratch directory is reliably deleted on
  cancel. A cancel during `await Isolate.spawn` starts the deletion of it too early:
  the worker cannot be killed yet, creates it again when it is gone, and no field
  names it any more, whether the worker runs to its end or a second cancel kills it.
* `batch_doc`: the end of a batch is decided from `_activeIsolates`
  (`batch_bloc.dart:273`), filled after the await, so the summary may be shown
  with a file still running, whose item stays "running" for good.
* `nsz_doc`: `nsz_archive.dart:311` says that an NCA whose ticket was skipped as
  malformed will surface a clear error. In parallel mode nobody listens to a job
  before `Future.wait` (165). If the NCA's isolate throws while the loop still
  reads the next header, the uncaught error ends the worker's isolate: no result
  is sent, no directory deleted, and the queue stays "running".
* `patch_doc`: `app_en.arb:223` words the banner "Patch is compatible with the
  selected ROM". A check reads the whole ROM and then sets the banner whatever is
  selected by then (`patcher_tab.dart:44-51`): the check of a ROM replaced meanwhile
  may end last and speak for the one selected now.

Limits met on the way, which the properties exempt, each by name. Some of them a
comment or a log message denies, or can be read to; no run is made of these, as what
the code does is plain from its lines:

* `chd_bloc.dart:292` logs "CHD job cancelled; partial output removed." for every job
  with a cancel requested. A CD extraction that fails after that, before it polls the
  cell, leaves its .cue and .bin: `chdman_extract_cd_ex` removes them when it saw the
  cancel, on no error return (`LeftBehind`).
* `file_service.dart:178` says that the caller deletes the scratch directory when the
  run ends. A benchmark that succeeds keeps it (`nsz_benchmark_screen.dart:346`), and
  the next one forgets it (`ScratchOwned` exempts those of earlier benchmarks).
* `ups_patcher.dart:13` says that the format is bidirectional. Applied in reverse to the
  longer of its files a patch may fail: its last run lies past the end of the output,
  the loop (110) leaves it there, and what it still holds is read as distances. The
  offset wraps to a negative one, which no check stops (94), and the bytes that follow
  are XORed over the output and past its end (`RunLeftOpen`, `overrun`).
* `decryptor.dart:173` means to skip a partition past the end of a truncated image;
  the short read makes the operation throw instead, between two partitions.
* A patch cut short is applied as far as it goes: IPS without its end marker, a
  `.ncz`, an xdelta patch, which is even reported as "VCDIFF integrity: passed"
  (`xdelta_patcher.dart:49`; `xdelta3_ffi.c:127` drops the answer of
  `xd3_close_stream`).
* An APS-N64 record past the recorded output size is not trimmed away
  (`aps_n64_patcher.dart:137`): the tail is only copied as far as that size.
* An xdelta patch for a ROM past what `fseek`'s long reaches, 2 GiB on Windows, is
  refused, or reads another block of it (`xdelta3_ffi.c:97`).
* UPS and BPS write the output before they compare its checksum; a refused PPF leaves
  a full copy of the ROM; a FileID text longer than 3072 is read as records.
* An APS-GBA patch without blocks leaves the size as it was, and equal CRC16s of a
  block make it change sides.
* The patch screen reads the selection before and after its awaits
  (`patcher_tab.dart:297`), so the output may be named after another ROM.
* Two dumps of one title overwrite each other in the unmerger (`unmerger.dart:228`),
  and of two rights ids only the first keeps its ticket (170).
* `xcz_archive.dart:47` leaves its handles open when `XciReader.open` throws.
* Clear cache deletes directories in use on POSIX. A scratch directory whose deletion
  is refused stays until the next launch. A queue whose isolate dies without a word
  shows "running" until it is cancelled.
* A native call returns ok although its last bytes were not written or read
  (`archive_ffi.c:206`, `350`, `chdman_ffi.cpp:551`), and an output that cannot be
  removed stays.

## Proofs

`NativeQueueProofs` proves, for all values of the constants that satisfy
`ConstAssumption` (any number of Starts, any queue length, gated or not, spawns
failing or not):

* `Invariance`: `Spec => []IInv`. The properties alone are not inductive. That freed
  cells are never touched needs to know that an active worker is the one the bloc's
  references name (`RefsOK`) and that cells still live without a reference were told
  to stop (`HeapOK`); that results are faithful needs that workers later than the
  current one do not exist (`Fresh`), that entries are those of the jobs before the
  current index (`ResultsOK`) and what a worker's state and code say of its output,
  damaged and stuck ones included (`WorkersOK`); the gate needs `GateOK`, the progress
  fraction `FracOK`, and the user's being at the origin of every cancellation
  `CancelOK`.
* `TypeCorrect` and one theorem for each safety and action property of
  the `nq` run, and for three that the run leaves to the proof: `DoneIsComplete`,
  `ProgressMonotone`, and `OneNativeCall` under the gate.
* `Refines_JobQueue`: every step is one step of `JobQueue` or none. The mapping
  (`ListPhase`, `ListTotal`, `ListOutcomes`, `ListStopped`) is that of the run. Each
  handler that changes what the screen shows is a named abstract step; a worker's
  own steps stutter. What makes it hold is in `IInv`: a result that says
  "cancelled" comes of a cancel (`CancelOK`), so `FinishCancelled` is a `Stop`, and
  a result of the current job finds as many outcomes as the index says, so
  `FinishRecorded` is a `Complete`. `AbandonedStays`: what is abandoned stays so, and
  maps to a disposed queue for good.

The proof has one lemma per action, `WorkerStep` for those of the isolate and the
native call; three lemmas (`FreedHeapPointwise`, `SignalledPointwise`,
`LaunchPointwise`) say cell by cell what the bloc's helpers do.

`OneShotProofs` proves `OneShotInv` for any number of runs. `PortOK` says that an
open port is that of the run shown, `IsolateOK` that a worker not referred to is
one whose spawn was overtaken or comes after such a one, `NoteOK` that the facts
noted are the current run's. `SuccessIsFaithful`, `FailureIsOwn` and
`OrphansAreOvertaken` follow; one lemma, `CleanupStep`, serves all the handlers
that end with no reference.

`NszPipelineProofs` proves `PipelineInv` for any archive and any setting, assuming
`PipelineAssumption`. `SemaphoreOK` is the conservation of permits: those free and
those held make up `slots`, a queue is only there when none is free, and it holds
each queued job once. `ReleaseKeeps` and `DispatchKeeps` carry it through the
semaphore's two operations, by the cardinality of the set of holders. `JobsOK`
ties a working isolate to a permit, `MembersOK` and `PhaseOK` what is set to how
far the loop got. `IsolatesWithinSlots`, `SuccessIsWhole` and `DirOutlivesWriters`
follow.

`ThreeDsCryptoProofs` proves `CryptoInv` for any images, any number of partitions,
files and operations, assuming `CryptoAssumption`. The properties are about
images in the two forms; the invariant has to say what a partition looks like in
between, so `Stage` gives it after each write, and `TargetOK` places the running
operation: converted partitions behind it, whole ones ahead, the current one at
its stage. One lemma per write shows that it leads from a stage to the next, and
from the last to the other form; this is where the order of the writes and the
double XOR of `.code` matter, and where `Uniform` makes the backup's keys those of
the partition. `OthersOK` keeps the files nothing works on. `AtMostOneDamaged`,
`OnlyKillDamages` and `SuccessConverts` follow.

`BatchPoolProofs` proves `PoolInv` for any list of files, number of batches and
setting, assuming `ConstAssumption`. `NoOrphanItem` and `RunningWithinParallelism`
are inductive with the types; `ResultFromOwnBatch` is not: that the port which
brings a result is of the running batch needs `SerialOK`, which says that in a
history of single workers an open port is that of the one item that runs and that
no other path has one. `StartNextKeeps` is `_startNextWorkers` (the limit by
cardinality, `StartableFits`), `CleanupKeeps` the clean-ups of a cancel, a settled
item, the end of a batch and of the bloc; `SpawnPointwise` and `CleanupPointwise`
say path by path what they do to the maps. TLC finds `PoolInv` true on the
instance of the `batch` run too.

`ScratchQueueProofs` proves `ScratchInv` for any number of Starts, jobs and restarts
and for the three variants, assuming `ConstAssumption`. `HistoryOK` says that jobs
start in the order of the list, so that the next one is fresh whatever stale result
moved the index. `CurrentOK` says, as long as no cancel overtook an await, that only
the current job's `_startJob` or worker can still do anything, and what the fields
hold at each of its awaits. One lemma, `QuietKeeps`, serves every handler that leaves
nobody pending, one, `StartJobKeeps`, every handler that goes on to the next job;
`ScratchOwned` follows the directory through purges, Clear cache, deletions that end
in their own time or are refused, and the worker that makes it again.
`OneWorkerAtATime` is a consequence. `Scratch_Refines_JobQueue` proves that each step
is one of `JobQueue` or none: `CurrentOK` makes a result that is delivered the current
job's, so that a `Complete` adds the outcome of the next job in order; what was
killed, died or was overtaken stutters, and a `Restart` is a `Relaunch`.

`SwitchFilesProofs` proves `BodyCovered`, `Rebuilt` and `StreamIsPlain` for any NCA,
however many sections it has, and chunks, blocks and decoder outputs of any size,
assuming `NczAssumption`: the NCA holds its header and the start of every section,
and a table the code accepts has no gap between its entries. (The code checks
neither. A section that starts after the end of a truncated NCA makes `addNone`
reach beyond the file; a table with a gap leaves it out.) Of a foreign file it says
that its pieces follow each other and the first begins on a cipher block.

* *The table.* `PartitionInv` says that the pieces so far end at the pointer, and
  while a table is cut up that its pieces end where the next entry starts, clipped
  to the section (`CutOK`). `ChainConcat` appends one list of pieces to another.
* *The round trip.* `CodecInv` goes on from there. Byte `k` of the stream is the byte
  of the NCA at its place under the key of the piece it lies in (`CellOf`,
  `StreamOK`); the encoder's piece and its offset say how many there are (`CurOK`);
  the chunk is the last of what was taken of the stream (`ChunkOK`); what was
  emitted is the NCA, and the emitter's piece, what is left of it and its key
  stream are those of the next byte (`EmitterOK`). That XORing twice gives the NCA
  back needs each byte to lie in one piece only: that pieces which follow each other
  ascend is proved by the least counterexample (`NatLessThanWellFounded`), as
  induction itself is out of reach. `Prepare` is shown to give a table that starts at
  the end of the header and has the same bytes, whichever of its four cases applies.
* *The keys.* `StreamIsPlain` is about which counter a piece gets, and needs
  `KeysInv`: sections done lie below the pointer, so the section at hand is the
  first one at the bytes being covered, and the entry being cut is the one there.
  It is stated for NCAs that are `WellFormed`: no two sections at one place, and
  they and the entries of their tables on cipher blocks. Without the second the
  code's rounding of the counter would apply another key stream.

It proves `CardRestored` as well, from `XczInv`, for cards of any number of
partitions and files of any size, assuming `CardAssumption`: a card that opens lists
its partitions and their files, as far as it reaches (it may be cut short anywhere);
it holds no `.ncz` yet, and what `Ncz` makes of an NCA is not empty; a media unit is
positive. A card that does not open may be anything.

* *The image converted* lists what it is to list (`SourceOK`): the card's files when
  compressing, those of the XCZ when decompressing. As an entry says where a file is
  and not what it is, each copied file is compared with its bytes.
* *The image made.* `RootOK` says that the partitions done lie behind the space for the
  root header where their entries say, `NestedOK` the same of the files of the
  partition at hand behind the space for its header. A partition counts as written
  once its header is in (`PartAt`), a file once its bytes are (`FileAt`).
* *Writes go through one handle.* Each step is described by what its write keeps
  (`HeldKept`): what lies before the position stays, and so does what lies behind the
  space that a header is written into, which is why a header that outgrows it must
  fail the conversion.
* *Reading back.* Once the root header is in, `ListedBack` shows that reading what was
  written lists the files meant. That listing is the hypothesis of the way back: what
  `decompress` reads is what was shown of the XCZ, and so the image it makes lists the
  files of the card, with the partitions that were trimmed empty.

`PatchProofs` proves `PatchedRight` (IPS, EBP, APS for N64), `UpsApplies`,
`BpsApplies`, `BlocksApplied` (APS for GBA, PPF, DPS) and `XdeltaApplies` for ROMs of any
size and patches of any number of records, runs, actions, blocks or windows, from
`SessionInv`. It assumes `ShelfAssumption`: what can be picked has one of the formats,
and makes jobs of the right types, whose windows end in order and copy blocks that
exist. A UPS patch whose own checksum holds and an APS-GBA patch were made of two
files: the runs are the stretches in which they differ, the blocks lie apart and cover
what differs. `TabInv` says that what is patched is what was selected, on the shelf.
Each patcher has its own part:

* `StreamInv`: what is written is `MeantByte` so far, and the counters say how far
  that is in the output and, while there is ROM left, in the ROM, where the handle is
  as well. That is the hard part: `CopyToOffset` moves the counters by what it
  wanted, the handle by what it got. That the record covering a byte is the one at hand
  (`MeantInRecord`, `MeantOutside`) needs the records to ascend, again by the least
  counterexample (`RecordsAscend`).
* `UpsInv`: between two runs the handle is where the next one starts, within a run as
  far as the offset is (`AtRun`, `InRun`); the output agrees with the other file so
  far, and up to the offset the two do not differ. A ROM longer than the output takes
  the patcher past its end, where nothing it reads changes anything (`Beyond`) unless
  the offset wraps; `overrun` then says so, and that a run was left open there. Up to
  then no number read is more than an int holds, and `Wrap` does nothing. The encoding
  of a number (`Number`) and where the runs of a patch start are given by recursion.
  That a function with such values exists is proved once, from the least number
  without a value (`ValuesTo`, `Gives`); `NumberAdds` and `ReadBack` then read a
  number back from its bytes, and `JoinedTo` says where an element of a list of lists
  is in their concatenation.
* `BlkInv`: of an APS-GBA patch, the blocks applied so far hold the other file's bytes
  and the rest is the ROM's; each block was recognised as the side the ROM is on, which
  needs the blocks to lie apart. Of PPF and DPS, a byte is that of the last record so
  far that has it (`LastAt`), and the output is as long as the longest of them made it.
* `BpsInv`: the patcher's three cursors are those of the tool that made the patch, and
  the output agrees with the other file up to the first. `NextIs` reads an action
  back from its encoded numbers (`SignedBack`, `LengthBack`). `Copied`, which copies out of
  what it is writing, is a recursive function: it is shown to be defined by giving one
  that satisfies its equation, and compared with the other file at the first byte
  where they would differ.
* `XdInv`: the block held is the one that `SeekBlock` finds under its number, a read
  that came back short was the last, and the windows written are those of the target
  whenever they were checked or the ROM is the right one.

**Model-checked only.**

* Liveness, `QueueEnds` included: fairness and ENABLED are beyond the prover's
  backends.
* `TitlesRestored`, the only safety property without a theorem. A container is built
  from a list of members of any length by folds: duplicates by name are dropped
  (`AddNew`), the offsets are running sums, the members are concatenated, and the
  unmerger groups what it finds by CNMT. Induction over data is beyond the provers, so
  each of these would need an argument of its own by least counterexample; and for kits
  of any kind the theorem would assume which members make up a title in terms as long
  as the unmerger's own. It is checked over every kit under the bounds above.

## Plan

Every component the plan named is modelled but the settings, of which only the gate
(`Gated`) and the limits of parallel workers appear, and every safety property but one
has a theorem. What could follow:

1. `TitlesRestored`, if the merger's lists can be described without folds.
2. Instances beyond the present bounds for the containers and the patchers, should
   their formats grow.

## Not modelled

* AES, zstd and checksum arithmetic: data, tested against vectors. The pump that
  feeds zstd (`zstd_ffi`) is a straight loop without a cursor of its own.
* Native hashing, archive detection, logging, the settings (a record written
  through to preferences), widgets and localisation: pure input and output.
* The third-party native libraries vendored under `packages/`: MAME's CHD code,
  zstd, libarchive, xdelta3, mbedtls. They are nearly all of the repository's
  485,000 lines of code; the application's own logic is about 10,000 lines of Dart and
  3,000 of wrappers. A model of mbedtls or of zstd's encoder would be a project
  about those libraries, not about this program, and here they are modelled from how
  the wrappers use them; so the share of all lines that the definitions map to stays
  small.
* Temporary files of `XczArchive` and `nsz_input_profile.dart` (a table of presets);
  the parsing of keys; magic numbers and table bounds of the containers.
