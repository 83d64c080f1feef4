---------------------------- MODULE PatchSession ----------------------------
(***************************************************************************)
(* The patch screen (lib/ui/patcher_tab.dart) with PatchVerifier (lib/     *)
(* services/patch_verifier.dart) and the patchers it leads to.  Each       *)
(* selection starts a check of the two files, which reads the whole ROM;   *)
(* checks overlap, and each that ends writes the banner.  The run takes the*)
(* files that are selected when the path of the output has been found, not *)
(* when the button was pressed.                                            *)
(***************************************************************************)
EXTENDS PatchStream, PatchUps, PatchBps, PatchInPlace, PatchXdelta
LOCAL INSTANCE TLC

CONSTANTS
  Shelves,   \* sets of what there is to pick: [roms, patches, ignore, picks]
  None       \* no file is selected

VARIABLES
  shelf,
  romSel, patchSel,   \* _selectedRomFile, _selectedPatchFile
  picks,              \* selections made; shelf.picks bounds them
  checks,             \* the checks under way, oldest first
  banner,             \* _compatibility
  checking,           \* _isCheckingCompatibility
  asked               \* the ROM _applyPatch names the output after, or None

tabVars == <<shelf, romSel, patchSel, picks, checks, banner, checking,
             asked>>

workVars == <<streamVars, upsVars, bpsVars, blkVars, xdVars>>

vars == <<tabVars, workVars>>

\* PatchVerifier.checkCompatibility: a UPS or BPS patch is compared with its first
\* checksum, that of x, only; a PPF with the ROM's size and data block, when it has
\* them and the ROM reaches that far; the other formats cannot be checked.
Verdict(p, r) ==
  LET Said(fits) == IF fits THEN "compatible" ELSE "incompatible"
  IN IF p.fmt \in {"ups", "bps"} THEN Said(r = p.x)
     ELSE IF p.fmt = "ppf" /\ p.check \in {"holds", "fails"} THEN Said(p.check = "holds")
     ELSE "unverifiable"

\* _checkCompatibility up to its await.
CheckSelection(r, p) ==
  IF r = None \/ p = None
  THEN banner' = "unverifiable" /\ checking' = FALSE /\ UNCHANGED checks
  ELSE /\ checking' = TRUE
       /\ checks' = Append(checks, [rom |-> r, patch |-> p])
       /\ UNCHANGED banner

\* A ROM, a patch, or both are dropped or browsed to.
Pick(r, p) ==
  /\ picks < shelf.picks
  /\ <<r, p>> # <<romSel, patchSel>>
  /\ romSel' = r /\ patchSel' = p
  /\ picks' = picks + 1
  /\ CheckSelection(r, p)
  /\ UNCHANGED <<shelf, asked, workVars>>

PickRom == \E r \in shelf.roms : Pick(r, patchSel)
PickPatch == \E p \in shelf.patches : Pick(romSel, p)
PickBoth == \E r \in shelf.roms, p \in shelf.patches : Pick(r, p)

\* The rest of _checkCompatibility, for any of the checks under way.
CheckEnds(i) ==
  /\ i \in DOMAIN checks
  /\ banner' = Verdict(checks[i].patch, checks[i].rom)
  /\ checking' = FALSE
  /\ checks' = SubSeq(checks, 1, i - 1) \o SubSeq(checks, i + 1, Len(checks))
  /\ UNCHANGED <<shelf, romSel, patchSel, picks, asked, workVars>>

\* No patcher has been started.
Idle ==
  /\ job = NoStreamJob /\ ups = NoUpsJob /\ bps = NoBpsJob /\ blk = NoBlockJob
  /\ xd = NoXdJob

\* _applyPatch up to its await.
PressPatch ==
  /\ Idle
  /\ romSel # None /\ patchSel # None
  /\ asked = None
  /\ asked' = romSel
  /\ UNCHANGED <<shelf, romSel, patchSel, picks, checks, banner, checking,
                 workVars>>

StreamJob(p, r) ==
  [fmt |-> p.fmt, romSize |-> Len(r), records |-> p.records,
   missing |-> p.missing, eof |-> p.eof, cutAt |-> p.cutAt,
   outSize |-> p.outSize]

UpsJob(p, r, ignore) ==
  [x |-> p.x, y |-> p.y, runs |-> p.runs, rom |-> r, body |-> p.body,
   footer |-> p.footer, intact |-> p.intact, ignore |-> ignore]

BpsJob(p, r, ignore) ==
  [x |-> p.x, y |-> p.y, rom |-> r, intact |-> p.intact, ignore |-> ignore]

XdJob(p, r, ignore) ==
  [header |-> p.header, windows |-> p.windows, x |-> p.x, rom |-> r, kept |-> p.kept,
   room |-> p.room, ignore |-> ignore]

BlockJob(p, r, ignore) == p @@ [rom |-> r, ignore |-> ignore]

\* PatcherFactory.create and the start of apply(), in the worker isolate.
Dispatch ==
  /\ Idle
  /\ asked # None
  /\ CASE patchSel.fmt \in {"ips", "n64"} ->
            /\ StartStream(StreamJob(patchSel, romSel))
            /\ UNCHANGED <<upsVars, bpsVars, blkVars, xdVars>>
       [] patchSel.fmt = "ups" ->
            /\ StartUps(UpsJob(patchSel, romSel, shelf.ignore))
            /\ UNCHANGED <<streamVars, bpsVars, blkVars, xdVars>>
       [] patchSel.fmt = "bps" ->
            /\ StartBps(BpsJob(patchSel, romSel, shelf.ignore))
            /\ UNCHANGED <<streamVars, upsVars, blkVars, xdVars>>
       [] patchSel.fmt \in {"ppf", "gba", "dps"} ->
            /\ StartBlock(BlockJob(patchSel, romSel, shelf.ignore))
            /\ UNCHANGED <<streamVars, upsVars, bpsVars, xdVars>>
       [] patchSel.fmt = "xdelta" ->
            /\ StartXdelta(XdJob(patchSel, romSel, shelf.ignore))
            /\ UNCHANGED <<streamVars, upsVars, bpsVars, blkVars>>
  /\ UNCHANGED tabVars

-----------------------------------------------------------------------------
Init ==
  /\ \E family \in Shelves : shelf \in family
  /\ romSel = None /\ patchSel = None
  /\ picks = 0
  /\ checks = << >>
  /\ banner = "unverifiable"
  /\ checking = FALSE
  /\ asked = None
  /\ StreamIdle /\ UpsIdle /\ BpsIdle /\ BlockIdle /\ XdIdle

Screen ==
  \/ PickRom \/ PickPatch \/ PickBoth
  \/ \E i \in DOMAIN checks : CheckEnds(i)
  \/ PressPatch \/ Dispatch

Work ==
  \/ StreamStep /\ UNCHANGED <<tabVars, upsVars, bpsVars, blkVars, xdVars>>
  \/ UpsStep /\ UNCHANGED <<tabVars, streamVars, bpsVars, blkVars, xdVars>>
  \/ BpsStep /\ UNCHANGED <<tabVars, streamVars, upsVars, blkVars, xdVars>>
  \/ BlockStep /\ UNCHANGED <<tabVars, streamVars, upsVars, bpsVars, xdVars>>
  \/ XdStep /\ UNCHANGED <<tabVars, streamVars, upsVars, bpsVars, blkVars>>

Next == Screen \/ Work

Spec == Init /\ [][Next]_vars

-----------------------------------------------------------------------------
\* "Patch is compatible with the selected ROM": refuted by the check of a large
\* ROM that ends after that of the ROM picked in its place.
BannerIsOfSelection ==
  ~checking /\ banner = "compatible" /\ romSel # None /\ patchSel # None =>
    Verdict(patchSel, romSel) = "compatible"

-----------------------------------------------------------------------------
\* What there is to pick makes jobs the patchers are meant for.
ASSUME ShelfAssumption ==
  \A family \in Shelves : \A s \in family : \A r \in s.roms, p \in s.patches :
    /\ p.fmt \in {"ips", "n64", "ups", "bps", "ppf", "gba", "dps", "xdelta"}
    /\ p.fmt \in {"ips", "n64"} => StreamJobOK(StreamJob(p, r))
    /\ p.fmt = "ups" => UpsJobOK(UpsJob(p, r, s.ignore))
    /\ p.fmt = "bps" => BpsJobOK(BpsJob(p, r, s.ignore))
    /\ p.fmt \in {"ppf", "gba", "dps"} => BlockJobOK(BlockJob(p, r, s.ignore))
    /\ p.fmt = "xdelta" => XdJobOK(XdJob(p, r, s.ignore))

\* What is patched was selected.
TabInv ==
  /\ \E family \in Shelves : shelf \in family
  /\ romSel \in shelf.roms \cup {None} /\ patchSel \in shelf.patches \cup {None}
  /\ asked # None => romSel \in shelf.roms /\ patchSel \in shelf.patches

\* The inductive invariant of the session with the patchers.
SessionInv == TabInv /\ StreamInv /\ UpsInv /\ BpsInv /\ BlkInv /\ XdInv
=============================================================================
