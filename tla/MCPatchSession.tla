--------------------------- MODULE MCPatchSession ---------------------------
(***************************************************************************)
(* TLC instances of PatchSession.                                          *)
(*   Patch.cfg      the patchers over small files, and the screen          *)
(*   PatchDoc.cfg   the text of the banner                                 *)
(***************************************************************************)
EXTENDS PatchSession

MCSeqs(S, n) == UNION {[1..k -> S] : k \in 0..n}

\* One ROM, one patch, no second thought.
MCShelf(r, p, ignore) ==
  [roms |-> {r}, patches |-> {p}, ignore |-> ignore, picks |-> 1]

-----------------------------------------------------------------------------
MCStream(fmt, records, missing, eof, cutAt, outSize) ==
  [fmt |-> fmt, records |-> records, missing |-> missing, eof |-> eof,
   cutAt |-> cutAt, outSize |-> outSize]

\* Records before, across and past the end of ROMs of up to 3 bytes, in any
\* order; only a last record is a run.
MCRecord == [at : 0..4, len : 1..2, run : {FALSE}]
MCLast == [at : 0..4, len : 1..2, run : BOOLEAN]
MCRecords ==
  {<< >>} \cup {<<r>> : r \in MCLast} \cup {<<r, s>> : r \in MCRecord, s \in MCLast}

MCIps(rs) ==
  {MCStream("ips", rs, 0, TRUE, c, 0) : c \in -1..3}
  \cup {MCStream("ips", rs, m, FALSE, -1, 0) :
          m \in {0} \cup {1 : k \in {l \in {Len(rs)} : l > 0 /\ ~rs[l].run}}}

MCN64(rs) == {MCStream("n64", rs, 0, FALSE, -1, n) : n \in {0, 2, 3, 5, 6}}

MCStreamShelves ==
  {MCShelf([i \in 1..n |-> 0], p, FALSE) :
     n \in {0, 2, 3}, p \in UNION {MCIps(rs) \cup MCN64(rs) : rs \in MCRecords}}

-----------------------------------------------------------------------------
MCUps(x, y, footer, intact) ==
  [fmt |-> "ups", x |-> x, y |-> y, footer |-> footer, intact |-> intact,
   runs |-> UpsRuns(x, y), body |-> UpsBody(x, y, UpsRuns(x, y))]

MCFooters == {<<0, 1, 0>>, <<1, 0, 2>>}

MCUpsShelves ==
  {MCShelf(IF back THEN y ELSE x, MCUps(x, y, f, TRUE), ignore) :
     x \in {<< >>, <<1>>, <<0, 2, 1>>, <<2, 2, 1, 1>>}, y \in MCSeqs({0, 1, 2}, 4),
     f \in MCFooters, back \in BOOLEAN, ignore \in BOOLEAN}

\* Files of which one goes on behind the end of the other: what is left of the run
\* there overflows an int below 8, or does not; and files that are equal at the end
\* of the shorter one.
MCTails == {<<1, 1, 1, 1, 1>>, <<1, 1, 1, 0, 1>>, <<0, 0, 0, 1, 1, 1, 1>>,
            <<0, 0, 1, 1, 2, 1>>}

MCTailShelves ==
  {MCShelf(IF back THEN y ELSE x, MCUps(x, y, f, TRUE), ignore) :
     x \in {<<0>>, <<1>>, <<2, 0>>, <<1, 0, 0>>}, y \in MCTails,
     f \in {<<2, 2, 2>>, <<0, 0, 1>>, <<0, 2, 1>>},
     back \in BOOLEAN, ignore \in BOOLEAN}

\* A third ROM, and a patch whose own checksum is wrong.
MCForeignShelves ==
  {MCShelf(r, MCUps(<<1, 0>>, <<1, 2, 2>>, <<1, 0, 2>>, intact), ignore) :
     r \in {<<1, 0>>, <<0, 0, 0>>, << >>}, intact \in BOOLEAN, ignore \in BOOLEAN}

\* Time to change one's mind.
MCRaceShelves ==
  {[roms |-> {<<1, 0>>, <<1, 2, 2>>, <<0>>},
    patches |-> {MCUps(<<1, 0>>, <<1, 2, 2>>, <<1, 0, 2>>, TRUE),
                 MCStream("ips", <<[at |-> 1, len |-> 1, run |-> FALSE]>>,
                          0, TRUE, -1, 0)},
    ignore |-> FALSE, picks |-> 3]}

-----------------------------------------------------------------------------
\* Every patch for every pair of short files.
MCBps(x, y, intact) == [fmt |-> "bps", x |-> x, y |-> y, intact |-> intact]

MCBpsShelves ==
  {MCShelf(x, MCBps(x, y, TRUE), FALSE) :
     x \in {<< >>, <<1>>, <<1, 2>>, <<1, 2, 1>>}, y \in MCSeqs({1, 2}, 4)}
  \cup {MCShelf(r, MCBps(<<1, 2>>, <<2, 1, 2>>, intact), ignore) :
          r \in {<<1, 2>>, <<2>>}, intact \in BOOLEAN, ignore \in BOOLEAN}

-----------------------------------------------------------------------------
MCRom(n) == [i \in 1..n |-> 100 + i]

\* Pairs of records in any order, data or, for DPS, copies out of the ROM.
MCData == [at : {0, 1, 4}, len : 0..2, src : {-1}]
MCCopy == [at : {0, 1, 4}, len : 1..2, src : {0, 1, 2}]
MCPairs(rs) == {<< >>} \cup {<<r>> : r \in rs} \cup {<<r, t>> : r \in rs, t \in rs}

MCOne == [at |-> 1, len |-> 1, src |-> -1]

MCPpf(rs, version, undo, fileId, check) ==
  [fmt |-> "ppf", records |-> rs, version |-> version, undo |-> undo,
   fileId |-> fileId, check |-> check]

MCDps(rs, check) == [fmt |-> "dps", records |-> rs, check |-> check]

\* A patch, whole or cut short.
MCKept(p, cells, cuts) ==
  {[field \in DOMAIN p \cup {"kept"} |-> IF field = "kept" THEN k ELSE p[field]] :
     k \in {Len(cells) - c : c \in cuts \cap 0..Len(cells)}}

MCPpfPatches ==
  UNION {LET p == MCPpf(rs, 3, undo, fileId, "none") IN MCKept(p, PpfCells(p), {0, 1, 3}) :
           rs \in MCPairs(MCData), undo \in BOOLEAN, fileId \in {0, 2, 3}}
  \cup MCKept(MCPpf(<<MCOne>>, 1, FALSE, 0, "none"), <<1, 2>>, {0, 1})

MCDpsPatches ==
  UNION {LET p == MCDps(rs, "holds") IN MCKept(p, DpsCells(p), {0, 1}) :
           rs \in MCPairs(MCData \cup MCCopy)}

\* ROMs that are refused unless the checks are off.
MCChecked ==
  UNION {LET p == MCPpf(<<MCOne>>, v, FALSE, id, c) IN MCKept(p, PpfCells(p), {0}) :
           v \in {2, 3}, id \in {0, 1}, c \in {"holds", "fails", "short"}}
  \cup MCKept(MCDps(<<MCOne>>, "fails"), <<1, 2>>, {0})

MCBlockShelves ==
  {MCShelf(MCRom(n), p, FALSE) : n \in {0, 3}, p \in MCPpfPatches \cup MCDpsPatches}
  \cup {MCShelf(MCRom(3), p, ignore) : p \in MCChecked, ignore \in BOOLEAN}

MCGba(x, y, all, cut) ==
  [fmt |-> "gba", x |-> x, y |-> y, blocks |-> GbaBlocks(x, y, all), cut |-> cut]

MCGbaShelves ==
  {MCShelf(r, MCGba(x, y, all, cut), ignore) :
     x \in {<< >>, <<1>>, <<1, 0, 0>>, <<1, 0, 1, 1>>},
     y \in MCSeqs({0, 1}, 4), all \in BOOLEAN, cut \in BOOLEAN,
     ignore \in BOOLEAN, r \in {<<1>>}}
  \cup {MCShelf(IF back THEN y ELSE x, MCGba(x, y, all, FALSE), FALSE) :
     x \in {<< >>, <<1>>, <<1, 0, 0>>, <<1, 0, 1, 1>>},
     y \in MCSeqs({0, 1}, 5), all \in BOOLEAN, back \in BOOLEAN}

\* Windows at every place against buffers of two, with the blocks they need; the
\* ROM as it was, shorter, or another; the patch cut anywhere; a full disk.
MCWindow == [end : 2..7, blocks : {<< >>, <<0>>, <<1, 0>>, <<1, 2>>}, sum : {TRUE}]
MCFirst == {w \in MCWindow : w.end <= 4}

MCXdPatches ==
  {[fmt |-> "xdelta", header |-> 1, windows |-> ws, x |-> <<11, 12, 13>>,
    kept |-> k, room |-> room] :
     ws \in {<< >>} \cup {<<w>> : w \in MCFirst}
             \cup {<<v, w>> : v \in MCFirst, w \in MCWindow},
     k \in 0..7, room \in {1, 2}}

\* The second window takes one to three places.
MCInOrder(q) ==
  /\ q.kept <= EndIn(q, Len(q.windows))
  /\ Len(q.windows) = 2 => q.windows[2].end - q.windows[1].end \in 1..3

MCXdShelves ==
  {MCShelf(r, p, ignore) :
     r \in {<<11, 12, 13>>, <<11, 12>>, <<11, 14, 13>>},
     p \in {q \in MCXdPatches : MCInOrder(q)}, ignore \in BOOLEAN}

\* A ROM that a long of LongBlocks = 3 blocks does not reach all of, and one it
\* does; windows without a checksum.
MCLong == {<<11, 12, 13, 14, 15, 16, 17>>, <<11, 12, 13>>, <<11, 14, 13, 14>>}
MCLongWindow(end) ==
  [end : {end}, blocks : {<<1, 2>>, <<2, 3>>, <<0, 6>>, <<5, 1>>}, sum : BOOLEAN]

MCLongShelves ==
  {MCShelf(r, [fmt |-> "xdelta", header |-> 1, windows |-> <<v, w>>, x |-> x,
               kept |-> k, room |-> 2], ignore) :
     r \in MCLong, x \in {<<11, 12, 13, 14, 15, 16, 17>>}, ignore \in BOOLEAN,
     v \in MCLongWindow(3), w \in MCLongWindow(4), k \in {3, 4}}

-----------------------------------------------------------------------------
MCOnlyRaces == {MCRaceShelves}

MCShelves ==
  {MCStreamShelves, MCUpsShelves, MCTailShelves, MCForeignShelves, MCRaceShelves,
   MCBpsShelves, MCBlockShelves, MCGbaShelves, MCXdShelves, MCLongShelves}
=============================================================================
