--------------------------- MODULE MCSwitchFiles ---------------------------
(***************************************************************************)
(* The TLC instance of SwitchFiles (SwitchFiles.cfg): an NCA header of 4   *)
(* bytes, cipher blocks of 2.                                              *)
(***************************************************************************)
EXTENDS SwitchFiles
LOCAL INSTANCE SequencesExt
LOCAL INSTANCE FiniteSetsExt
LOCAL INSTANCE TLC

\* Tables that cover a section, or its beginning, without a gap; the entry of
\* the third starts within a cipher block.
MCTables ==
  LET E(at, ctr) == [at |-> at, ctr |-> ctr]
      B(end, entries) == [end |-> end, entries |-> entries]
  IN { << >>,
       << B(2, <<E(0, 1)>>) >>,
       << B(5, <<E(0, 1), E(3, 2)>>) >>,
       << B(2, <<E(0, 1)>>), B(8, <<E(2, 2), E(4, 1)>>) >> }

MCSection(offset, end, crypto, nonce, tbl) ==
  [offset |-> offset, end |-> end, crypto |-> crypto, nonce |-> nonce,
   table |-> tbl]

MCRanges == {<<0, 2>>, <<2, 4>>, <<2, 6>>, <<4, 6>>, <<4, 10>>, <<6, 8>>,
             <<6, 12>>, <<10, 12>>}

MCKinds == {<<"none", << >>>>} \cup {<<"aesCtr", << >>>>}
           \cup {<<"aesCtrEx", t>> : t \in MCTables}

\* The sections that start in a file of n bytes or at its end.
MCSections(n, nonce) ==
  {MCSection(r[1], r[2], k[1], nonce, k[2]) :
     r \in {q \in MCRanges : q[1] <= n}, k \in MCKinds}

\* One section of any kind, or two.
MCSectionSets(n) ==
  {{}} \cup {{a} : a \in MCSections(n, 1)}
  \cup {{a, b} : a \in MCSections(n, 1),
                 b \in MCSections(n, 2)}

MCNcas ==
  UNION {{[size |-> n, sections |-> s] : s \in MCSectionSets(n)} : n \in {4, 10}}

MCPiece(from, to, n) ==
  [offset |-> from, size |-> to - from, nonce |-> <<n, 0>>]

\* Tables of the reference tool: from the end of the header, after plain bytes,
\* from within the header, wholly there, and short of the end.
MCForeign ==
  {[size |-> 10, table |-> t] : t \in
     { << MCPiece(4, 6, 1), MCPiece(6, 10, 2) >>,
       << MCPiece(6, 8, 1), MCPiece(8, 10, 2) >>,
       << MCPiece(2, 6, 1), MCPiece(6, 8, 2) >>,
       << MCPiece(2, 4, 1), MCPiece(4, 10, 2) >>,
       << MCPiece(0, 2, 1) >> }}
  \cup {[size |-> 8, table |-> << MCPiece(4, 8, 1) >>]}

-----------------------------------------------------------------------------
\* Containers as other tools write them, with any padding between the header
\* and the first member.
MCContainer(magic, ms, gap) ==
  <<FixedHeader(magic, Len(ms), Len(ms) + gap)>>
    \o [i \in DOMAIN ms |-> Entry(Running(ms, i), ms[i].size, i - 1)]
    \o Names(ms) \o Pads(gap)
    \o FlattenSeq([i \in DOMAIN ms |-> ms[i].cells])

MCMember(stem, ext, content, size) ==
  [name |-> [stem |-> stem, ext |-> ext], content |-> content, size |-> size,
   cells |-> Data(content, size)]

MCPartition(name, ms, gap) ==
  LET cells == MCContainer("HFS0", ms, gap)
  IN [name |-> name, size |-> Len(cells), cells |-> cells]

MCImage(parts, gap) ==
  << <<"XCI", 2>>, <<"pad">> >> \o MCContainer("HFS0", parts, gap)

-----------------------------------------------------------------------------
\* What the NCAs say: a base game, its update with an NCA of the base, a DLC
\* without ticket, one under the ticket of the base, an update that comes with a
\* delta fragment, a title under two rights ids, another dump of the base, one
\* whose ticket is missing and one that misses an NCA.
MCRef(id, kind) == [id |-> id, kind |-> kind]

MCCnmt(base, meta, refs) ==
  [base |-> base,
   refs |-> <<MCRef(meta, "meta")>> \o refs]

MCMeta(base, meta, refs) ==
  meta :> [meta |-> TRUE, rights |-> NoRights, cnmt |-> MCCnmt(base, meta, refs)]

MCPlainNca(ids, rights) ==
  [id \in ids |-> [meta |-> FALSE, rights |-> rights, cnmt |-> << >>]]

MCProgram(id) == <<MCRef(id, "program")>>

MCNcaFacts ==
  MCMeta("base_v0", "b", MCProgram("bp") \o <<MCRef("bc", "control")>>)
  @@ MCMeta("update_v1", "u", <<MCRef("bc", "control")>> \o MCProgram("up"))
  @@ MCMeta("dlc_v0", "d", <<MCRef("dd", "data")>>)
  @@ MCMeta("dlc_v1", "e", <<MCRef("ep", "data")>>)
  @@ MCMeta("update_v2", "v", <<MCRef("vd", "deltaFragment")>> \o MCProgram("vp"))
  @@ MCMeta("two_v0", "x", MCProgram("xp") \o <<MCRef("xq", "data")>>)
  @@ MCMeta("base_v0", "c", MCProgram("cp"))
  @@ MCMeta("lost_v0", "n", MCProgram("np"))
  @@ MCMeta("part_v0", "m", MCProgram("mp") \o <<MCRef("zz", "data")>>)
  @@ MCPlainNca({"bc", "dd", "vd", "vp", "cp", "mp"}, NoRights)
  @@ MCPlainNca({"bp", "ep", "xq"}, "r1")
  @@ MCPlainNca({"up"}, "r2")
  @@ MCPlainNca({"xp"}, "r3")
  @@ MCPlainNca({"np"}, "r4")

MCTickets == [t \in {"t1", "t2", "t3"} |->
                CASE t = "t1" -> "r1" [] t = "t2" -> "r2" [] t = "t3" -> "r3"]
             @@ ("bad" :> Malformed)

MCNca(id) == MCMember(id, "nca", id, 2)
MCTik(r, t) == <<MCMember(r, "tik", t, 1), MCMember(r, "cert", t, 1)>>

\* A title: the files it comes with.
MCTitle(base, rights, delta, ms) ==
  [base |-> base, rights |-> rights, delta |-> delta, files |-> ms]

MCTitles ==
  { MCTitle("base_v0", {"r1"}, FALSE,
            <<MCNca("bp"), MCNca("bc"), MCMember("b.cnmt", "nca", "b", 2),
              MCMember("b.cnmt", "xml", "bx", 1)>> \o MCTik("r1", "t1")),
    MCTitle("update_v1", {"r2"}, FALSE,
            MCTik("r2", "t2") \o <<MCMember("u.cnmt", "nca", "u", 1), MCNca("up"),
              MCNca("bc")>>),
    MCTitle("dlc_v0", {}, FALSE, <<MCNca("dd"), MCMember("d.cnmt", "nca", "d", 3)>>),
    MCTitle("dlc_v1", {"r1"}, FALSE,
            <<MCMember("e.cnmt", "nca", "e", 1), MCNca("ep")>> \o MCTik("r1", "t1")),
    MCTitle("update_v2", {}, TRUE,
            <<MCMember("v.cnmt", "nca", "v", 1), MCNca("vp"), MCNca("vd")>>),
    MCTitle("two_v0", {"r1", "r3"}, FALSE,
            <<MCMember("x.cnmt", "nca", "x", 1), MCNca("xp"), MCNca("xq")>>
              \o MCTik("r1", "t1") \o MCTik("r3", "t3")),
    MCTitle("base_v0", {}, FALSE, <<MCMember("c.cnmt", "nca", "c", 1), MCNca("cp")>>),
    MCTitle("lost_v0", {"r4"}, FALSE,
            <<MCMember("n.cnmt", "nca", "n", 1), MCNca("np")>>),
    MCTitle("part_v0", {}, FALSE,
            <<MCMember("m.cnmt", "nca", "m", 1), MCNca("mp")>>) }

MCNsp(t, gap) == MCContainer("PFS0", t.files, gap)

\* In a card image: behind a partition that is no part of the title.
MCXci(t) ==
  MCImage(<<MCPartition("update", <<MCMember("s", "nca", "s", 1)>>, 1),
            MCPartition("secure", t.files, 0)>>, 1)

\* With a ticket of somebody that cannot be parsed, an NSP cut short, no NSP.
MCWithBadTicket(t) ==
  MCContainer("PFS0", <<MCMember("r9", "tik", "bad", 1)>> \o t.files, 0)
MCCutShort(cells) == SubSeq(cells, 1, Len(cells) - 1)

MCKit(files, ts) ==
  [inputs |-> files, nca |-> MCNcaFacts, tickets |-> MCTickets,
   titles |-> {[base |-> t.base, rights |-> t.rights, delta |-> t.delta,
                members |-> {[name |-> m.name, bytes |-> m.cells] :
                               m \in {t.files[i] : i \in DOMAIN t.files}}] : t \in ts}]

MCKits ==
  {MCKit(<<MCNsp(s, 0), MCNsp(t, 3)>>, {s, t}) : s, t \in MCTitles}
  \cup {MCKit(<<MCXci(s), MCWithBadTicket(t)>>, {s, t}) : s, t \in MCTitles}
  \cup {MCKit(<<MCNsp(s, 1), MCCutShort(MCNsp(t, 0))>>, {s, t}) : s, t \in MCTitles}
  \cup {MCKit(<<MCNsp(s, 1), Pads(3)>>, {s}) : s \in MCTitles}
  \cup {MCKit(<<MCContainer("PFS0", <<MCNca("dd")>>, 0), MCCutShort(MCXci(t))>>, {}) :
          t \in MCTitles}
  \cup {MCKit(<<MCContainer("PFS0", <<MCNca("dd")>>, 0),
                MCContainer("PFS0", << >>, 0)>>, {})}
  \cup {MCKit(<<MCNsp(s, 0), MCXci(t), MCNsp(u, 1)>>, {s, t, u}) :
          s, t, u \in {q \in MCTitles : Cardinality(q.rights) < 2 /\ ~q.delta}}

-----------------------------------------------------------------------------
\* Card images: files around the size from which an NCA is compressed, to less
\* and to more than it was; a header of four files is too large, and so
\* is one of four partitions; the last bytes of some are missing, or the last header.
MCNcaFile(c, size) == MCMember(c, "nca", <<"raw", c>>, size)
MCOther(c, size) == MCMember(c, "xml", <<"raw", c>>, size)

MCFiles ==
  { << >>, <<MCNcaFile("a", 4)>>, <<MCNcaFile("a", 4), MCNcaFile("b", 3)>>,
    <<MCNcaFile("c", 2), MCNcaFile("b", 3)>>, <<MCOther("o", 1), MCNcaFile("a", 4)>>,
    <<MCNcaFile("a", 4), MCOther("z", 0), MCOther("o", 1)>>,
    <<MCNcaFile("a", 4), MCNcaFile("b", 3), MCNcaFile("c", 2), MCOther("o", 1)>> }

MCParts(fs, gs) ==
  { <<[name |-> "update", files |-> fs], [name |-> "secure", files |-> gs]>>,
    <<[name |-> "update", files |-> fs], [name |-> "normal", files |-> << >>],
      [name |-> "secure", files |-> gs]>>,
    <<[name |-> "secure", files |-> gs], [name |-> "logo", files |-> fs]>> }

MCCardOf(parts, keep, missing) ==
  LET image == MCImage([i \in DOMAIN parts |->
                          MCPartition(parts[i].name, parts[i].files, i)], 1)
  IN [file |-> SubSeq(image, 1, Len(image) - missing), keep |-> keep,
      raw |-> [c \in {"a", "b"} |-> IF c = "a" THEN 4 ELSE 3],
      ncz |-> [c \in {"a", "b"} |-> IF c = "a" THEN 2 ELSE 5],
      parts |-> parts]

MCCards ==
  LET all == UNION {MCParts(fs, gs) : fs, gs \in MCFiles}
  IN {MCCardOf(parts, keep, 0) : parts \in all, keep \in BOOLEAN}
     \cup {MCCardOf(parts, TRUE, 1) :
             parts \in {ps \in all : ps[Len(ps)].name = "secure"
                                     /\ ps[Len(ps)].files # << >>}}
     \cup {[MCCardOf(parts, TRUE, 0) EXCEPT !.file = Pads(4)] :
             parts \in {ps \in all : Len(ps) = 3}}
     \cup {MCCardOf(<<ps[1], ps[2], ps[2], ps[3]>>, keep, 0) :
             ps \in {qs \in all : Len(qs) = 3}, keep \in BOOLEAN}
     \cup {MCCardOf(Append(ps, [name |-> "logo", files |-> << >>]), keep, Len(ps) + 1) :
             ps \in {qs \in all : Len(qs) = 2}, keep \in BOOLEAN}
=============================================================================
