-------------------------- MODULE SwitchContainers --------------------------
(***************************************************************************)
(* The containers of Switch titles, as their builders lay them out and     *)
(* their readers find their members again: PFS0 (lib/switch/pfs0.dart),    *)
(* HFS0 (hfs0.dart) and the XCI around two levels of HFS0 (xci_reader.dart)*)
(*                                                                         *)
(* A file is a sequence of cells.  A cell is the fixed header of a         *)
(* container, one entry of its table, one name of its string table, or one *)
(* byte of padding or of a member; a cell of the first three kinds stands  *)
(* for its fixed number of bytes.  Byte i of a member is named by what the *)
(* member holds.                                                           *)
(***************************************************************************)
EXTENDS Integers, Sequences
LOCAL Seqs == INSTANCE SequencesExt

CONSTANTS
  NameAlign,    \* a PFS0 header is padded to a multiple of this (0x20)
  Reserved,     \* cells the HFS0 builder leaves for a header (0x8000)
  MediaUnit     \* partitions are padded to a multiple of this (0x200)

FixedHeader(magic, count, names) == <<magic, count, names>>
Entry(offset, size, name) == <<"entry", offset, size, name>>
Name(n) == <<"name", n>>
Pads(n) == [i \in 1..n |-> <<"pad">>]
Data(content, size) == [i \in 1..size |-> <<"data", content, i>>]

Names(ms) == [i \in DOMAIN ms |-> Name(ms[i].name)]

Slice(file, from, size) == SubSeq(file, from + 1, from + size)

\* RandomAccessFile.writeFrom at a position, the gap before it left zero.
WriteAt(file, pos, cells) ==
  SubSeq(file \o Pads(pos - Len(file)), 1, pos) \o cells
    \o SubSeq(file, pos + Len(cells) + 1, Len(file))

-----------------------------------------------------------------------------
\* Where member i of a PFS0 starts: runningOffset.
Running(ms, i) == Seqs!FoldLeft(LAMBDA sum, m : sum + m.size, 0, SubSeq(ms, 1, i - 1))

\* The padding is never empty, even when the header is aligned already.
HeaderPadding(n) == NameAlign - ((1 + 2 * n) % NameAlign)

\* The header Pfs0Builder.writeTo puts before the members ms.
Pfs0Header(ms) ==
  LET n == Len(ms)
  IN <<FixedHeader("PFS0", n, n + HeaderPadding(n))>>
       \o [i \in 1..n |-> Entry(Running(ms, i), ms[i].size, i - 1)]
       \o Names(ms) \o Pads(HeaderPadding(n))

\* The header of an HFS0 with these entries, whose offsets count from the end of
\* the reserved space, and in the file from the end of the header.
Hfs0HeaderSize(es) == 1 + 2 * Len(es)

Hfs0Header(es) ==
  <<FixedHeader("HFS0", Len(es), Len(es))>>
    \o [i \in DOMAIN es |-> Entry(es[i].offset + Reserved - Hfs0HeaderSize(es),
                                  es[i].size, i - 1)]
    \o Names(es)

-----------------------------------------------------------------------------
\* A container of this kind starts at position at, its header all there.
Opens(file, at, magic) ==
  /\ at < Len(file)
  /\ file[at + 1][1] = magic
  /\ at + 1 + file[at + 1][2] + file[at + 1][3] <= Len(file)

\* Its entries, with absolute offsets: Pfs0Reader.open, Hfs0Reader.initialize.
Entries(file, at) ==
  LET n == file[at + 1][2]
      region == at + 1 + n + file[at + 1][3]
  IN [i \in 1..n |->
        LET e == file[at + 1 + i]
        IN [name |-> file[at + 1 + n + e[4] + 1][2],
            at |-> region + e[2], size |-> e[3]]]

\* _readExact gets all the bytes it asks for.
Readable(file, e) == e.at + e.size <= Len(file)

Bytes(file, e) == Slice(file, e.at, e.size)

\* The XCI header names the place of the root HFS0.
RootAt(file) == file[1][2]

\* The first partition of this name.
IsSecure(root, i) ==
  /\ root[i].name = "secure"
  /\ \A j \in 1..(i - 1) : root[j].name # "secure"

\* XciReader.open succeeds.
OpensXci(file) ==
  /\ file # << >> /\ file[1][1] = "XCI"
  /\ Opens(file, RootAt(file), "HFS0")
  /\ LET root == Entries(file, RootAt(file))
     IN \E i \in DOMAIN root : IsSecure(root, i) /\ Opens(file, root[i].at, "HFS0")

\* The members it finds in the secure partition.
SecureEntries(file) ==
  LET root == Entries(file, RootAt(file))
  IN Entries(file, root[CHOOSE i \in DOMAIN root : IsSecure(root, i)].at)
=============================================================================
