----------------------------- MODULE XczArchive -----------------------------
(***************************************************************************)
(* XczArchive.compress and XczArchive.decompress (lib/switch/xcz_archive   *)
(* .dart): a card image is rewritten partition by partition through one    *)
(* file handle, whose position every Hfs0Builder (hfs0.dart) shares; the   *)
(* header of a partition goes into the space left for it once its files    *)
(* are there.                                                              *)
(*                                                                         *)
(* What Ncz makes of a member's bytes is NczCodec's concern: here <<"raw", *)
(* c>> becomes <<"ncz", c>> and back.                                      *)
(***************************************************************************)
EXTENDS SwitchContainers

(***************************************************************************)
(* A card is an image to convert:                                          *)
(*   file     the image                                                    *)
(*   keep     keepPartitions                                               *)
(*   raw, ncz the sizes of the NCAs c, as they are and compressed          *)
(*   parts    what it holds: sequence of [name, files], for the properties *)
(***************************************************************************)
CONSTANTS Cards, NoCard, MinNca   \* MinNca: _minCompressibleNca

IsList(l) == Len(l) \in Nat /\ l = [k \in 1..Len(l) |-> l[k]]

\* A file lists these partitions, [name, files] with files [name, bytes], as far
\* as it reaches.
Lists(file, parts) ==
  LET root == Entries(file, RootAt(file))
  IN /\ IsList(file) /\ RootAt(file) \in 1..(Len(file) - 1)
     /\ DOMAIN root = DOMAIN parts
     /\ \A i \in DOMAIN parts :
          /\ root[i].name = parts[i].name /\ root[i].at \in Nat
          /\ Opens(file, root[i].at, "HFS0") =>
               LET es == Entries(file, root[i].at)
                   fs == parts[i].files
               IN /\ DOMAIN es = DOMAIN fs
                  /\ \A j \in DOMAIN fs :
                       /\ es[j].name = fs[j].name
                       /\ es[j].at \in Nat /\ es[j].size = Len(fs[j].bytes)
                       /\ Readable(file, es[j]) => Bytes(file, es[j]) = fs[j].bytes

Contents(files) ==
  [j \in DOMAIN files |-> [name |-> files[j].name,
                           bytes |-> Data(files[j].content, files[j].size)]]

Whole(parts) ==
  [i \in DOMAIN parts |-> [name |-> parts[i].name, files |-> Contents(parts[i].files)]]

\* A card that opens lists its parts.  It holds no .ncz, and what Ncz makes of an
\* NCA is not empty.
CardOK(c) ==
  /\ c.keep \in BOOLEAN
  /\ OpensXci(c.file) =>
       Lists(c.file, Whole(c.parts))
  /\ IsList(c.parts)
  /\ \A i \in DOMAIN c.parts :
       /\ IsList(c.parts[i].files)
       /\ \A j \in DOMAIN c.parts[i].files :
            LET f == c.parts[i].files[j]
            IN /\ f.size \in Nat /\ f.name = [stem |-> f.name.stem, ext |-> f.name.ext]
               /\ f.name.ext # "ncz"
               /\ f.name.ext = "nca" /\ f.size > MinNca =>
                    /\ f.content = <<"raw", f.content[2]>>
                    /\ f.size = c.raw[f.content[2]]
                    /\ c.ncz[f.content[2]] \in Nat \ {0}

ASSUME CardAssumption ==
  /\ NoCard \notin Cards /\ MinNca \in Nat
  /\ Reserved \in Nat /\ MediaUnit \in Nat \ {0}
  /\ \A c \in Cards : CardOK(c)

VARIABLES
  card,     \* the image, or NoCard
  xcz,      \* "idle", "head", "parts", "files", "packed", "done", "failed"
  packing,  \* compress, or decompress
  source,   \* the input
  target,   \* the output
  pos,      \* position of its handle
  addPos,   \* rootAddPos
  rootEntries,   \* rootBuilder.entries
  part,     \* the partition whose turn it is
  nested    \* partitionBuilder: [start, actual, entries, next]

xczVars == <<card, xcz, packing, source, target, pos, addPos, rootEntries, part,
             nested>>

NoNested == [start |-> 0, actual |-> 0, entries |-> << >>, next |-> 1]

Fresh ==
  /\ target = << >> /\ pos = 0 /\ addPos = 0
  /\ rootEntries = << >> /\ part = 1 /\ nested = NoNested

XczIdle ==
  card = NoCard /\ xcz = "idle" /\ packing = TRUE /\ source = << >> /\ Fresh

XczStart ==
  card \in Cards /\ xcz = "head" /\ packing = TRUE /\ source = card.file /\ Fresh

XczFails ==
  /\ xcz' = "failed"
  /\ UNCHANGED <<card, packing, source, target, pos, addPos, rootEntries, part,
                 nested>>

-----------------------------------------------------------------------------
Partitions == Entries(source, RootAt(source))
FilesOf(p) == Entries(source, Partitions[p].at)
Files == FilesOf(part)

\* What is left out: all but the secure partition when compressing, and what
\* holds no file when decompressing.
Dropped(p) == ~card.keep /\ Partitions[p].name # "secure"
Trims(p) == IF packing THEN Dropped(p) ELSE FilesOf(p) = << >>
Trimmed == Trims(part)

\* XciReader.open succeeds, and so does Hfs0Reader.initialize for what is read.
OpensImage ==
  /\ OpensXci(source)
  /\ \A p \in DOMAIN Partitions :
       ~(packing /\ Dropped(p)) => Opens(source, Partitions[p].at, "HFS0")

\* The headers are copied, the root builder begins behind its reserved space.
CopyHead ==
  /\ xcz = "head"
  /\ OpensImage
  /\ target' = Slice(source, 0, RootAt(source))
  /\ pos' = RootAt(source) + Reserved
  /\ addPos' = Reserved
  /\ xcz' = "parts"
  /\ UNCHANGED <<card, packing, source, rootEntries, part, nested>>

RejectImage ==
  /\ xcz = "head"
  /\ ~OpensImage
  /\ XczFails

\* The entry of a partition of this size in the root.
RootEntry(size) ==
  [name |-> Partitions[part].name, size |-> size, offset |-> addPos - Reserved]

\* An HFS0 without files, one media unit long.
Placeholder == <<FixedHeader("HFS0", 0, 1)>> \o Pads(MediaUnit - 1)

TrimPartition ==
  /\ xcz = "parts"
  /\ part <= Len(Partitions)
  /\ Trimmed
  /\ target' = WriteAt(target, pos, Placeholder)
  /\ pos' = pos + MediaUnit
  /\ rootEntries' = Append(rootEntries, RootEntry(MediaUnit))
  /\ addPos' = addPos + MediaUnit
  /\ part' = part + 1
  /\ UNCHANGED <<card, xcz, packing, source, nested>>

BeginPartition ==
  /\ xcz = "parts"
  /\ part <= Len(Partitions)
  /\ ~Trimmed
  /\ LET start == RootAt(source) + addPos
     IN /\ nested' = [start |-> start, actual |-> Reserved, entries |-> << >>,
                      next |-> 1]
        /\ pos' = start + Reserved
  /\ xcz' = "files"
  /\ UNCHANGED <<card, packing, source, target, addPos, rootEntries, part>>

-----------------------------------------------------------------------------
File == Files[nested.next]

\* The file is put through Ncz.
Converts(e) ==
  IF packing THEN e.name.ext = "nca" /\ e.size > MinNca ELSE e.name.ext = "ncz"

\* What comes out of Ncz: nothing of use when it is not given a whole member.
Recode(bytes) ==
  LET content == bytes[1][2]
      c == content[2]
      size == IF packing THEN card.ncz[c] ELSE card.raw[c]
  IN IF bytes = Data(content, IF packing THEN card.raw[c] ELSE card.ncz[c])
     THEN Data(<<IF packing THEN "ncz" ELSE "raw", c>>, size) ELSE Pads(size)

OutputBytes(e) ==
  IF Converts(e) THEN Recode(Bytes(source, e)) ELSE Bytes(source, e)

\* _swapExtension
OutputName(e) ==
  IF ~Converts(e) THEN e.name
  ELSE [e.name EXCEPT !.ext = IF packing THEN "ncz" ELSE "nca"]

\* Mutant of AddFile: it is registered with the size it has in the source.
AddFileOldSize ==
  /\ xcz = "files"
  /\ nested.next <= Len(Files)
  /\ Readable(source, File)
  /\ LET bytes == OutputBytes(File)
         at == nested.start + nested.actual
     IN /\ target' = WriteAt(target, at, bytes)
        /\ pos' = at + Len(bytes)
        /\ nested' = [nested EXCEPT
             !.entries = Append(@, [name |-> OutputName(File), size |-> File.size,
                                    offset |-> nested.actual - Reserved]),
             !.actual = at + Len(bytes) - nested.start,
             !.next = @ + 1]
  /\ UNCHANGED <<card, xcz, packing, source, addPos, rootEntries, part>>

\* addFile seeks to the end of what the partition has, and finalizeFileWrite
\* takes the new end from the position of the handle.
AddFile ==
  /\ xcz = "files"
  /\ nested.next <= Len(Files)
  /\ Readable(source, File)
  /\ LET bytes == OutputBytes(File)
         at == nested.start + nested.actual
     IN /\ target' = WriteAt(target, at, bytes)
        /\ pos' = at + Len(bytes)
        /\ nested' = [nested EXCEPT
             !.entries = Append(@, [name |-> OutputName(File), size |-> Len(bytes),
                                    offset |-> nested.actual - Reserved]),
             !.actual = at + Len(bytes) - nested.start,
             !.next = @ + 1]
  /\ UNCHANGED <<card, xcz, packing, source, addPos, rootEntries, part>>

\* "Unexpected end of file in Hfs0Reader."
SourceCutShort ==
  /\ xcz = "files"
  /\ nested.next <= Len(Files)
  /\ ~Readable(source, File)
  /\ XczFails

\* The header goes in front; the padding, never empty, to the end.
ClosePartition ==
  /\ xcz = "files"
  /\ nested.next > Len(Files)
  /\ Hfs0HeaderSize(nested.entries) <= Reserved
  /\ LET size == nested.actual + MediaUnit - (nested.actual % MediaUnit)
         headed == WriteAt(target, nested.start, Hfs0Header(nested.entries))
     IN /\ target' = WriteAt(headed, nested.start + nested.actual,
                             Pads(size - nested.actual))
        /\ pos' = nested.start + size
        /\ rootEntries' = Append(rootEntries, RootEntry(size))
        /\ addPos' = addPos + size
  /\ part' = part + 1
  /\ nested' = NoNested
  /\ xcz' = "parts"
  /\ UNCHANGED <<card, packing, source>>

\* "HFS0 Header size exceeds reserved size", of a partition or of the root.
HeaderOverflows ==
  /\ \/ /\ xcz = "files"
        /\ nested.next > Len(Files)
        /\ Hfs0HeaderSize(nested.entries) > Reserved
     \/ /\ xcz = "parts"
        /\ part > Len(Partitions)
        /\ Hfs0HeaderSize(rootEntries) > Reserved
  /\ XczFails

\* rootBuilder.end(): the root header goes in, the output is closed.
EndRoot ==
  /\ xcz = "parts"
  /\ part > Len(Partitions)
  /\ Hfs0HeaderSize(rootEntries) <= Reserved
  /\ target' = WriteAt(target, RootAt(source), Hfs0Header(rootEntries))
  /\ pos' = RootAt(source) + addPos
  /\ xcz' = IF packing THEN "packed" ELSE "done"
  /\ UNCHANGED <<card, packing, source, addPos, rootEntries, part, nested>>

\* The .xcz is given to decompress.
Unpack ==
  /\ xcz = "packed"
  /\ packing' = FALSE
  /\ source' = target
  /\ target' = << >> /\ pos' = 0 /\ addPos' = 0
  /\ rootEntries' = << >> /\ part' = 1 /\ nested' = NoNested
  /\ xcz' = "head"
  /\ UNCHANGED card

XczNext ==
  \/ CopyHead \/ RejectImage
  \/ TrimPartition \/ BeginPartition
  \/ AddFile \/ SourceCutShort \/ ClosePartition \/ HeaderOverflows
  \/ EndRoot \/ Unpack

-----------------------------------------------------------------------------
\* An image as XciReader and Hfs0Reader find it.
Listing(file) ==
  LET root == Entries(file, RootAt(file))
  IN [i \in DOMAIN root |->
        LET es == Entries(file, root[i].at)
        IN [name |-> root[i].name,
            files |-> [j \in DOMAIN es |->
                         [name |-> es[j].name, bytes |-> Bytes(file, es[j])]]]]

\* What an image of these partitions is to hold: the files of those kept.
Plain(parts) ==
  [i \in DOMAIN parts |->
     [name |-> parts[i].name,
      files |-> IF card.keep \/ parts[i].name = "secure"
                THEN Contents(parts[i].files) ELSE << >>]]

Compressible(f) == f.name.ext = "nca" /\ Len(f.bytes) > MinNca

\* The same with every large NCA compressed.
Compressed(parts) ==
  [i \in DOMAIN parts |->
     [parts[i] EXCEPT !.files =
        [j \in DOMAIN @ |->
           IF ~Compressible(@[j]) THEN @[j]
           ELSE LET c == @[j].bytes[1][2][2]
                IN [name |-> [@[j].name EXCEPT !.ext = "ncz"],
                    bytes |-> Data(<<"ncz", c>>, card.ncz[c])]]]]

\* The nested headers, written last and in front of what they describe, find
\* every file again, in the .xcz and in the .xci made of it: each partition kept
\* holds its files byte for byte, the others are there and empty, and no header
\* or padding has gone over a file.
CardRestored ==
  /\ xcz = "packed" => Listing(target) = Compressed(Plain(card.parts))
  /\ xcz = "done" => Listing(target) = Plain(card.parts)
=============================================================================
