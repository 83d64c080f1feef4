------------------------------ MODULE NspTools ------------------------------
(***************************************************************************)
(* NspMerger.merge (lib/switch/merger.dart) and NspUnmerger.unmerge        *)
(* (unmerger.dart) of what it wrote: the union of the members of several   *)
(* NSPs and XCIs in one container, and the titles found in it again.       *)
(*                                                                         *)
(* A name is [stem, ext], the extension being what follows the last dot.   *)
(* What the code learns from the bytes of a member (the header of an NCA,  *)
(* its CNMT, the rights id of a ticket) is a function of its content.      *)
(***************************************************************************)
EXTENDS SwitchContainers, FiniteSets
LOCAL Seqs == INSTANCE SequencesExt
LOCAL INSTANCE TLC

(***************************************************************************)
(* A kit is what a user merges:                                            *)
(*   inputs   sequence of files                                            *)
(*   nca      content |-> [meta, rights, cnmt] of the NCAs; cnmt is        *)
(*            [base, refs], the name the split file gets and the sequence  *)
(*            of [id, kind] of the content table                           *)
(*   tickets  content |-> rights id, or Malformed                          *)
(*   titles   the titles in it: [base, members, rights], for the properties*)
(***************************************************************************)
CONSTANTS Kits, NoRights, Malformed, NoKit

VARIABLES
  kit,       \* what is merged, or NoKit
  nsp,       \* "idle", "collect", "write", "scan", "group", "split", "done",
             \* "failed"
  turn,      \* the input, member, meta NCA or title whose turn it is
  members,   \* Pfs0Builder's members: [name, file, at, size]
  merged,    \* the merged NSP
  groups,    \* the titles found in it
  outputs    \* the split files: path |-> file

nspVars == <<kit, nsp, turn, members, merged, groups, outputs>>

NspIdle ==
  /\ kit = NoKit /\ nsp = "idle" /\ turn = 1
  /\ members = << >> /\ merged = << >> /\ groups = << >> /\ outputs = << >>

NspStart ==
  /\ kit \in Kits /\ nsp = "collect" /\ turn = 1
  /\ members = << >> /\ merged = << >> /\ groups = << >> /\ outputs = << >>

NspFails ==
  /\ nsp' = "failed"
  /\ UNCHANGED <<kit, turn, members, merged, groups, outputs>>

-----------------------------------------------------------------------------
\* merge: the members of each input, the first of a name.
IsXci(file) == file[1][1] = "XCI"

OpensInput(file) == IF IsXci(file) THEN OpensXci(file) ELSE Opens(file, 0, "PFS0")

InputEntries(file) == IF IsXci(file) THEN SecureEntries(file) ELSE Entries(file, 0)

Member(i, e) == [name |-> e.name, file |-> i, at |-> e.at, size |-> e.size]

AddNew(ms, m) ==
  IF \E k \in DOMAIN ms : ms[k].name = m.name THEN ms ELSE Append(ms, m)

CollectInput ==
  /\ nsp = "collect"
  /\ turn <= Len(kit.inputs)
  /\ OpensInput(kit.inputs[turn])
  /\ members' = Seqs!FoldLeft(LAMBDA ms, e : AddNew(ms, Member(turn, e)), members,
                              InputEntries(kit.inputs[turn]))
  /\ turn' = turn + 1
  /\ UNCHANGED <<kit, nsp, merged, groups, outputs>>

\* Its header is not that of a container, or is cut short.
RejectInput ==
  /\ nsp = "collect"
  /\ turn <= Len(kit.inputs)
  /\ ~OpensInput(kit.inputs[turn])
  /\ NspFails

BeginMerged ==
  /\ nsp = "collect"
  /\ turn > Len(kit.inputs)
  /\ merged' = Pfs0Header(members)
  /\ nsp' = "write" /\ turn' = 1
  /\ UNCHANGED <<kit, members, groups, outputs>>

\* _streamFromHandle
WriteMember ==
  /\ nsp = "write"
  /\ turn <= Len(members)
  /\ LET m == members[turn]
     IN /\ Readable(kit.inputs[m.file], m)
        /\ merged' = merged \o Bytes(kit.inputs[m.file], m)
  /\ turn' = turn + 1
  /\ UNCHANGED <<kit, nsp, members, groups, outputs>>

\* "Unexpected end of source file."
SourceEnds ==
  /\ nsp = "write"
  /\ turn <= Len(members)
  /\ ~Readable(kit.inputs[members[turn].file], members[turn])
  /\ NspFails

EndMerged ==
  /\ nsp = "write"
  /\ turn > Len(members)
  /\ nsp' = "scan" /\ turn' = 1
  /\ UNCHANGED <<kit, members, merged, groups, outputs>>

-----------------------------------------------------------------------------
\* unmerge: what the merged NSP holds.
Found == Entries(merged, 0)

WithExt(ext) == SelectSeq(Found, LAMBDA e : e.name.ext = ext)

\* The content of an entry, as its bytes tell.
ContentOf(e) == Bytes(merged, e)[1][2]

NcaAt(e) == kit.nca[ContentOf(e)]

\* _loadTicketEntries: the ticket of a rights id, the last one that has it.
TicketsFor(rights) ==
  SelectSeq(WithExt("tik"), LAMBDA e : kit.tickets[ContentOf(e)] = rights)

\* Nca.parse needs the ticket of every NCA, and reads its whole header.
Parses(e) == NcaAt(e).rights = NoRights \/ TicketsFor(NcaAt(e).rights) # << >>

MetaNcas == SelectSeq(WithExt("nca"), LAMBDA e : NcaAt(e).meta)

Scan ==
  /\ nsp = "scan"
  /\ \A i \in DOMAIN WithExt("nca") : Parses(WithExt("nca")[i])
  /\ MetaNcas # << >>
  /\ nsp' = "group"
  /\ UNCHANGED <<kit, turn, members, merged, groups, outputs>>

\* A ticket is missing, or "No meta (.cnmt) NCA found".
ScanFails ==
  /\ nsp = "scan"
  /\ \/ \E i \in DOMAIN WithExt("nca") : ~Parses(WithExt("nca")[i])
     \/ MetaNcas = << >>
  /\ NspFails

NcaNamed(id) == SelectSeq(WithExt("nca"), LAMBDA e : e.name.stem = id)

\* The contents of a title that are there; a delta fragment is not looked for.
Present(refs) ==
  Seqs!FlattenSeq([i \in DOMAIN refs |->
    IF refs[i].kind \in {"meta", "deltaFragment"} THEN << >>
    ELSE NcaNamed(refs[i].id)])

XmlOf(meta) ==
  SelectSeq(WithExt("xml"), LAMBDA e : e.name.stem = meta.name.stem)

\* The first rights id among the members.
RightsOf(es) ==
  LET keyed == SelectSeq(es, LAMBDA e : e.name.ext = "nca" /\ NcaAt(e).rights # NoRights)
  IN IF keyed = << >> THEN NoRights ELSE NcaAt(keyed[1]).rights

GroupTitle ==
  /\ nsp = "group"
  /\ turn <= Len(MetaNcas)
  /\ LET meta == MetaNcas[turn]
         cnmt == NcaAt(meta).cnmt
         es == <<meta>> \o XmlOf(meta) \o Present(cnmt.refs)
     IN groups' = Append(groups,
                         [base |-> cnmt.base, entries |-> es, rights |-> RightsOf(es)])
  /\ turn' = turn + 1
  /\ UNCHANGED <<kit, nsp, members, merged, outputs>>

EndGroups ==
  /\ nsp = "group"
  /\ turn > Len(MetaNcas)
  /\ nsp' = "split" /\ turn' = 1
  /\ UNCHANGED <<kit, members, merged, groups, outputs>>

\* The certificates that share the ticket's stem.
CertsOf(tik) == SelectSeq(WithExt("cert"), LAMBDA e : e.name.stem = tik.name.stem)

\* Mutant of TicketOf: every ticket goes to every title that has one.
AllTickets(rights) ==
  IF rights = NoRights THEN << >>
  ELSE WithExt("tik") \o WithExt("cert")

TicketOf(rights) ==
  IF rights = NoRights \/ TicketsFor(rights) = << >> THEN << >>
  ELSE LET tik == Seqs!Last(TicketsFor(rights)) IN <<tik>> \o CertsOf(tik)

\* The file of one title; its path is made of the title's id, kind and version.
WriteTitle ==
  /\ nsp = "split"
  /\ turn <= Len(groups)
  /\ LET g == groups[turn]
         es == g.entries \o TicketOf(g.rights)
         file == Pfs0Header(es) \o Seqs!FlattenSeq([i \in DOMAIN es |-> Bytes(merged, es[i])])
     IN outputs' = (g.base :> file) @@ outputs
  /\ turn' = turn + 1
  /\ UNCHANGED <<kit, nsp, members, merged, groups>>

EndSplit ==
  /\ nsp = "split"
  /\ turn > Len(groups)
  /\ nsp' = "done"
  /\ UNCHANGED <<kit, turn, members, merged, groups, outputs>>

Merge ==
  \/ CollectInput \/ RejectInput \/ BeginMerged
  \/ WriteMember \/ SourceEnds \/ EndMerged

Unmerge ==
  \/ Scan \/ ScanFails \/ GroupTitle \/ EndGroups \/ WriteTitle \/ EndSplit

NspNext == Merge \/ Unmerge

-----------------------------------------------------------------------------
\* The members of a container as a reader finds them.
Inside(file) ==
  {[name |-> e.name, bytes |-> Bytes(file, e)] :
     e \in {Entries(file, 0)[i] : i \in DOMAIN Entries(file, 0)}}

\* A title under one rights id, without delta fragments, and the only one of its
\* name: of two dumps of one title and version the later split file overwrites
\* the earlier, and of two rights ids only the first keeps its ticket.
Restorable(t) ==
  /\ \A u \in kit.titles : u.base = t.base => u = t
  /\ Cardinality(t.rights) <= 1
  /\ ~t.delta

\* "split members must reproduce the merged NSP exactly": each title of the
\* inputs comes back from the merged file as it went in, with its own NCAs, byte
\* for byte, its ticket and certificate and nobody else's, whatever the other
\* inputs share with it.
TitlesRestored ==
  nsp = "done" =>
    \A t \in kit.titles : Restorable(t) =>
      t.base \in DOMAIN outputs /\ Inside(outputs[t.base]) = t.members
=============================================================================
