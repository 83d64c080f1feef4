---------------------------- MODULE ThreeDsCrypto ----------------------------
(***************************************************************************)
(* decrypt3ds and encrypt3ds: a 3DS image is converted in a copy, or in    *)
(* place when the user asked for it, one partition after the other.  A     *)
(* partition's sections are XORed with a key stream one by one, and its    *)
(* two flag bytes, which say whether and how it is encrypted, are written  *)
(* last.  The isolate that does it may be killed between any two writes.   *)
(*                                                                         *)
(* AES-CTR is an involution: a section is the set of the keys whose stream *)
(* it is XORed with, {} being the plain text.  All the chunks of a section *)
(* are written by one action.                                              *)
(***************************************************************************)
EXTENDS Naturals

CONSTANTS
  NParts,     \* partitions of the NCSD table
  NFiles,     \* bound: image files
  MaxOps,     \* bound: operations
  Methods,    \* values of the crypto-method byte
  Rekeyed,    \* those with a key of their own (0x01, 0x0A, 0x0B)
  Method0,    \* the byte 0x00
  K2C,        \* the key derived from KeyX 0x2C
  ZeroKey,    \* the fixed key
  Roms        \* the images considered, as they were released

Parts == 0..NParts - 1
Files == 1..NFiles

Keys == Rekeyed \cup {K2C, ZeroKey}
Sections == {"exheader", "table", "code", "body", "romfs"}
Flags == [method : Methods, fixed : BOOLEAN, newKeyY : BOOLEAN,
          noCrypto : BOOLEAN]

\* A partition of a released image: nothing to convert ("skipped": an empty
\* entry or no NCCH magic), an entry that points past the end of a truncated
\* file, or an encrypted NCCH with its sections and its flags.
\* .code is a file of the ExeFS, whose first sector is the table.
Layouts ==
  [kind : {"skipped", "past", "ncch"},
   has : {S \in SUBSET Sections : "code" \in S => {"table", "body"} \subseteq S},
   flags : {g \in Flags : ~g.noCrypto}]

ASSUME CryptoAssumption ==
  /\ NParts \in Nat \ {0} /\ NFiles \in Nat \ {0} /\ MaxOps \in Nat
  /\ Rekeyed \subseteq Methods
  /\ Method0 \in Methods \ Rekeyed
  /\ K2C \notin Rekeyed /\ ZeroKey \notin Rekeyed /\ K2C # ZeroKey
  /\ Roms \subseteq [Parts -> Layouts]

VARIABLES
  rom,        \* the image as it was released
  files,      \* each file: its partitions, and its trailing padding
  present,    \* the files that hold a whole image
  pc,         \* "idle", "copy" or "parts"
  op,         \* the operation: action, source, target, trim
  part,       \* the partition it is at
  at,         \* the step within the partition
  scanned,    \* the flags of each partition, as the pre-scan read them
  ops,        \* how many operations were started
  result,     \* what the last operation reported
  killed,     \* history: files an operation was killed on
  reworked    \* history: files made by an operation on a damaged one

place == <<part, at, scanned>>
vars == <<rom, files, present, pc, op, place, ops, result, killed, reworked>>

-----------------------------------------------------------------------------
\* Key choice.  The fixed key replaces both keys.
NormalKey2C(g) == IF g.fixed THEN ZeroKey ELSE K2C

NormalKey(g) ==
  IF g.fixed THEN ZeroKey ELSE IF g.method \in Rekeyed THEN g.method ELSE K2C

\* "RomFS on partitions 1+ always uses KeyX 0x2C", even with the fixed key.
RomFsKey(p, g) == IF p > 0 THEN K2C ELSE NormalKey(g)

\* The key each section of partition p is encrypted with under flags g.
SectionKey(p, g, s) ==
  IF s = "code" THEN NormalKey(g)
  ELSE IF s = "romfs" THEN RomFsKey(p, g) ELSE NormalKey2C(g)

\* The two forms of a partition: as released, and decrypted.
Released(p) ==
  [flags |-> rom[p].flags,
   data |-> [s \in Sections |-> IF s \in rom[p].has
                                THEN {SectionKey(p, rom[p].flags, s)} ELSE {}]]
DecryptedFlags ==
  [method |-> Method0, fixed |-> FALSE, newKeyY |-> FALSE, noCrypto |-> TRUE]
Decrypted == [flags |-> DecryptedFlags, data |-> [s \in Sections |-> {}]]

Ncch == {p \in Parts : rom[p].kind = "ncch"}

\* The partitions of file f that are in neither form.
Damaged(f) == {p \in Ncch : files[f].parts[p] \notin {Released(p), Decrypted}}

\* What "the backup flags of partition 0 choose the key of each partition" takes
\* for granted, and what released images look like: partitions 1+ use method
\* 0x00 and the bits of partition 0, and have no .code if it has a key of its own.
Uniform ==
  \A p \in Ncch \ {0} :
    LET g == rom[p].flags
    IN /\ g = [rom[0].flags EXCEPT !.method = Method0]
       /\ "code" \in rom[p].has => NormalKey(rom[0].flags) = NormalKey(g)

\* There is no operation, and no pre-scan.
NoScan == [p \in Parts |-> DecryptedFlags]
NoOp == [action |-> "none", src |-> 1, target |-> 1, trim |-> FALSE]
NoResult == [kind |-> "none", action |-> "none", file |-> 1]

\* The user's file is an image of which some partitions may be decrypted.
Init ==
  /\ rom \in Roms
  /\ \E plain \in SUBSET Ncch :
       files = [f \in Files |->
                  [parts |-> [p \in Parts |-> IF p \in plain THEN Decrypted
                                              ELSE Released(p)],
                   padded |-> TRUE]]
  /\ present = {1}
  /\ pc = "idle" /\ op = NoOp /\ part = 0 /\ at = 1 /\ scanned = NoScan
  /\ ops = 0 /\ result = NoResult
  /\ killed = {} /\ reworked = {}

-----------------------------------------------------------------------------
\* _is3dsFullyDecrypted: every NCCH partition has its NoCrypto flag set.
FullyDecrypted(f) == \A p \in Ncch : files[f].parts[p].flags.noCrypto

\* The pre-scan of file f, which is about to be converted.
Scan(f) == [p \in Parts |-> files[f].parts[p].flags]

\* What file g inherits from file f when an operation starts to work on it.
Inherit(f, g) ==
  /\ killed' = IF f \in killed THEN killed \cup {g} ELSE killed \ {g}
  /\ reworked' = IF f \in reworked \/ Damaged(f) # {} THEN reworked \cup {g}
                 ELSE reworked \ {g}

\* decrypt3ds or encrypt3ds on file f, writing to file g; g = f in place.
Start(action, f, g, trim) ==
  /\ pc = "idle"
  /\ f \in present
  /\ ops < MaxOps
  /\ g >= f
  /\ ops' = ops + 1
  /\ part' = 0 /\ at' = 1
  /\ \/ \* nothing left to decrypt: no file is made
        /\ action = "decrypt" /\ g # f /\ FullyDecrypted(f)
        /\ result' = [kind |-> "ok", action |-> action, file |-> f]
        /\ Inherit(f, f)
        /\ UNCHANGED <<rom, files, present, pc, op, scanned>>
     \/ /\ g # f /\ ~(action = "decrypt" /\ FullyDecrypted(f))
        /\ pc' = "copy"
        /\ present' = present \ {g}
        /\ op' = [action |-> action, src |-> f, target |-> g, trim |-> trim]
        /\ result' = NoResult
        /\ UNCHANGED <<rom, files, scanned, killed, reworked>>
     \/ /\ g = f
        /\ pc' = "parts"
        /\ op' = [action |-> action, src |-> f, target |-> g, trim |-> trim]
        /\ result' = NoResult
        /\ Inherit(f, f)
        /\ scanned' = Scan(f)
        /\ UNCHANGED <<rom, files, present>>

\* resolveTarget's copy is complete.
CopyDone ==
  /\ pc = "copy"
  /\ files' = [files EXCEPT ![op.target] = files[op.src]]
  /\ present' = present \cup {op.target}
  /\ pc' = "parts"
  /\ Inherit(op.src, op.target)
  /\ scanned' = Scan(op.src)
  /\ UNCHANGED <<rom, op, part, at, ops, result>>

\* The order of the writes to one partition.
Order ==
  [decrypt |-> <<"exheader", "table", "recode", "body", "romfs", "method",
                 "flags">>,
   encrypt |-> <<"exheader", "recode", "table", "body", "romfs", "method",
                 "flags">>]

Current == files[op.target].parts[part]

\* The flags that choose the keys: the partition's own, as the pre-scan read
\* them, or the backup of partition 0's.
KeyFlags == IF op.action = "decrypt" THEN scanned[part] ELSE rom[0].flags

\* The partition is in the form the operation converts, now and in the pre-scan.
ToConvert == rom[part].kind = "ncch"
             /\ Current.flags.noCrypto = (op.action = "encrypt")
             /\ scanned[part].noCrypto = (op.action = "encrypt")

\* The partition is being converted and its next write is this one.
Writing(step) ==
  /\ pc = "parts" /\ part < NParts
  /\ at > 1 \/ ToConvert
  /\ Order[op.action][at] = step

Toggle(keys, k) == IF k \in keys THEN keys \ {k} ELSE keys \cup {k}

PartitionDone == at = 7

\* Mutant of Write: each pass is made over all the partitions before the next.
WritePassByPass(new) ==
  /\ files' = [files EXCEPT ![op.target].parts[part] = new]
  /\ IF part + 1 < NParts THEN part' = part + 1 /\ at' = at
     ELSE IF PartitionDone THEN part' = NParts /\ at' = 1
     ELSE part' = 0 /\ at' = at + 1
  /\ UNCHANGED <<rom, present, pc, op, scanned, ops, result, killed, reworked>>

\* One write to the current partition; the last one leads to the next.
Write(new) ==
  /\ files' = [files EXCEPT ![op.target].parts[part] = new]
  /\ IF PartitionDone THEN part' = part + 1 /\ at' = 1
     ELSE at' = at + 1 /\ part' = part
  /\ UNCHANGED <<rom, present, pc, op, scanned, ops, result, killed, reworked>>

\* The current partition with the sections of S, where it has them, XORed.
Xored(S, k) ==
  [Current EXCEPT !.data = [s \in Sections |->
     IF s \in S \cap rom[part].has THEN Toggle(Current.data[s], k)
     ELSE Current.data[s]]]

CryptExHeader ==
  Writing("exheader") /\ Write(Xored({"exheader"}, NormalKey2C(KeyFlags)))

CryptTable ==
  Writing("table") /\ Write(Xored({"table"}, NormalKey2C(KeyFlags)))

\* The body is XORed whole, .code included.
CryptBody ==
  Writing("body") /\ Write(Xored({"body", "code"}, NormalKey2C(KeyFlags)))

CryptRomFs ==
  Writing("romfs") /\ Write(Xored({"romfs"}, RomFsKey(part, KeyFlags)))

\* _recodeDotCode looks .code up in the table, which must be readable.
FindsDotCode ==
  /\ KeyFlags.method \in Rekeyed
  /\ "table" \in rom[part].has
  /\ Current.data["table"] = {}

\* Mutant of RecodeDotCode: .code is decrypted, not re-keyed.
RecodeDotCodeOnce ==
  /\ Writing("recode")
  /\ Write(IF FindsDotCode
           THEN Xored({"code"}, NormalKey(KeyFlags)) ELSE Current)

\* .code is XORed with both keys, so that the pass over the body leaves it under
\* its own key, or plain.
RecodeDotCode ==
  /\ Writing("recode")
  /\ Write(IF FindsDotCode /\ "code" \in rom[part].has
           THEN [Current EXCEPT !.data["code"] =
                   Toggle(Toggle(@, NormalKey(KeyFlags)), NormalKey2C(KeyFlags))]
           ELSE Current)

\* Mutant of NewMethod: partitions 1+ get the backup's method as well.
NewMethodBackup ==
  IF op.action = "decrypt" THEN Method0 ELSE rom[0].flags.method

\* crypto-method byte
NewMethod ==
  IF op.action = "decrypt" \/ part > 0 THEN Method0 ELSE rom[0].flags.method

WriteMethod ==
  Writing("method") /\ Write([Current EXCEPT !.flags.method = NewMethod])

\* flags byte: FixedCryptoKey and NewKeyY are cleared, or restored from the
\* backup; NoCrypto is set, or cleared.
WriteFlags ==
  /\ Writing("flags")
  /\ Write([Current EXCEPT !.flags =
              [method |-> @.method,
               fixed |-> op.action = "encrypt" /\ rom[0].flags.fixed,
               newKeyY |-> op.action = "encrypt" /\ rom[0].flags.newKeyY,
               noCrypto |-> op.action = "decrypt"]])

\* continue
SkipPartition ==
  /\ pc = "parts" /\ part < NParts /\ at = 1
  /\ ~ToConvert
  /\ rom[part].kind # "past"
  /\ part' = part + 1
  /\ UNCHANGED <<rom, files, present, pc, op, at, scanned, ops, result, killed,
                 reworked>>

\* The read of the flags past the end of the file returns fewer than 8 bytes
\* and throws nothing; the index into them does, outside the try.
Abort ==
  /\ pc = "parts" /\ part < NParts
  /\ rom[part].kind = "past"
  /\ pc' = "idle" /\ scanned' = NoScan
  /\ result' = [kind |-> "failed", action |-> op.action, file |-> op.target]
  /\ UNCHANGED <<rom, files, present, op, part, at, ops, killed, reworked>>

\* The padding after the last partition is cut off, the path returned.
Finish ==
  /\ pc = "parts" /\ part = NParts
  /\ files' = [files EXCEPT ![op.target].padded =
                 @ /\ ~(op.action = "decrypt" /\ op.trim)]
  /\ pc' = "idle" /\ scanned' = NoScan
  /\ result' = [kind |-> "ok", action |-> op.action, file |-> op.target]
  /\ UNCHANGED <<rom, present, op, part, at, ops, killed, reworked>>

\* The user cancels, or the application goes away.
Kill ==
  /\ pc # "idle"
  /\ pc' = "idle" /\ scanned' = NoScan
  /\ killed' = IF pc = "parts" THEN killed \cup {op.target} ELSE killed
  /\ UNCHANGED <<rom, files, present, op, part, at, ops, result, reworked>>

Next ==
  \/ \E action \in {"decrypt", "encrypt"}, f, g \in Files, trim \in BOOLEAN :
       Start(action, f, g, trim)
  \/ CopyDone
  \/ CryptExHeader
  \/ CryptTable
  \/ RecodeDotCode
  \/ CryptBody
  \/ CryptRomFs
  \/ WriteMethod
  \/ WriteFlags
  \/ SkipPartition
  \/ Abort
  \/ Finish
  \/ Kill

Spec == Init /\ [][Next]_vars

-----------------------------------------------------------------------------
Partitions == [flags : Flags, data : [Sections -> SUBSET Keys]]

\* Every variable holds a value of its type; no partition is ever under a key
\* that is none of its own.
TypeOK ==
  /\ rom \in Roms
  /\ files \in [Files -> [parts : [Parts -> Partitions], padded : BOOLEAN]]
  /\ present \subseteq Files
  /\ pc \in {"idle", "copy", "parts"}
  /\ op \in [action : {"none", "decrypt", "encrypt"}, src : Files,
             target : Files, trim : BOOLEAN]
  /\ part \in 0..NParts /\ at \in 1..7 /\ scanned \in [Parts -> Flags]
  /\ pc = "parts" => op.action # "none"
  /\ ops \in 0..MaxOps
  /\ result \in [kind : {"none", "ok", "failed"},
                 action : {"none", "decrypt", "encrypt"}, file : Files]
  /\ killed \subseteq Files /\ reworked \subseteq Files

\* The step that writes section s.
WriteStep(action, s) ==
  IF s = "exheader" THEN 1
  ELSE IF s = "table" THEN IF action = "decrypt" THEN 2 ELSE 3
  ELSE IF s = "romfs" THEN 5 ELSE 4

\* .code between its re-keying and the pass over the body.
Between(action, g) ==
  IF action = "decrypt" THEN {NormalKey2C(g)}
  ELSE Toggle({NormalKey(g)}, NormalKey2C(g))

\* The keys of section s of partition p after the writes before step k: a section
\* is plain on one side of its write.
StageKeys(action, k, p, s) ==
  IF s \notin rom[p].has THEN {}
  ELSE IF s = "code" /\ k > (IF action = "decrypt" THEN 3 ELSE 2) /\ k =< 4
  THEN Between(action, rom[p].flags)
  ELSE IF k > WriteStep(action, s) <=> action = "decrypt" THEN {}
  ELSE {SectionKey(p, rom[p].flags, s)}

\* Partition p after the writes before step k of the conversion.
Stage(action, k, p) ==
  [flags |-> IF k < 7
             THEN IF action = "decrypt" THEN rom[p].flags ELSE DecryptedFlags
             ELSE IF action = "decrypt" THEN [rom[p].flags EXCEPT !.method = Method0]
             ELSE [DecryptedFlags EXCEPT !.method = rom[p].flags.method],
   data |-> [s \in Sections |-> StageKeys(action, k, p, s)]]

Goal(action, p) == IF action = "decrypt" THEN Decrypted ELSE Released(p)

\* Where the running operation is.
PlaceOK ==
  /\ pc = "copy" => /\ part = 0 /\ at = 1
                    /\ op.src \in present /\ op.target \notin present
  /\ pc = "parts" => /\ op.target \in present
                     /\ at > 1 => part \in Ncch
  /\ pc # "idle" => op.action # "none" /\ result.kind = "none"
  /\ result.kind = "ok" => /\ result.file \in present
                           /\ result.action \in {"decrypt", "encrypt"}

\* The pre-scan is true of what is ahead, and of the current partition until its
\* flags are written.
ScanOK ==
  pc = "parts" =>
    \A p \in Ncch :
      p > part \/ (p = part /\ at < 7) =>
        scanned[p] = files[op.target].parts[p].flags

\* The file being written: what is behind is converted, what is ahead is whole,
\* the current partition is where its step says.
TargetOK ==
  pc = "parts" /\ op.target \notin reworked =>
    \A p \in Ncch :
      LET image == files[op.target].parts[p]
      IN /\ p < part => image = Goal(op.action, p)
         /\ p > part \/ (p = part /\ at = 1) => image \in {Released(p), Decrypted}
         /\ p = part /\ at > 1 => image = Stage(op.action, at, p)

\* Any other file: whole, or damaged in one partition by a kill.
OthersOK ==
  \A f \in present \ reworked :
    ~(pc = "parts" /\ f = op.target) =>
      /\ \A p, q \in Damaged(f) : p = q
      /\ f \notin killed => Damaged(f) = {}

ResultOK ==
  pc = "idle" /\ result.kind = "ok" /\ result.file \notin reworked =>
    \A p \in Ncch : files[result.file].parts[p] = Goal(result.action, p)

\* The inductive invariant of the proofs.
CryptoInv ==
  /\ TypeOK
  /\ PlaceOK /\ ScanOK
  /\ Uniform => TargetOK /\ OthersOK /\ ResultOK

\* A kill between any two writes damages one partition at most, the one it was
\* at: every other one is, data and flags, as released or decrypted.
AtMostOneDamaged ==
  Uniform =>
    \A f \in present \ reworked :
      \A p, q \in Damaged(f) : p = q

\* A file no operation was killed on is whole again when nothing works on it,
\* also when an operation gave up at a partition past the end of the file.
OnlyKillDamages ==
  Uniform =>
    \A f \in present \ (reworked \cup killed) :
      ~(pc = "parts" /\ f = op.target) => Damaged(f) = {}

\* A reported success is one: every partition is decrypted, or encrypted just as
\* it was released, whatever mix of both the source was.
SuccessConverts ==
  /\ Uniform
  /\ pc = "idle" /\ result.kind = "ok" /\ result.file \notin reworked
  => \A p \in Ncch :
       files[result.file].parts[p] =
         IF result.action = "decrypt" THEN Decrypted ELSE Released(p)
=============================================================================
