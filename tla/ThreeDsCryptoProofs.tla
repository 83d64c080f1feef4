------------------------ MODULE ThreeDsCryptoProofs --------------------------
(***************************************************************************)
(* Proofs that ThreeDsCrypto keeps its inductive invariant, for any number *)
(* of partitions, files and operations and any crypto methods, and what    *)
(* follows from it.                                                        *)
(***************************************************************************)
EXTENDS ThreeDsCrypto, TLAPS

\* XORing twice with a key gives back what there was.
LEMMA ToggleFacts ==
  ASSUME NEW a, NEW b
  PROVE  /\ Toggle({}, a) = {a}
         /\ Toggle({a}, a) = {}
         /\ Toggle(Toggle({a}, b), b) = {a}
         /\ Toggle(Toggle({}, a), b) = Toggle({a}, b)
         /\ Toggle(Toggle({a}, a), b) = {b}
  BY DEF Toggle

LEMMA ToggleType ==
  ASSUME NEW S \in SUBSET Keys, NEW k \in Keys
  PROVE  Toggle(S, k) \in SUBSET Keys
  BY DEF Toggle

\* Every key the flags can choose is a key.
LEMMA KeyTypes ==
  ASSUME NEW g \in Flags, NEW p \in Parts, NEW s
  PROVE  /\ NormalKey(g) \in Keys /\ NormalKey2C(g) \in Keys
         /\ RomFsKey(p, g) \in Keys /\ SectionKey(p, g, s) \in Keys
  BY CryptoAssumption DEF NormalKey, NormalKey2C, RomFsKey, SectionKey, Keys, Flags

\* What TypeOK says of the released image and of its partitions' two forms.
LEMMA RomTypes ==
  ASSUME TypeOK, NEW p \in Parts
  PROVE  /\ rom[p].flags \in Flags /\ ~rom[p].flags.noCrypto
         /\ rom[p].has \subseteq Sections
         /\ "code" \in rom[p].has => "table" \in rom[p].has /\ "body" \in rom[p].has
         /\ Released(p) \in Partitions /\ Decrypted \in Partitions
         /\ Released(p) # Decrypted
<1>1. rom \in [Parts -> Layouts]
  BY CryptoAssumption DEF TypeOK
<1>2. /\ rom[p].flags \in Flags /\ ~rom[p].flags.noCrypto
      /\ rom[p].has \subseteq Sections
      /\ "code" \in rom[p].has => "table" \in rom[p].has /\ "body" \in rom[p].has
  BY <1>1 DEF Layouts
<1>3. \A s \in Sections : SectionKey(p, rom[p].flags, s) \in Keys
  BY <1>2, KeyTypes
<1>4. Released(p) \in Partitions
  BY <1>2, <1>3 DEF Released, Partitions
<1>5. DecryptedFlags \in Flags
  BY CryptoAssumption DEF DecryptedFlags, Flags
<1>6. Decrypted \in Partitions
  BY <1>5 DEF Decrypted, Partitions
<1>7. Released(p).flags.noCrypto # Decrypted.flags.noCrypto
  BY <1>2 DEF Released, Decrypted, DecryptedFlags
<1>. QED
  BY <1>2, <1>4, <1>6, <1>7

\* Partition 0 is there.
LEMMA ZeroPart == 0 \in Parts /\ Parts \subseteq Nat
  BY CryptoAssumption DEF Parts

\* What is known when a write is due.
LEMMA WritingFacts ==
  ASSUME TypeOK, PlaceOK, NEW step, Writing(step)
  PROVE  /\ pc = "parts" /\ part \in Parts /\ part \in Ncch
         /\ op.action \in {"decrypt", "encrypt"} /\ op.target \in Files
         /\ op.target \in present
         /\ Current \in Partitions /\ KeyFlags \in Flags
         /\ files[op.target].parts \in [Parts -> Partitions]
         /\ at \in 1..7
         /\ at = 1 => ToConvert
<1>1. pc = "parts" /\ part < NParts /\ at \in 1..7 /\ part \in 0..NParts
  BY DEF Writing, TypeOK
<1>2. part \in Parts
  BY <1>1, CryptoAssumption DEF Parts
<1>3. op.action \in {"decrypt", "encrypt"} /\ op.target \in Files
  BY <1>1 DEF TypeOK, PlaceOK
<1>4. files[op.target].parts \in [Parts -> Partitions]
  BY <1>3 DEF TypeOK
<1>5. Current \in Partitions
  BY <1>2, <1>4 DEF Current
<1>6. KeyFlags \in Flags
  BY <1>2, RomTypes, ZeroPart DEF KeyFlags, TypeOK
<1>7. at = 1 => ToConvert
  BY <1>1 DEF Writing
<1>8. part \in Ncch
  BY <1>1, <1>2, <1>7 DEF PlaceOK, ToConvert, Ncch
<1>. QED
  BY <1>1, <1>2, <1>3, <1>4, <1>5, <1>6, <1>7, <1>8 DEF PlaceOK

\* A write changes one partition of one file.
LEMMA WritePointwise ==
  ASSUME TypeOK, part \in Parts, op.target \in Files, NEW new, Write(new)
  PROVE  /\ files'[op.target].parts[part] = new
         /\ \A p \in Parts \ {part} :
              files'[op.target].parts[p] = files[op.target].parts[p]
         /\ \A f \in Files \ {op.target} : files'[f] = files[f]
         /\ at < 7 => part' = part /\ at' = at + 1
         /\ at = 7 => part' = part + 1 /\ at' = 1
         /\ scanned' = scanned
  BY DEF Write, TypeOK, PartitionDone

\* A write of a well-formed partition keeps the types.
LEMMA WriteType ==
  ASSUME TypeOK, PlaceOK, NEW new \in Partitions, NEW step, Writing(step),
         Write(new)
  PROVE  TypeOK'
<1> DEFINE image == files[op.target]
<1>1. /\ part \in Parts /\ op.target \in Files /\ at \in 1..7
      /\ image.parts \in [Parts -> Partitions]
  BY WritingFacts
<1>2. image \in [parts : [Parts -> Partitions], padded : BOOLEAN]
  BY <1>1 DEF TypeOK
<1>3. [image EXCEPT !.parts[part] = new]
        \in [parts : [Parts -> Partitions], padded : BOOLEAN]
  BY <1>1, <1>2
<1>4. files' = [files EXCEPT ![op.target] = [image EXCEPT !.parts[part] = new]]
  BY DEF Write
<1>5. files' \in [Files -> [parts : [Parts -> Partitions], padded : BOOLEAN]]
  BY <1>1, <1>3, <1>4 DEF TypeOK
<1>6. part' \in 0..NParts /\ at' \in 1..7
  BY <1>1, CryptoAssumption DEF Write, PartitionDone, Parts
<1>. QED
  BY <1>5, <1>6 DEF Write, TypeOK

\* XORing some sections keeps the type.
LEMMA XoredType ==
  ASSUME TypeOK, PlaceOK, NEW step, Writing(step),
         NEW S, NEW k \in Keys
  PROVE  Xored(S, k) \in Partitions
<1>1. Current \in Partitions
  BY WritingFacts
<1>2. \A s \in Sections : Toggle(Current.data[s], k) \in SUBSET Keys
  BY <1>1, ToggleType DEF Partitions
<1>. QED
  BY <1>1, <1>2 DEF Xored, Partitions

-----------------------------------------------------------------------------
\* Before its first write a partition is whole.
LEMMA StageStart ==
  ASSUME TypeOK, NEW p \in Parts
  PROVE  Stage("decrypt", 1, p) = Released(p) /\ Stage("encrypt", 1, p) = Decrypted
<1>1. \A s \in Sections :
        /\ StageKeys("decrypt", 1, p, s)
             = IF s \in rom[p].has THEN {SectionKey(p, rom[p].flags, s)} ELSE {}
        /\ StageKeys("encrypt", 1, p, s) = {}
  BY DEF StageKeys, WriteStep
<1>2. Stage("decrypt", 1, p) = Released(p)
  <2>1. [s \in Sections |-> StageKeys("decrypt", 1, p, s)]
          = [s \in Sections |-> IF s \in rom[p].has
                                THEN {SectionKey(p, rom[p].flags, s)} ELSE {}]
    BY <1>1
  <2>. QED
    BY <2>1 DEF Stage, Released
<1>3. Stage("encrypt", 1, p) = Decrypted
  <2>1. [s \in Sections |-> StageKeys("encrypt", 1, p, s)]
          = [s \in Sections |-> {}]
    BY <1>1
  <2>. QED
    BY <2>1 DEF Stage, Decrypted
<1>. QED
  BY <1>2, <1>3

\* The partition being written is where its step says, from the first write on.
LEMMA AtStage ==
  ASSUME TypeOK, PlaceOK, TargetOK, NEW step, Writing(step),
         op.target \notin reworked
  PROVE  Current = Stage(op.action, at, part)
<1>1. pc = "parts" /\ part \in Ncch /\ part \in Parts /\ at \in 1..7
      /\ op.action \in {"decrypt", "encrypt"} /\ (at = 1 => ToConvert)
  BY WritingFacts
<1>2. CASE at > 1
  BY <1>1, <1>2 DEF TargetOK, Current
<1>3. CASE at = 1
  <2>1. Current \in {Released(part), Decrypted}
    BY <1>1, <1>3 DEF TargetOK, Current
  <2>2. Current.flags.noCrypto = (op.action = "encrypt")
    BY <1>1, <1>3 DEF ToConvert
  <2>3. ~Released(part).flags.noCrypto /\ Decrypted.flags.noCrypto
    BY <1>1, RomTypes DEF Released, Decrypted, DecryptedFlags
  <2>4. Current = IF op.action = "decrypt" THEN Released(part) ELSE Decrypted
    BY <1>1, <2>1, <2>2, <2>3
  <2>. QED
    BY <1>1, <1>3, <2>4, StageStart
<1>. QED
  BY <1>1, <1>2, <1>3

\* The keys the operation derives are those of the partition: its own flags
\* choose them for a decryption, the backup's for an encryption, and in a uniform
\* image both choose alike.
LEMMA KeysUsed ==
  ASSUME TypeOK, PlaceOK, ScanOK, Uniform, NEW step, Writing(step), at < 7,
         Current = Stage(op.action, at, part)
  PROVE  /\ NormalKey2C(KeyFlags) = NormalKey2C(rom[part].flags)
         /\ RomFsKey(part, KeyFlags) = RomFsKey(part, rom[part].flags)
         /\ "code" \in rom[part].has =>
              NormalKey(KeyFlags) = NormalKey(rom[part].flags)
         /\ KeyFlags.method \notin Rekeyed =>
              NormalKey(KeyFlags) = NormalKey2C(KeyFlags)
<1> DEFINE g == rom[part].flags
<1>1. part \in Ncch /\ part \in Nat /\ at \in 1..7
      /\ op.action \in {"decrypt", "encrypt"}
  BY WritingFacts, ZeroPart
<1>2. KeyFlags.method \notin Rekeyed =>
        NormalKey(KeyFlags) = NormalKey2C(KeyFlags)
  BY DEF NormalKey, NormalKey2C
<1>3. CASE op.action = "decrypt"
  <2>1. KeyFlags = Current.flags
    BY <1>1, <1>3, WritingFacts DEF KeyFlags, ScanOK, Current
  <2>2. KeyFlags = g
    BY <1>1, <1>3, <2>1 DEF Stage
  <2>. QED
    BY <1>2, <2>2
<1>4. CASE op.action = "encrypt"
  <2>1. KeyFlags = rom[0].flags
    BY <1>4 DEF KeyFlags
  <2>2. CASE part = 0
    BY <1>2, <2>1, <2>2
  <2>3. CASE part # 0
    <3>1. /\ g = [rom[0].flags EXCEPT !.method = Method0]
          /\ "code" \in rom[part].has => NormalKey(rom[0].flags) = NormalKey(g)
      BY <1>1, <2>3 DEF Uniform
    <3>2. rom[0].flags \in Flags
      BY RomTypes, ZeroPart
    <3>3. g.fixed = rom[0].flags.fixed
      BY <3>1, <3>2 DEF Flags
    <3>4. NormalKey2C(KeyFlags) = NormalKey2C(g)
      BY <2>1, <3>3 DEF NormalKey2C
    <3>5. RomFsKey(part, KeyFlags) = RomFsKey(part, g)
      BY <1>1, <2>3 DEF RomFsKey
    <3>. QED
      BY <1>2, <2>1, <3>1, <3>4, <3>5
  <2>. QED
    BY <2>2, <2>3
<1>. QED
  BY <1>1, <1>3, <1>4

\* A write of some sections leads to the next stage if it does for each of them.
LEMMA XoredStage ==
  ASSUME TypeOK, NEW S, NEW k, at \in 1..5, Current = Stage(op.action, at, part),
         \A s \in Sections :
           IF s \in S /\ s \in rom[part].has
           THEN Toggle(StageKeys(op.action, at, part, s), k)
                  = StageKeys(op.action, at + 1, part, s)
           ELSE StageKeys(op.action, at, part, s)
                  = StageKeys(op.action, at + 1, part, s)
  PROVE  Xored(S, k) = Stage(op.action, at + 1, part)
<1>1. Current.data = [s \in Sections |-> StageKeys(op.action, at, part, s)]
  BY DEF Stage
<1>2. Xored(S, k) = [flags |-> Current.flags,
                     data |-> [s \in Sections |->
                       IF s \in S /\ s \in rom[part].has
                       THEN Toggle(Current.data[s], k) ELSE Current.data[s]]]
  BY DEF Xored, Stage
<1>3. \A s \in Sections :
        (IF s \in S /\ s \in rom[part].has
         THEN Toggle(Current.data[s], k) ELSE Current.data[s])
        = StageKeys(op.action, at + 1, part, s)
  BY <1>1
<1>4. Current.flags = Stage(op.action, at + 1, part).flags
  BY DEF Stage
<1>. QED
  BY <1>2, <1>3, <1>4 DEF Stage

\* The same key opens and closes a section.
LEMMA SectionToggles ==
  ASSUME TypeOK, part \in Parts, op.action \in {"decrypt", "encrypt"},
         NEW s \in rom[part].has, s # "code",
         at = WriteStep(op.action, s), at \in 1..5
  PROVE  Toggle(StageKeys(op.action, at, part, s),
                SectionKey(part, rom[part].flags, s))
           = StageKeys(op.action, at + 1, part, s)
<1>1. CASE op.action = "decrypt"
  <2>1. /\ StageKeys(op.action, at, part, s) = {SectionKey(part, rom[part].flags, s)}
        /\ StageKeys(op.action, at + 1, part, s) = {}
    BY <1>1 DEF StageKeys
  <2>. QED
    BY <2>1, ToggleFacts
<1>2. CASE op.action = "encrypt"
  <2>1. /\ StageKeys(op.action, at, part, s) = {}
        /\ StageKeys(op.action, at + 1, part, s) = {SectionKey(part, rom[part].flags, s)}
    BY <1>2 DEF StageKeys
  <2>. QED
    BY <2>1, ToggleFacts
<1>. QED
  BY <1>1, <1>2

\* A section that this step does not write stays as it is.
LEMMA SectionStays ==
  ASSUME TypeOK, part \in Parts, op.action \in {"decrypt", "encrypt"},
         NEW s \in Sections, at \in 1..5,
         \/ s \notin rom[part].has
         \/ s # "code" /\ at # WriteStep(op.action, s)
         \/ s = "code" /\ at # 4 /\ at # (IF op.action = "decrypt" THEN 3 ELSE 2)
  PROVE  StageKeys(op.action, at, part, s) = StageKeys(op.action, at + 1, part, s)
<1>1. CASE s \notin rom[part].has
  BY <1>1 DEF StageKeys
<1>2. CASE s # "code" /\ at # WriteStep(op.action, s)
  <2>1. WriteStep(op.action, s) \in 1..5
    BY DEF WriteStep
  <2>2. at > WriteStep(op.action, s) <=> at + 1 > WriteStep(op.action, s)
    BY <1>2, <2>1
  <2>. QED
    BY <1>2, <2>2 DEF StageKeys
<1>3. CASE s = "code" /\ at # 4 /\ at # (IF op.action = "decrypt" THEN 3 ELSE 2)
  <2>1. WriteStep(op.action, s) = 4
    BY <1>3 DEF WriteStep
  <2>. QED
    BY <1>3, <2>1 DEF StageKeys
<1>. QED
  BY <1>1, <1>2, <1>3

\* Facts every write starts from.
WriteReady(step) ==
  /\ TypeOK /\ PlaceOK /\ ScanOK /\ Uniform /\ Writing(step)
  /\ Current = Stage(op.action, at, part)

LEMMA ExHeaderStage ==
  ASSUME WriteReady("exheader")
  PROVE  /\ at \in 1..5
         /\ Xored({"exheader"}, NormalKey2C(KeyFlags)) = Stage(op.action, at + 1, part)
<1>1. part \in Parts /\ op.action \in {"decrypt", "encrypt"} /\ at \in 1..7
  BY WritingFacts DEF WriteReady
<1>2. at = 1
  BY <1>1 DEF WriteReady, Writing, Order
<1>3. NormalKey2C(KeyFlags) = SectionKey(part, rom[part].flags, "exheader")
  BY <1>2, KeysUsed DEF WriteReady, SectionKey
<1>4. "exheader" \in rom[part].has =>
        Toggle(StageKeys(op.action, at, part, "exheader"), NormalKey2C(KeyFlags))
          = StageKeys(op.action, at + 1, part, "exheader")
  BY <1>1, <1>2, <1>3, SectionToggles DEF WriteReady, WriteStep
<1>5. \A s \in Sections : s # "exheader" \/ s \notin rom[part].has =>
        StageKeys(op.action, at, part, s) = StageKeys(op.action, at + 1, part, s)
  BY <1>1, <1>2, SectionStays DEF WriteReady, WriteStep, Sections
<1>. QED
  BY <1>2, <1>4, <1>5, XoredStage DEF WriteReady

LEMMA TableStage ==
  ASSUME WriteReady("table")
  PROVE  /\ at \in 1..5
         /\ Xored({"table"}, NormalKey2C(KeyFlags)) = Stage(op.action, at + 1, part)
<1>1. part \in Parts /\ op.action \in {"decrypt", "encrypt"} /\ at \in 1..7
  BY WritingFacts DEF WriteReady
<1>2. at = IF op.action = "decrypt" THEN 2 ELSE 3
  BY <1>1 DEF WriteReady, Writing, Order
<1>3. NormalKey2C(KeyFlags) = SectionKey(part, rom[part].flags, "table")
  BY <1>2, KeysUsed DEF WriteReady, SectionKey
<1>4. "table" \in rom[part].has =>
        Toggle(StageKeys(op.action, at, part, "table"), NormalKey2C(KeyFlags))
          = StageKeys(op.action, at + 1, part, "table")
  BY <1>1, <1>2, <1>3, SectionToggles DEF WriteReady, WriteStep
<1>5. \A s \in Sections : s # "table" \/ s \notin rom[part].has =>
        StageKeys(op.action, at, part, s) = StageKeys(op.action, at + 1, part, s)
  BY <1>1, <1>2, SectionStays DEF WriteReady, WriteStep, Sections
<1>. QED
  BY <1>2, <1>4, <1>5, XoredStage DEF WriteReady

LEMMA RomFsStage ==
  ASSUME WriteReady("romfs")
  PROVE  /\ at \in 1..5
         /\ Xored({"romfs"}, RomFsKey(part, KeyFlags)) = Stage(op.action, at + 1, part)
<1>1. part \in Parts /\ op.action \in {"decrypt", "encrypt"} /\ at \in 1..7
  BY WritingFacts DEF WriteReady
<1>2. at = 5
  BY <1>1 DEF WriteReady, Writing, Order
<1>3. RomFsKey(part, KeyFlags) = SectionKey(part, rom[part].flags, "romfs")
  BY <1>2, KeysUsed DEF WriteReady, SectionKey
<1>4. "romfs" \in rom[part].has =>
        Toggle(StageKeys(op.action, at, part, "romfs"), RomFsKey(part, KeyFlags))
          = StageKeys(op.action, at + 1, part, "romfs")
  BY <1>1, <1>2, <1>3, SectionToggles DEF WriteReady, WriteStep
<1>5. \A s \in Sections : s # "romfs" \/ s \notin rom[part].has =>
        StageKeys(op.action, at, part, s) = StageKeys(op.action, at + 1, part, s)
  BY <1>1, <1>2, SectionStays DEF WriteReady, WriteStep, Sections
<1>. QED
  BY <1>2, <1>4, <1>5, XoredStage DEF WriteReady

LEMMA BodyStage ==
  ASSUME WriteReady("body")
  PROVE  /\ at \in 1..5
         /\ Xored({"body", "code"}, NormalKey2C(KeyFlags))
              = Stage(op.action, at + 1, part)
<1> DEFINE g == rom[part].flags
           k == NormalKey2C(KeyFlags)
<1>1. part \in Parts /\ op.action \in {"decrypt", "encrypt"} /\ at \in 1..7
  BY WritingFacts DEF WriteReady
<1>2. at = 4
  BY <1>1 DEF WriteReady, Writing, Order
<1>3. k = NormalKey2C(g) /\ k = SectionKey(part, g, "body")
  BY <1>2, KeysUsed DEF WriteReady, SectionKey
<1>4. "body" \in rom[part].has =>
        Toggle(StageKeys(op.action, at, part, "body"), k)
          = StageKeys(op.action, at + 1, part, "body")
  BY <1>1, <1>2, <1>3, SectionToggles DEF WriteReady, WriteStep
<1>5. "code" \in rom[part].has =>
        Toggle(StageKeys(op.action, at, part, "code"), k)
          = StageKeys(op.action, at + 1, part, "code")
  <2>1. SUFFICES ASSUME "code" \in rom[part].has
                 PROVE  Toggle(StageKeys(op.action, at, part, "code"), k)
                          = StageKeys(op.action, at + 1, part, "code")
    OBVIOUS
  <2>2. StageKeys(op.action, at, part, "code") = Between(op.action, g)
    BY <1>1, <1>2, <2>1 DEF StageKeys
  <2>3. StageKeys(op.action, at + 1, part, "code")
          = IF op.action = "decrypt" THEN {} ELSE {NormalKey(g)}
    BY <1>1, <1>2, <2>1 DEF StageKeys, WriteStep, SectionKey
  <2>4. Toggle({k}, k) = {} /\ Toggle(Toggle({NormalKey(g)}, k), k) = {NormalKey(g)}
    BY ToggleFacts
  <2>. QED
    BY <1>1, <1>3, <2>2, <2>3, <2>4 DEF Between
<1>6. \A s \in Sections : s \notin {"body", "code"} \/ s \notin rom[part].has =>
        StageKeys(op.action, at, part, s) = StageKeys(op.action, at + 1, part, s)
  BY <1>1, <1>2, SectionStays DEF WriteReady, WriteStep, Sections
<1>. QED
  BY <1>2, <1>4, <1>5, <1>6, XoredStage DEF WriteReady

\* The partition RecodeDotCode writes.
Recoded ==
  IF FindsDotCode /\ "code" \in rom[part].has
  THEN [Current EXCEPT !.data["code"] =
          Toggle(Toggle(@, NormalKey(KeyFlags)), NormalKey2C(KeyFlags))]
  ELSE Current

\* The table is plain when .code is looked up: it was just decrypted, or is not
\* encrypted yet.  A method without a key of its own needs no re-keying.
LEMMA RecodeStage ==
  ASSUME WriteReady("recode")
  PROVE  at \in 1..5 /\ Recoded = Stage(op.action, at + 1, part)
<1> DEFINE g == rom[part].flags
           k == NormalKey2C(KeyFlags)
           n == NormalKey(KeyFlags)
           old == StageKeys(op.action, at, part, "code")
<1>1. part \in Parts /\ op.action \in {"decrypt", "encrypt"} /\ at \in 1..7
  BY WritingFacts DEF WriteReady
<1>2. at = IF op.action = "decrypt" THEN 3 ELSE 2
  BY <1>1 DEF WriteReady, Writing, Order
<1>3. \A s \in Sections : s # "code" \/ s \notin rom[part].has =>
        StageKeys(op.action, at, part, s) = StageKeys(op.action, at + 1, part, s)
  BY <1>1, <1>2, SectionStays DEF WriteReady, WriteStep, Sections
<1>4. Current.data = [s \in Sections |-> StageKeys(op.action, at, part, s)]
  BY DEF WriteReady, Stage
<1>5. Current.flags = Stage(op.action, at + 1, part).flags
  BY <1>1, <1>2 DEF WriteReady, Stage
<1>6. CASE "code" \notin rom[part].has
  <2>1. Recoded = Current
    BY <1>6 DEF Recoded
  <2>2. [s \in Sections |-> StageKeys(op.action, at, part, s)]
          = [s \in Sections |-> StageKeys(op.action, at + 1, part, s)]
    BY <1>3, <1>6
  <2>3. Current = [flags |-> Current.flags, data |-> Current.data]
    BY DEF WriteReady, Stage
  <2>. QED
    BY <1>1, <1>2, <1>4, <1>5, <2>1, <2>2, <2>3 DEF Stage
<1>7. CASE "code" \in rom[part].has
  <2>1. "table" \in rom[part].has
    BY <1>1, <1>7, RomTypes DEF WriteReady
  <2>2. Current.data["table"] = {}
    <3>1. StageKeys(op.action, at, part, "table") = {}
      BY <1>1, <1>2, <2>1 DEF StageKeys, WriteStep
    <3>. QED
      BY <1>4, <3>1 DEF Sections
  <2>3. FindsDotCode <=> KeyFlags.method \in Rekeyed
    BY <2>1, <2>2 DEF FindsDotCode
  <2>4. /\ k = NormalKey2C(g) /\ n = NormalKey(g)
        /\ KeyFlags.method \notin Rekeyed => n = k
    BY <1>2, <1>7, KeysUsed DEF WriteReady
  <2>5. old = IF op.action = "decrypt" THEN {n} ELSE {}
    BY <1>1, <1>2, <1>7, <2>4 DEF StageKeys, WriteStep, SectionKey
  <2>6. StageKeys(op.action, at + 1, part, "code")
          = IF op.action = "decrypt" THEN {k} ELSE Toggle({n}, k)
    BY <1>1, <1>2, <1>7, <2>4 DEF StageKeys, Between
  <2>7. Toggle(Toggle(old, n), k) = StageKeys(op.action, at + 1, part, "code")
    <3>. HIDE DEF old, n, k
    <3>1. CASE op.action = "decrypt"
      <4>1. old = {n} /\ StageKeys(op.action, at + 1, part, "code") = {k}
        BY <2>5, <2>6, <3>1
      <4>. QED
        BY <4>1, ToggleFacts
    <3>2. CASE op.action = "encrypt"
      <4>1. old = {} /\ StageKeys(op.action, at + 1, part, "code") = Toggle({n}, k)
        BY <2>5, <2>6, <3>2
      <4>. QED
        BY <4>1, ToggleFacts
    <3>. QED
      BY <1>1, <3>1, <3>2
  <2>8. n = k => old = StageKeys(op.action, at + 1, part, "code")
    BY <1>1, <2>5, <2>6, ToggleFacts
  <2>9. Current.data["code"] = old
    BY <1>4 DEF Sections
  <2>10. Recoded.flags = Current.flags
    BY DEF Recoded, WriteReady, Stage
  <2>11. Recoded = [flags |-> Recoded.flags, data |-> Recoded.data]
    BY DEF Recoded, WriteReady, Stage
  <2>12. Recoded.data = [s \in Sections |-> StageKeys(op.action, at + 1, part, s)]
    <3>1. CASE FindsDotCode
      <4>1. Recoded.data = [Current.data EXCEPT !["code"] = Toggle(Toggle(old, n), k)]
        BY <1>7, <2>9, <3>1 DEF Recoded, WriteReady, Stage
      <4>2. Recoded.data = [s \in Sections |-> IF s = "code"
                              THEN Toggle(Toggle(old, n), k)
                              ELSE StageKeys(op.action, at, part, s)]
        BY <1>4, <4>1
      <4>. QED
        BY <1>3, <2>7, <4>2
    <3>2. CASE ~FindsDotCode
      <4>1. Recoded.data = [s \in Sections |-> StageKeys(op.action, at, part, s)]
        BY <1>4, <3>2 DEF Recoded
      <4>. QED
        BY <1>3, <2>3, <2>4, <2>8, <3>2, <4>1
    <3>. QED
      BY <3>1, <3>2
  <2>. QED
    BY <1>1, <1>2, <1>5, <2>10, <2>11, <2>12 DEF Stage
<1>. QED
  BY <1>1, <1>2, <1>6, <1>7

\* The partitions WriteMethod and WriteFlags write.
MethodWritten == [Current EXCEPT !.flags.method = NewMethod]
FlagsWritten ==
  [Current EXCEPT !.flags =
     [method |-> @.method,
      fixed |-> op.action = "encrypt" /\ rom[0].flags.fixed,
      newKeyY |-> op.action = "encrypt" /\ rom[0].flags.newKeyY,
      noCrypto |-> op.action = "decrypt"]]

\* When the sections are written they are in the form the operation leads to.
LEMMA SectionsDone ==
  ASSUME NEW action \in {"decrypt", "encrypt"}, NEW k \in 6..7, NEW p \in Parts
  PROVE  [s \in Sections |-> StageKeys(action, k, p, s)] = Goal(action, p).data
<1>1. \A s \in Sections :
        StageKeys(action, k, p, s)
          = IF action = "decrypt" \/ s \notin rom[p].has THEN {}
            ELSE {SectionKey(p, rom[p].flags, s)}
  BY DEF StageKeys, WriteStep, Sections
<1>2. CASE action = "decrypt"
  BY <1>1, <1>2 DEF Goal, Decrypted
<1>3. CASE action = "encrypt"
  <2>1. [s \in Sections |-> StageKeys(action, k, p, s)]
          = [s \in Sections |-> IF s \in rom[p].has
                                THEN {SectionKey(p, rom[p].flags, s)} ELSE {}]
    BY <1>1, <1>3
  <2>. QED
    BY <1>3, <2>1 DEF Goal, Released
<1>. QED
  BY <1>2, <1>3

\* In a uniform image the restored method byte is the partition's.
LEMMA MethodRestored ==
  ASSUME TypeOK, Uniform, part \in Ncch, op.action = "encrypt"
  PROVE  NewMethod = rom[part].flags.method
<1>1. part \in Nat /\ rom[0].flags \in Flags
  BY ZeroPart, RomTypes DEF Ncch
<1>2. CASE part = 0
  BY <1>2 DEF NewMethod
<1>3. CASE part # 0
  <2>1. rom[part].flags = [rom[0].flags EXCEPT !.method = Method0]
    BY <1>3 DEF Uniform
  <2>. QED
    BY <1>1, <1>3, <2>1 DEF NewMethod, Flags
<1>. QED
  BY <1>2, <1>3

LEMMA MethodStage ==
  ASSUME WriteReady("method")
  PROVE  at = 6 /\ MethodWritten = Stage(op.action, 7, part)
<1>1. part \in Parts /\ part \in Ncch /\ op.action \in {"decrypt", "encrypt"}
      /\ at \in 1..7
  BY WritingFacts DEF WriteReady
<1>2. at = 6
  BY <1>1 DEF WriteReady, Writing, Order
<1>3. Current.data = Stage(op.action, 7, part).data
  <2>1. Current.data = [s \in Sections |-> StageKeys(op.action, 6, part, s)]
    BY <1>2 DEF WriteReady, Stage
  <2>2. Stage(op.action, 7, part).data
          = [s \in Sections |-> StageKeys(op.action, 7, part, s)]
    BY DEF Stage
  <2>. QED
    BY <1>1, <2>1, <2>2, SectionsDone
<1>4. NewMethod = IF op.action = "decrypt" THEN Method0 ELSE rom[part].flags.method
  BY <1>1, MethodRestored DEF NewMethod, WriteReady
<1>5. MethodWritten = [flags |-> [Current.flags EXCEPT !.method = NewMethod],
                       data |-> Current.data]
  BY DEF MethodWritten, WriteReady, Stage
<1>6. [Current.flags EXCEPT !.method = NewMethod] = Stage(op.action, 7, part).flags
  BY <1>1, <1>2, <1>4 DEF WriteReady, Stage
<1>7. Stage(op.action, 7, part) = [flags |-> Stage(op.action, 7, part).flags,
                                   data |-> Stage(op.action, 7, part).data]
  BY DEF Stage
<1>. QED
  BY <1>2, <1>3, <1>5, <1>6, <1>7

LEMMA FlagsStage ==
  ASSUME WriteReady("flags")
  PROVE  at = 7 /\ FlagsWritten = Goal(op.action, part)
<1> DEFINE g == rom[part].flags
<1>1. part \in Parts /\ part \in Ncch /\ op.action \in {"decrypt", "encrypt"}
      /\ at \in 1..7
  BY WritingFacts DEF WriteReady
<1>2. at = 7
  BY <1>1 DEF WriteReady, Writing, Order
<1>3. Current.data = Goal(op.action, part).data
  BY <1>1, <1>2, SectionsDone DEF WriteReady, Stage
<1>4. g \in Flags /\ ~g.noCrypto /\ rom[0].flags \in Flags
  BY <1>1, RomTypes, ZeroPart DEF WriteReady
<1>5. g.fixed = rom[0].flags.fixed /\ g.newKeyY = rom[0].flags.newKeyY
  BY <1>1, <1>4 DEF WriteReady, Uniform, Flags
<1>6. FlagsWritten.flags = Goal(op.action, part).flags
  <2>1. CASE op.action = "decrypt"
    <3>1. Current.flags = [g EXCEPT !.method = Method0]
      BY <1>2, <2>1 DEF WriteReady, Stage
    <3>2. Current.flags.method = Method0
      BY <1>4, <3>1 DEF Flags
    <3>. QED
      BY <2>1, <3>2 DEF FlagsWritten, WriteReady, Stage, Goal, Decrypted, DecryptedFlags
  <2>2. CASE op.action = "encrypt"
    <3>1. Current.flags.method = g.method
      BY <1>2, <2>2 DEF WriteReady, Stage, DecryptedFlags
    <3>2. FlagsWritten.flags = [method |-> g.method, fixed |-> g.fixed,
                                newKeyY |-> g.newKeyY, noCrypto |-> FALSE]
      BY <1>4, <1>5, <2>2, <3>1 DEF FlagsWritten, WriteReady, Stage, Flags
    <3>. QED
      BY <1>4, <2>2, <3>2 DEF Goal, Released, Flags
  <2>. QED
    BY <1>1, <2>1, <2>2
<1>7. FlagsWritten = [flags |-> FlagsWritten.flags, data |-> Current.data]
  BY DEF FlagsWritten, WriteReady, Stage
<1>8. Goal(op.action, part) = [flags |-> Goal(op.action, part).flags,
                               data |-> Goal(op.action, part).data]
  BY DEF Goal, Released, Decrypted
<1>. QED
  BY <1>2, <1>3, <1>6, <1>7, <1>8

-----------------------------------------------------------------------------
\* What is said of partitions and of the image does not depend on anything else.
LEMMA RomUnchanged ==
  ASSUME rom' = rom
  PROVE  /\ Uniform' <=> Uniform
         /\ Ncch' = Ncch
         /\ \A p : Released(p)' = Released(p)
         /\ \A action, k, p : Stage(action, k, p)' = Stage(action, k, p)
         /\ \A action, p : Goal(action, p)' = Goal(action, p)
  BY DEF Uniform, Ncch, Released, Stage, StageKeys, SectionKey, NormalKey,
         NormalKey2C, RomFsKey, Between, WriteStep, Goal

\* A file that is not written keeps its damage.
LEMMA DamagedUnchanged ==
  ASSUME rom' = rom, NEW f, files'[f] = files[f]
  PROVE  Damaged(f)' = Damaged(f)
  BY RomUnchanged DEF Damaged

\* A write that leads from its stage to the next keeps the invariant.
LEMMA WriteKeeps ==
  ASSUME CryptoInv, NEW new \in Partitions, NEW step, Writing(step), Write(new),
         at < 6 => new.flags = Current.flags,
         WriteReady(step) =>
           /\ at < 7 => new = Stage(op.action, at + 1, part)
           /\ at = 7 => new = Goal(op.action, part)
  PROVE  CryptoInv'
<1> USE DEF CryptoInv
<1>1. /\ pc = "parts" /\ part \in Ncch /\ part \in Parts /\ at \in 1..7
      /\ op.action \in {"decrypt", "encrypt"} /\ op.target \in Files
  BY WritingFacts
<1>2. TypeOK'
  BY WriteType
<1>3. /\ rom' = rom /\ present' = present /\ pc' = pc /\ op' = op
      /\ result' = result /\ killed' = killed /\ reworked' = reworked
  BY DEF Write
<1>4. /\ files'[op.target].parts[part] = new
      /\ \A p \in Parts \ {part} :
           files'[op.target].parts[p] = files[op.target].parts[p]
      /\ \A f \in Files \ {op.target} : files'[f] = files[f]
      /\ at < 7 => part' = part /\ at' = at + 1
      /\ at = 7 => part' = part + 1 /\ at' = 1
  BY <1>1, WritePointwise
<1>5. PlaceOK' /\ ScanOK'
  <2>1. \A p \in Ncch : p \in Parts /\ p \in Nat
    BY ZeroPart DEF Ncch
  <2>2. \A p \in Ncch :
          p > part' \/ (p = part' /\ at' < 7) =>
            scanned[p] = files'[op.target].parts[p].flags
    <3>1. SUFFICES ASSUME NEW p \in Ncch, p > part' \/ (p = part' /\ at' < 7)
                   PROVE  scanned[p] = files'[op.target].parts[p].flags
      OBVIOUS
    <3>2. CASE p = part
      <4>1. at < 6
        BY <1>1, <1>4, <2>1, <3>1, <3>2
      <4>. QED
        BY <1>1, <1>4, <3>2, <4>1 DEF ScanOK, Current
    <3>3. CASE p # part
      <4>1. p > part
        BY <1>1, <1>4, <2>1, <3>1, <3>3
      <4>. QED
        BY <1>1, <1>4, <2>1, <3>3, <4>1 DEF ScanOK
    <3>. QED
      BY <3>2, <3>3
  <2>3. scanned' = scanned
    BY <1>1, WritePointwise
  <2>. QED
    BY <1>1, <1>3, <1>4, <2>2, <2>3, RomUnchanged DEF PlaceOK, ScanOK
<1>6. SUFFICES ASSUME Uniform
               PROVE  TargetOK' /\ OthersOK' /\ ResultOK'
  BY <1>2, <1>3, <1>5, RomUnchanged
<1>7. TargetOK'
  <2>1. SUFFICES ASSUME op.target \notin reworked
                 PROVE  TargetOK'
    BY <1>3 DEF TargetOK
  <2>2. WriteReady(step)
    BY <1>6, <2>1, AtStage DEF WriteReady
  <2>3. \A p \in Ncch : p \in Parts /\ p \in Nat
    BY ZeroPart DEF Ncch
  <2>4. Goal(op.action, part) \in {Released(part), Decrypted}
    BY DEF Goal
  <2>5. \A p \in Ncch \ {part} :
          LET image == files'[op.target].parts[p]
          IN /\ p < part => image = Goal(op.action, p)
             /\ p > part => image \in {Released(p), Decrypted}
    BY <1>1, <1>4, <1>6, <2>1, <2>3 DEF TargetOK
  <2>6. \A p \in Ncch :
          LET image == files'[op.target].parts[p]
          IN /\ p < part' => image = Goal(op.action, p)
             /\ p > part' \/ (p = part' /\ at' = 1) => image \in {Released(p), Decrypted}
             /\ p = part' /\ at' > 1 => image = Stage(op.action, at', p)
    <3>1. CASE at < 7
      <4>1. part' = part /\ at' = at + 1 /\ new = Stage(op.action, at + 1, part)
        BY <1>4, <2>2, <3>1
      <4>. QED
        BY <1>1, <1>4, <2>3, <2>5, <4>1
    <3>2. CASE at = 7
      <4>1. part' = part + 1 /\ at' = 1 /\ new = Goal(op.action, part)
        BY <1>4, <2>2, <3>2
      <4>2. \A p \in Ncch : p < part + 1 <=> p = part \/ p < part
        BY <1>1, <2>3
      <4>3. \A p \in Ncch : p > part <=> p > part + 1 \/ p = part + 1
        BY <1>1, <2>3
      <4>. QED
        BY <1>1, <1>4, <2>3, <2>5, <4>1, <4>2, <4>3
    <3>. QED
      BY <1>1, <3>1, <3>2
  <2>7. Decrypted' = Decrypted
    BY DEF Decrypted, DecryptedFlags
  <2>. QED
    BY <1>3, <2>6, <2>7, RomUnchanged DEF TargetOK
<1>8. OthersOK'
  <2>1. \A f \in present : f # op.target => Damaged(f)' = Damaged(f)
    BY <1>3, <1>4, DamagedUnchanged DEF TypeOK
  <2>. QED
    BY <1>1, <1>3, <1>6, <2>1 DEF OthersOK
<1>9. ResultOK'
  BY <1>1, <1>3 DEF ResultOK
<1>. QED
  BY <1>7, <1>8, <1>9

\* The seven writes.
LEMMA WritesKeep ==
  ASSUME CryptoInv,
         \/ CryptExHeader \/ CryptTable \/ RecodeDotCode \/ CryptBody
         \/ CryptRomFs \/ WriteMethod \/ WriteFlags
  PROVE  CryptoInv'
<1>1. TypeOK /\ PlaceOK
  BY DEF CryptoInv
<1>2. \A step : Writing(step) =>
        /\ part \in Parts /\ Current \in Partitions /\ KeyFlags \in Flags
        /\ NormalKey2C(KeyFlags) \in Keys /\ NormalKey(KeyFlags) \in Keys
        /\ RomFsKey(part, KeyFlags) \in Keys
        /\ at \in 1..7 /\ op.action \in {"decrypt", "encrypt"}
  BY <1>1, WritingFacts, KeyTypes
<1>a. \A S, k : Xored(S, k).flags = Current.flags \/ Current \notin Partitions
  BY DEF Xored, Partitions
<1>b. Recoded.flags = Current.flags \/ Current \notin Partitions
  BY DEF Recoded, Partitions
<1>c. Writing("method") \/ Writing("flags") => at > 5
  BY <1>2 DEF Writing, Order
<1>3. CASE CryptExHeader
  <2>1. Xored({"exheader"}, NormalKey2C(KeyFlags)) \in Partitions
    BY <1>1, <1>2, <1>3, XoredType DEF CryptExHeader
  <2>. QED
    BY <1>2, <1>a, <1>3, <2>1, WriteKeeps, ExHeaderStage DEF CryptExHeader
<1>4. CASE CryptTable
  <2>1. Xored({"table"}, NormalKey2C(KeyFlags)) \in Partitions
    BY <1>1, <1>2, <1>4, XoredType DEF CryptTable
  <2>. QED
    BY <1>2, <1>a, <1>4, <2>1, WriteKeeps, TableStage DEF CryptTable
<1>5. CASE CryptBody
  <2>1. Xored({"body", "code"}, NormalKey2C(KeyFlags)) \in Partitions
    BY <1>1, <1>2, <1>5, XoredType DEF CryptBody
  <2>. QED
    BY <1>2, <1>a, <1>5, <2>1, WriteKeeps, BodyStage DEF CryptBody
<1>6. CASE CryptRomFs
  <2>1. Xored({"romfs"}, RomFsKey(part, KeyFlags)) \in Partitions
    BY <1>1, <1>2, <1>6, XoredType DEF CryptRomFs
  <2>. QED
    BY <1>2, <1>a, <1>6, <2>1, WriteKeeps, RomFsStage DEF CryptRomFs
<1>7. CASE RecodeDotCode
  <2>1. Writing("recode") /\ Write(Recoded)
    BY <1>7 DEF RecodeDotCode, Recoded
  <2>2. Recoded \in Partitions
    <3>1. Toggle(Toggle(Current.data["code"], NormalKey(KeyFlags)),
                 NormalKey2C(KeyFlags)) \in SUBSET Keys
      BY <1>2, <2>1, ToggleType DEF Partitions, Sections
    <3>. QED
      BY <1>2, <2>1, <3>1 DEF Recoded, Partitions
  <2>. QED
    BY <1>2, <1>b, <2>1, <2>2, WriteKeeps, RecodeStage
<1>8. CASE WriteMethod
  <2>1. Writing("method") /\ Write(MethodWritten)
    BY <1>8 DEF WriteMethod, MethodWritten
  <2>2. NewMethod \in Methods
    BY <1>1, CryptoAssumption, ZeroPart, RomTypes DEF NewMethod, Flags
  <2>3. MethodWritten \in Partitions
    BY <1>2, <2>1, <2>2 DEF MethodWritten, Partitions, Flags
  <2>. QED
    BY <1>2, <1>c, <2>1, <2>3, WriteKeeps, MethodStage
<1>9. CASE WriteFlags
  <2>1. Writing("flags") /\ Write(FlagsWritten)
    BY <1>9 DEF WriteFlags, FlagsWritten
  <2>2. rom[0].flags \in Flags
    BY <1>1, ZeroPart, RomTypes
  <2>3. FlagsWritten \in Partitions
    BY <1>2, <2>1, <2>2 DEF FlagsWritten, Partitions, Flags
  <2>. QED
    BY <1>2, <1>c, <2>1, <2>3, WriteKeeps, FlagsStage
<1>. QED
  BY <1>3, <1>4, <1>5, <1>6, <1>7, <1>8, <1>9

\* The file being written is damaged where the operation is, if at all.
LEMMA TargetDamage ==
  ASSUME TypeOK, TargetOK, pc = "parts", op.target \notin reworked
  PROVE  \A p \in Damaged(op.target) : p = part /\ at > 1
<1>1. part \in Nat /\ at \in 1..7 /\ op.target \in Files
  BY CryptoAssumption DEF TypeOK
<1>2. \A p \in Ncch : p \in Nat
  BY ZeroPart DEF Ncch
<1>. QED
  BY <1>1, <1>2 DEF TargetOK, Damaged, Goal

\* What a file inherits from its source, and what the others keep.
LEMMA InheritPointwise ==
  ASSUME TypeOK, NEW f \in Files, NEW g \in Files, Inherit(f, g)
  PROVE  /\ killed' \subseteq Files /\ reworked' \subseteq Files
         /\ g \notin reworked' => f \notin reworked /\ Damaged(f) = {}
         /\ \A h \in Files \ {g} : /\ h \in killed' <=> h \in killed
                                   /\ h \in reworked' <=> h \in reworked
         /\ f = g => killed' = killed /\ reworked \subseteq reworked'
  BY DEF Inherit, TypeOK

\* The pre-scan of a file holds flags; so does the one there is when nothing runs.
LEMMA ScanTypes ==
  ASSUME TypeOK
  PROVE  /\ \A f \in Files : Scan(f) \in [Parts -> Flags]
         /\ NoScan \in [Parts -> Flags] /\ NoScan' = NoScan
  BY CryptoAssumption
  DEF TypeOK, Partitions, Scan, NoScan, DecryptedFlags, Flags

LEMMA StartKeeps ==
  ASSUME CryptoInv, NEW action \in {"decrypt", "encrypt"}, NEW f \in Files,
         NEW g \in Files, NEW trim \in BOOLEAN, Start(action, f, g, trim)
  PROVE  CryptoInv'
<1> USE DEF CryptoInv
<1>1. /\ pc = "idle" /\ f \in present /\ rom' = rom /\ files' = files
      /\ part' = 0 /\ at' = 1
  BY DEF Start
<1>2. ops' \in 0..MaxOps
  BY CryptoAssumption DEF Start, TypeOK
<1>3. 0 \in 0..NParts /\ \A p \in Ncch : p \in Nat /\ p \in Parts
  BY CryptoAssumption, ZeroPart DEF Ncch
<1>4. \A h : Damaged(h)' = Damaged(h)
  BY <1>1, RomUnchanged DEF Damaged
<1>5. CASE /\ action = "decrypt" /\ g # f /\ FullyDecrypted(f)
           /\ result' = [kind |-> "ok", action |-> action, file |-> f]
           /\ Inherit(f, f)
           /\ UNCHANGED <<rom, files, present, pc, op, scanned>>
  <2>1. killed' = killed /\ reworked \subseteq reworked' /\ reworked' \subseteq Files
        /\ (f \notin reworked' => Damaged(f) = {})
    BY <1>5, InheritPointwise
  <2>2. TypeOK' /\ PlaceOK' /\ ScanOK'
    BY <1>1, <1>2, <1>3, <1>5, <2>1 DEF TypeOK, PlaceOK, ScanOK
  <2>3. ASSUME Uniform PROVE OthersOK'
    BY <1>1, <1>4, <1>5, <2>1, <2>3 DEF OthersOK
  <2>4. f \notin reworked' => \A p \in Ncch : files[f].parts[p] = Decrypted
    <3>1. SUFFICES ASSUME f \notin reworked', NEW p \in Ncch
                   PROVE  files[f].parts[p] = Decrypted
      OBVIOUS
    <3>2. files[f].parts[p] \in {Released(p), Decrypted}
      BY <2>1, <3>1 DEF Damaged
    <3>3. files[f].parts[p].flags.noCrypto
      BY <1>5 DEF FullyDecrypted
    <3>4. ~Released(p).flags.noCrypto
      BY <1>3, RomTypes DEF Released
    <3>. QED
      BY <3>2, <3>3, <3>4
  <2>5. ResultOK'
    BY <1>1, <1>5, <2>4, RomUnchanged DEF ResultOK, Goal, Decrypted, DecryptedFlags
  <2>. QED
    BY <1>1, <1>5, <2>2, <2>3, <2>5, RomUnchanged DEF TargetOK
<1>6. CASE /\ g # f /\ ~(action = "decrypt" /\ FullyDecrypted(f))
           /\ pc' = "copy"
           /\ present' = present \ {g}
           /\ op' = [action |-> action, src |-> f, target |-> g, trim |-> trim]
           /\ result' = NoResult
           /\ UNCHANGED <<rom, files, scanned, killed, reworked>>
  <2>1. NoResult \in [kind : {"none", "ok", "failed"},
                      action : {"none", "decrypt", "encrypt"}, file : Files]
        /\ NoResult.kind = "none"
    BY CryptoAssumption DEF NoResult, Files
  <2>2. TypeOK' /\ PlaceOK' /\ ScanOK'
    BY <1>1, <1>2, <1>3, <1>6, <2>1 DEF TypeOK, PlaceOK, ScanOK
  <2>3. ASSUME Uniform PROVE OthersOK'
    BY <1>1, <1>4, <1>6, <2>3 DEF OthersOK
  <2>. QED
    BY <1>1, <1>6, <2>2, <2>3, RomUnchanged DEF TargetOK, ResultOK
<1>7. CASE /\ g = f
           /\ pc' = "parts"
           /\ op' = [action |-> action, src |-> f, target |-> g, trim |-> trim]
           /\ result' = NoResult
           /\ Inherit(f, f)
           /\ scanned' = Scan(f)
           /\ UNCHANGED <<rom, files, present>>
  <2>1. NoResult \in [kind : {"none", "ok", "failed"},
                      action : {"none", "decrypt", "encrypt"}, file : Files]
        /\ NoResult.kind = "none"
    BY CryptoAssumption DEF NoResult, Files
  <2>2. killed' = killed /\ reworked \subseteq reworked' /\ reworked' \subseteq Files
        /\ (f \notin reworked' => Damaged(f) = {})
    BY <1>7, InheritPointwise
  <2>0. \A p \in Ncch : scanned'[p] = files'[op'.target].parts[p].flags
    BY <1>1, <1>3, <1>7 DEF Scan
  <2>3. TypeOK' /\ PlaceOK' /\ ScanOK'
    <3>1. scanned' \in [Parts -> Flags]
      BY <1>7, ScanTypes
    <3>2. TypeOK' /\ PlaceOK'
      BY <1>1, <1>2, <1>3, <1>7, <2>1, <2>2, <3>1 DEF TypeOK, PlaceOK
    <3>3. ScanOK'
      BY <1>1, <2>0, RomUnchanged DEF ScanOK
    <3>. QED
      BY <3>2, <3>3
  <2>4. ASSUME Uniform PROVE OthersOK'
    BY <1>1, <1>4, <1>7, <2>2, <2>4 DEF OthersOK
  <2>5. f \notin reworked' =>
          \A p \in Ncch : files[f].parts[p] \in {Released(p), Decrypted}
    BY <2>2 DEF Damaged
  <2>6. Decrypted' = Decrypted
    BY DEF Decrypted, DecryptedFlags
  <2>7. TargetOK'
    BY <1>1, <1>3, <1>7, <2>5, <2>6, RomUnchanged DEF TargetOK
  <2>. QED
    BY <1>1, <1>7, <2>1, <2>3, <2>4, <2>7, RomUnchanged DEF ResultOK
<1>. QED
  BY <1>5, <1>6, <1>7 DEF Start

LEMMA CopyKeeps ==
  ASSUME CryptoInv, CopyDone
  PROVE  CryptoInv'
<1> USE DEF CryptoInv
<1> DEFINE f == op.src
           g == op.target
<1>1. /\ f \in Files /\ g \in Files /\ part = 0 /\ at = 1
      /\ op.action \in {"decrypt", "encrypt"} /\ result.kind = "none"
      /\ f \in present /\ g \notin present
  BY DEF CopyDone, TypeOK, PlaceOK
<1>2. /\ rom' = rom /\ op' = op /\ part' = part /\ at' = at /\ result' = result
      /\ ops' = ops /\ pc' = "parts" /\ present' = present \cup {g}
      /\ files' = [files EXCEPT ![g] = files[f]] /\ Inherit(f, g)
      /\ scanned' = Scan(f)
  BY DEF CopyDone
<1>3. /\ killed' \subseteq Files /\ reworked' \subseteq Files
      /\ g \notin reworked' => f \notin reworked /\ Damaged(f) = {}
      /\ \A h \in Files \ {g} : /\ h \in killed' <=> h \in killed
                                /\ h \in reworked' <=> h \in reworked
  BY <1>1, <1>2, InheritPointwise
<1>4. files'[g] = files[f] /\ \A h \in Files \ {g} : files'[h] = files[h]
  BY <1>1, <1>2 DEF TypeOK
<1>5. files' \in [Files -> [parts : [Parts -> Partitions], padded : BOOLEAN]]
  BY <1>1, <1>2 DEF TypeOK
<1>6. TypeOK' /\ PlaceOK' /\ ScanOK'
  <2>1. scanned' \in [Parts -> Flags]
    BY <1>1, <1>2, ScanTypes
  <2>2. TypeOK' /\ PlaceOK'
    BY <1>1, <1>2, <1>3, <1>5, <2>1 DEF TypeOK, PlaceOK
  <2>3. \A p \in Ncch : scanned'[p] = files'[op'.target].parts[p].flags
    BY <1>2, <1>4 DEF Scan, Ncch
  <2>4. ScanOK'
    BY <1>2, <2>3, RomUnchanged DEF ScanOK
  <2>. QED
    BY <2>2, <2>4
<1>7. TargetOK'
  <2>1. g \notin reworked' =>
          \A p \in Ncch : files'[g].parts[p] \in {Released(p), Decrypted}
    BY <1>3, <1>4 DEF Damaged
  <2>2. \A p \in Ncch : p \in Nat
    BY ZeroPart DEF Ncch
  <2>3. Decrypted' = Decrypted
    BY DEF Decrypted, DecryptedFlags
  <2>. QED
    BY <1>1, <1>2, <2>1, <2>2, <2>3, RomUnchanged DEF TargetOK
<1>8. ASSUME Uniform PROVE OthersOK'
  <2>1. \A h \in present \ {g} : Damaged(h)' = Damaged(h)
    BY <1>2, <1>4, DamagedUnchanged DEF TypeOK
  <2>2. \A h \in present : h \in Files /\ h # g
    BY <1>1 DEF TypeOK
  <2>3. pc = "copy"
    BY DEF CopyDone
  <2>. QED
    BY <1>2, <1>3, <1>8, <2>1, <2>2, <2>3 DEF OthersOK
<1>9. ResultOK'
  BY <1>2 DEF ResultOK
<1>. QED
  BY <1>2, <1>6, <1>7, <1>8, <1>9, RomUnchanged

\* A partition that needs no conversion is behind the operation as it is.
LEMMA SkipKeeps ==
  ASSUME CryptoInv, SkipPartition
  PROVE  CryptoInv'
<1> USE DEF CryptoInv
<1>1. /\ pc = "parts" /\ part \in Parts /\ part \in Nat /\ part < NParts /\ at = 1
      /\ op.action \in {"decrypt", "encrypt"} /\ op.target \in Files
  BY CryptoAssumption DEF SkipPartition, TypeOK, PlaceOK, Parts
<1>2. /\ rom' = rom /\ files' = files /\ present' = present /\ pc' = pc /\ op' = op
      /\ at' = at /\ ops' = ops /\ result' = result /\ killed' = killed
      /\ reworked' = reworked /\ part' = part + 1 /\ scanned' = scanned
  BY DEF SkipPartition
<1>3. part' \in 0..NParts
  BY <1>1, <1>2, CryptoAssumption
<1>4. TypeOK' /\ PlaceOK' /\ ScanOK'
  <2>1. TypeOK' /\ PlaceOK'
    BY <1>1, <1>2, <1>3, RomUnchanged DEF TypeOK, PlaceOK
  <2>2. \A p \in Ncch : p > part + 1 \/ p = part + 1 => p > part
    BY <1>1, ZeroPart DEF Ncch
  <2>3. ScanOK'
    BY <1>1, <1>2, <2>2, RomUnchanged DEF ScanOK
  <2>. QED
    BY <2>1, <2>3
<1>5. \A h : Damaged(h)' = Damaged(h)
  BY <1>2, RomUnchanged DEF Damaged
<1>6. ASSUME Uniform PROVE TargetOK'
  <2>1. SUFFICES ASSUME op.target \notin reworked PROVE TargetOK'
    BY <1>2 DEF TargetOK
  <2>2. \A p \in Ncch : p \in Nat /\ p \in Parts
    BY ZeroPart DEF Ncch
  <2>3. part \in Ncch => files[op.target].parts[part] = Goal(op.action, part)
    <3>1. SUFFICES ASSUME part \in Ncch
                   PROVE  files[op.target].parts[part] = Goal(op.action, part)
      OBVIOUS
    <3>2. Current \in {Released(part), Decrypted}
      BY <1>1, <1>6, <2>1, <3>1 DEF TargetOK, Current
    <3>3. Current.flags.noCrypto # (op.action = "encrypt")
      <4>1. scanned[part] = Current.flags
        BY <1>1, <3>1 DEF ScanOK, Current
      <4>. QED
        BY <3>1, <4>1 DEF SkipPartition, ToConvert, Ncch
    <3>4. Released(part).flags.noCrypto = FALSE /\ Decrypted.flags.noCrypto = TRUE
      <4>1. rom[part].flags \in Flags /\ ~rom[part].flags.noCrypto
        BY <1>1, RomTypes
      <4>. QED
        BY <4>1 DEF Flags, Released, Decrypted, DecryptedFlags
    <3>5. CASE op.action = "decrypt"
      <4>1. Current.flags.noCrypto # FALSE
        BY <3>3, <3>5
      <4>2. Current # Released(part)
        BY <3>4, <4>1
      <4>. QED
        BY <3>2, <3>5, <4>2 DEF Goal, Current
    <3>6. CASE op.action = "encrypt"
      <4>1. Current.flags.noCrypto # TRUE
        BY <3>3, <3>6
      <4>2. Current # Decrypted
        BY <3>4, <4>1
      <4>. QED
        BY <3>2, <3>6, <4>2 DEF Goal, Current
    <3>. QED
      BY <1>1, <3>5, <3>6
  <2>4. \A p \in Ncch : /\ p < part + 1 => p = part \/ p < part
                        /\ p > part + 1 \/ p = part + 1 => p > part
    BY <1>1, <2>2
  <2>5. \A p \in Ncch :
          LET image == files[op.target].parts[p]
          IN /\ p < part + 1 => image = Goal(op.action, p)
             /\ p > part + 1 \/ p = part + 1 => image \in {Released(p), Decrypted}
    BY <1>1, <1>6, <2>1, <2>3, <2>4 DEF TargetOK
  <2>6. Decrypted' = Decrypted
    BY DEF Decrypted, DecryptedFlags
  <2>. QED
    BY <1>1, <1>2, <2>5, <2>6, RomUnchanged DEF TargetOK
<1>. QED
  BY <1>1, <1>2, <1>4, <1>5, <1>6, RomUnchanged DEF OthersOK, ResultOK

\* The operation gives up before it writes anything to the partition.
LEMMA AbortKeeps ==
  ASSUME CryptoInv, Abort
  PROVE  CryptoInv'
<1> USE DEF CryptoInv
<1>1. /\ pc = "parts" /\ part \notin Ncch /\ op.target \in Files
      /\ op.action \in {"decrypt", "encrypt"} /\ op.target \in present
  BY DEF Abort, TypeOK, PlaceOK, Ncch
<1>2. /\ rom' = rom /\ files' = files /\ present' = present /\ op' = op
      /\ pc' = "idle" /\ part' = part /\ at' = at /\ ops' = ops
      /\ scanned' = NoScan
      /\ killed' = killed /\ reworked' = reworked
      /\ result' = [kind |-> "failed", action |-> op.action, file |-> op.target]
  BY DEF Abort
<1>3. TypeOK' /\ PlaceOK' /\ ScanOK'
  BY <1>1, <1>2, ScanTypes DEF TypeOK, PlaceOK, ScanOK
<1>4. \A h : Damaged(h)' = Damaged(h)
  BY <1>2, RomUnchanged DEF Damaged
<1>5. ASSUME Uniform PROVE OthersOK'
  <2>1. op.target \notin reworked => Damaged(op.target) = {}
    BY <1>1, <1>5, TargetDamage DEF Damaged
  <2>. QED
    BY <1>1, <1>2, <1>4, <1>5, <2>1 DEF OthersOK
<1>. QED
  BY <1>2, <1>3, <1>5, RomUnchanged DEF TargetOK, ResultOK

LEMMA FinishKeeps ==
  ASSUME CryptoInv, Finish
  PROVE  CryptoInv'
<1> USE DEF CryptoInv
<1>1. /\ pc = "parts" /\ part = NParts /\ op.target \in Files
      /\ op.action \in {"decrypt", "encrypt"} /\ op.target \in present
  BY DEF Finish, TypeOK, PlaceOK
<1>2. /\ rom' = rom /\ present' = present /\ op' = op
      /\ pc' = "idle" /\ part' = part /\ at' = at /\ ops' = ops
      /\ scanned' = NoScan
      /\ killed' = killed /\ reworked' = reworked
      /\ result' = [kind |-> "ok", action |-> op.action, file |-> op.target]
  BY DEF Finish
<1>3. /\ files' \in [Files -> [parts : [Parts -> Partitions], padded : BOOLEAN]]
      /\ \A f \in Files : files'[f].parts = files[f].parts
  BY <1>1 DEF Finish, TypeOK
<1>4. TypeOK' /\ PlaceOK' /\ ScanOK'
  BY <1>1, <1>2, <1>3, ScanTypes DEF TypeOK, PlaceOK, ScanOK
<1>5. \A f \in Files : Damaged(f)' = Damaged(f)
  BY <1>2, <1>3, RomUnchanged DEF Damaged
<1>6. \A p \in Ncch : p < part /\ p \in Nat
  BY <1>1, CryptoAssumption DEF Ncch, Parts
<1>7. ASSUME Uniform PROVE OthersOK' /\ ResultOK'
  <2>1. op.target \notin reworked =>
          \A p \in Ncch : files[op.target].parts[p] = Goal(op.action, p)
    BY <1>1, <1>6, <1>7 DEF TargetOK
  <2>2. op.target \notin reworked => Damaged(op.target) = {}
    BY <2>1 DEF Damaged, Goal
  <2>3. OthersOK'
    BY <1>1, <1>2, <1>5, <1>7, <2>2 DEF OthersOK, TypeOK
  <2>4. ResultOK'
    BY <1>1, <1>2, <1>3, <2>1, RomUnchanged DEF ResultOK
  <2>. QED
    BY <2>3, <2>4
<1>. QED
  BY <1>2, <1>4, <1>7, RomUnchanged DEF TargetOK

\* A kill leaves the file as it was after the last write.
LEMMA KillKeeps ==
  ASSUME CryptoInv, Kill
  PROVE  CryptoInv'
<1> USE DEF CryptoInv
<1>1. /\ pc # "idle" /\ op.target \in Files /\ result.kind = "none"
  BY DEF Kill, TypeOK, PlaceOK
<1>2. /\ rom' = rom /\ files' = files /\ present' = present /\ op' = op
      /\ pc' = "idle" /\ part' = part /\ at' = at /\ ops' = ops
      /\ scanned' = NoScan
      /\ reworked' = reworked /\ result' = result
      /\ killed' = IF pc = "parts" THEN killed \cup {op.target} ELSE killed
  BY DEF Kill
<1>3. TypeOK' /\ PlaceOK' /\ ScanOK'
  BY <1>1, <1>2, ScanTypes DEF TypeOK, PlaceOK, ScanOK
<1>4. \A h : Damaged(h)' = Damaged(h)
  BY <1>2, RomUnchanged DEF Damaged
<1>5. ASSUME Uniform PROVE OthersOK'
  <2>1. pc = "parts" /\ op.target \notin reworked =>
          \A p, q \in Damaged(op.target) : p = q
    BY <1>5, TargetDamage
  <2>. QED
    BY <1>1, <1>2, <1>4, <1>5, <2>1 DEF OthersOK
<1>. QED
  BY <1>1, <1>2, <1>3, <1>5, RomUnchanged DEF TargetOK, ResultOK

-----------------------------------------------------------------------------
LEMMA CryptoInit == Init => CryptoInv
<1>1. SUFFICES ASSUME Init PROVE CryptoInv
  OBVIOUS
<1>2. PICK plain \in SUBSET Ncch :
        files = [f \in Files |->
                   [parts |-> [p \in Parts |-> IF p \in plain THEN Decrypted
                                               ELSE Released(p)],
                    padded |-> TRUE]]
  BY <1>1 DEF Init
<1>3. 1 \in Files /\ 0 \in 0..NParts
  BY CryptoAssumption DEF Files
<1>4. \A p \in Parts : Released(p) \in Partitions /\ Decrypted \in Partitions
  <2>1. SUFFICES ASSUME NEW p \in Parts
                 PROVE  Released(p) \in Partitions /\ Decrypted \in Partitions
    OBVIOUS
  <2>2. rom \in [Parts -> Layouts]
    BY <1>1, CryptoAssumption DEF Init
  <2>3. rom[p].flags \in Flags
    BY <2>2 DEF Layouts
  <2>4. \A s \in Sections : SectionKey(p, rom[p].flags, s) \in Keys
    BY <2>3, KeyTypes
  <2>5. DecryptedFlags \in Flags
    BY CryptoAssumption DEF DecryptedFlags, Flags
  <2>. QED
    BY <2>3, <2>4, <2>5 DEF Released, Decrypted, Partitions
<1>5. files \in [Files -> [parts : [Parts -> Partitions], padded : BOOLEAN]]
  BY <1>2, <1>4
<1>6. TypeOK
  <2>1. NoScan \in [Parts -> Flags]
    BY CryptoAssumption DEF NoScan, DecryptedFlags, Flags
  <2>. QED
    BY <1>1, <1>3, <1>5, <2>1, CryptoAssumption DEF Init, TypeOK, NoOp, NoResult
<1>7. PlaceOK /\ ScanOK
  BY <1>1 DEF Init, PlaceOK, ScanOK, NoResult
<1>8. Damaged(1) = {}
  BY <1>2, <1>3 DEF Damaged, Ncch
<1>. QED
  BY <1>1, <1>6, <1>7, <1>8 DEF Init, CryptoInv, TargetOK, OthersOK, ResultOK, NoResult

LEMMA CryptoNext == CryptoInv /\ [Next]_vars => CryptoInv'
<1>1. SUFFICES ASSUME CryptoInv, [Next]_vars PROVE CryptoInv'
  OBVIOUS
<1>2. CASE \E action \in {"decrypt", "encrypt"}, f, g \in Files, trim \in BOOLEAN :
             Start(action, f, g, trim)
  BY <1>1, <1>2, StartKeeps
<1>3. CASE CopyDone
  BY <1>1, <1>3, CopyKeeps
<1>4. CASE \/ CryptExHeader \/ CryptTable \/ RecodeDotCode \/ CryptBody
           \/ CryptRomFs \/ WriteMethod \/ WriteFlags
  BY <1>1, <1>4, WritesKeep
<1>5. CASE SkipPartition
  BY <1>1, <1>5, SkipKeeps
<1>6. CASE Abort
  BY <1>1, <1>6, AbortKeeps
<1>7. CASE Finish
  BY <1>1, <1>7, FinishKeeps
<1>8. CASE Kill
  BY <1>1, <1>8, KillKeeps
<1>9. CASE UNCHANGED vars
  <2>1. rom' = rom /\ \A h : Damaged(h)' = Damaged(h)
    BY <1>9, RomUnchanged DEF vars, Damaged
  <2>2. Decrypted' = Decrypted
    BY DEF Decrypted, DecryptedFlags
  <2>3. TypeOK' /\ PlaceOK' /\ ScanOK'
    BY <1>1, <1>9, <2>1, RomUnchanged DEF CryptoInv, TypeOK, PlaceOK, ScanOK, vars, place
  <2>4. ASSUME Uniform PROVE TargetOK' /\ OthersOK' /\ ResultOK'
    BY <1>1, <1>9, <2>1, <2>2, <2>4, RomUnchanged
    DEF CryptoInv, TargetOK, OthersOK, ResultOK, vars, place
  <2>. QED
    BY <2>1, <2>3, <2>4, RomUnchanged DEF CryptoInv
<1>. QED
  BY <1>1, <1>2, <1>3, <1>4, <1>5, <1>6, <1>7, <1>8, <1>9 DEF Next

\* The invariant holds of every execution (decrypt3ds, encrypt3ds, and kills in
\* between), whatever the number of partitions, files, operations and methods.
THEOREM CryptoInvariance == Spec => []CryptoInv
  BY CryptoInit, CryptoNext, PTL DEF Spec

\* A kill between two writes damages one partition at most.
THEOREM OneDamaged == Spec => []AtMostOneDamaged
<1>1. CryptoInv => AtMostOneDamaged
  <2>1. SUFFICES ASSUME CryptoInv, Uniform, NEW f \in present \ reworked
                 PROVE  \A p, q \in Damaged(f) : p = q
    BY DEF AtMostOneDamaged
  <2>. QED
    BY <2>1, TargetDamage DEF CryptoInv, OthersOK
<1>. QED
  BY <1>1, CryptoInvariance, PTL

\* Nothing but a kill leaves a file in neither form.
THEOREM KillsOnlyDamage == Spec => []OnlyKillDamages
<1>1. CryptoInv => OnlyKillDamages
  BY DEF CryptoInv, OthersOK, OnlyKillDamages
<1>. QED
  BY <1>1, CryptoInvariance, PTL

\* A reported success means that every partition is in the form asked for.
THEOREM SuccessMeansConverted == Spec => []SuccessConverts
<1>1. CryptoInv => SuccessConverts
  BY DEF CryptoInv, ResultOK, SuccessConverts, Goal
<1>. QED
  BY <1>1, CryptoInvariance, PTL
=============================================================================
