\* Two section boundaries, chunks and blocks that straddle them; two or three
\* containers of up to six members; images of up to three partitions.
CONSTANTS
  HeaderSize = 4
  CtrBlock = 2
  ChunkSize = 3
  BlockSize = 4
  Ncas <- MCNcas
  Foreign <- MCForeign
  NameAlign = 4
  Reserved = 7
  MediaUnit = 3
  Kits <- MCKits
  NoRights = NoRights
  Malformed = Malformed
  NoKit = NoKit
  Cards <- MCCards
  NoCard = NoCard
  MinNca = 2
SPECIFICATION SwitchSpec
INVARIANTS
  BodyCovered
  StreamIsPlain
  Rebuilt
  TitlesRestored
  CardRestored
\* A file converted is the end.
CHECK_DEADLOCK FALSE
