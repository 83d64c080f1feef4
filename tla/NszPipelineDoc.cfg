\* Two NCAs: the first lacks its ticket while the loop reads the second.
CONSTANTS
  NumEntries = 3
  Ncas = {1, 3}
  MaxSetting = 1
SPECIFICATION FairSpec
PROPERTY MissingTicketSurfaces
CHECK_DEADLOCK FALSE
