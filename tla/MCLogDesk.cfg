SPECIFICATION Spec
CONSTANTS
  A = A
  B = B
  C = C
  P = P
  Q = Q
  S = S
  Calls <- MCCalls
  None = None
  Typed = Typed
  Me = Me
  MaxRows = 2
  Stations <- MCStations
  Dials <- MCDials
  Messages <- MCMessages
  OldRows <- MCOldRows
  MaxContacts = 2
  MaxChanges = 1
SYMMETRY MCSymmetry
CHECK_DEADLOCK FALSE
INVARIANTS
  TypeOK
  EntryIsOfOneStation
  SavedContactsStay
  FilesCoverTheDay
  PreviewNamesTheFiles
