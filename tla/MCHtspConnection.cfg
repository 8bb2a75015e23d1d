SPECIFICATION Spec
CONSTANTS
  None = None
  Challenges = {c1, c2}
  SeqLimit = 3
  MaxPush = 2
INVARIANTS
  TypeOK
  EntriesLive
  LockDiscipline
  OwnAnswer
  MessageOwnership
  NoMissedWakeup
PROPERTIES
  AnswerNotLost
  ReaderGetsMutex
  RegisterFinishes
  ImplementsHandshake
