SPECIFICATION Spec
CONSTANTS
  Fields <- MCFields
  BAD <- MCBad
  BootFields <- MCBootFields
  BootLevels <- MCBootLevels
  UserLevels <- MCUserLevels
  Commands <- MCCommands
  QUEUE_LENGTH = 1
INVARIANTS
  TypeOK
  SessionExclusive
  WorkersNeedUplink
  UplinkKnown
  NothingStranded
PROPERTIES
  SavedWasJoined
  EnvironmentsMet
