SPECIFICATION FairSpec
CONSTANTS
  Fields <- LiveFields
  BAD <- MCBad
  BootFields <- MCBootFields
  BootLevels <- MCBootLevels
  UserLevels <- MCUserLevels
  Commands <- LiveCommands
  QUEUE_LENGTH = 1
PROPERTIES
  UnattendedRecovers
