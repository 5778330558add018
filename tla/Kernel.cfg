CONSTANTS
  End = "end"
  None = "none"
  Idle = "idle"
  Daemon = "daemon"
  TimerQueue = "timer queue"
  Tasks <- MCTasks
  BasePriority <- MCBase
  MaxPriorities = 4
  Wrap = 8
  Horizon = 9
  EventLists <- MCEventLists
  Queues <- MCQueues
  Length <- MCLength
  Mutexes = {"mutex"}
  Groups = {"group", "sdk"}
  Bits = {"red", "blue"}
  Timers = {"valve", "beat"}
  Locks <- MCLocks
  SdkGroup = "sdk"
  SdkBit <- MCSdkBit
  Period <- MCPeriod
  TaskName <- MCName
  Streams = {"stream", "messages"}
  Messages = {"messages"}
  Asked <- MCAsked
  Header = 1
  Numbers = 2
  Reloading = {"beat"}
  Scenarios = {"queue", "uart", "mutex", "notify", "group", "timer", "control", "lives",
    "reload", "peek", "recursive", "reset", "set", "periodic", "wait", "sync", "pended", "sdk", "resume", "info", "stream", "message", "bytes in", "bytes out", "sleep"}
  TicklessIdle = {"sleep"}
  MinSleep = 2
  MaxSuppressed = 3
  Participants <- MCParticipants
  Calls <- MCCalls
  Interrupts <- MCInterrupts
  Start <- MCStart
  MaxInterrupts = 2
SPECIFICATION Spec
CHECK_DEADLOCK FALSE
INVARIANTS
  TypeOK
  HighestRuns
  NoLostWakeUp
  ObjectsHonest
PROPERTY
  WaitsKeepTime
