SPECIFICATION FairSpec
\* A failed read, a reading that asks for gas at 1000 ppm, one for the fan.  A
\* tick is about 750 ms: the valve stays open for 2 ticks and a round lasts 3,
\* the shortest that keeps VALVE_OPEN_TIME < measuringInterval.
CONSTANTS
  Readings = {0, 900, 2000}
  Setpoints = {1000}
  QUEUE_LENGTH = 1
  VALVE_OPEN_TIME = 2
  CO2_WARM_UP_TIME = 1
  PROBE_DELAY = 1
  START_UP_MAX_TIME = 2
  measuringInterval = 3
INVARIANTS
  TypeOK
  ValveGuarded
PROPERTIES
  SamplesForwarded
  ReopenNeedsTwoSetpoints
  ValveCloses
  FanFollows
  ImplementsFairView
