SPECIFICATION FairWatchSpec
CONSTANTS
  a = a  b = b
  ddl = ddl
  Instances = {a, b}
  ChannelOf <- SameChannel
  NoChannel = NoChannel
  Privileged = {a}
  PoolSize = 2
  MaxMigrations = 2
  MaxFaults = 1
INVARIANTS
  NothingLost
  SdlNeverAhead
PROPERTIES
  Converges
CHECK_DEADLOCK FALSE
