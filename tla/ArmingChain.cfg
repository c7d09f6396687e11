CONSTANTS
  Configurations <- MCConfigurations
  Devices = {"hat", "other"}
  Identities = {"servo hat", "imu"}
  Hat = "hat"
  Depth = 1
  MaxChanges = 1
  MaxDeaths = 1
SPECIFICATION FairSpec
INVARIANTS TypeOK TopicsMeet ArmedOnlyWhenReported
PROPERTIES CommandsArrive UnreadyDisarms
