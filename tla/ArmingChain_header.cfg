CONSTANTS
  Configurations <- MCNamedRobot
  Devices = {"hat"}
  Identities = {"servo hat", "imu"}
  Hat = "hat"
  Depth = 1
  MaxChanges = 0
  MaxDeaths = 0
SPECIFICATION FairSpec
PROPERTY HeaderShowsArmedState
