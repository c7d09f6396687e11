CONSTANTS
  Topics = {rosout, camera}
  LogTopics = {rosout}
  MaxStamp = 3
  NoStamp = NoStamp
  RateUnit = 12
  MaxMessages = 4
SPECIFICATION Spec
INVARIANTS TypeOK PluginsIsolated RatesOfRows DeltasOfRows FilesClosed
