SPECIFICATION ModelFairSpec
CHECK_DEADLOCK FALSE
CONSTANTS
  speed = speed
  mmsi = mmsi
  name = name
  number = number
  a = a
  b = b
  q1 = q1
  q2 = q2
  Root = Root
  Mmsi = Mmsi
  Name = Name
  Paths = {speed, Root}
  Fields = {mmsi, name, number}
  Data = {a, b}
  Requests = {q1, q2}
  Asked <- MCAsked
  Updates <- MCUpdates
  Stored <- MCStored
INVARIANT ServedComplete
PROPERTIES CacheForward Served
