SPECIFICATION Spec
CONSTANTS
  Requests = {r1, r2}
  Networks = {"n1", "n2", "n3"}
  Stations = {"s1", "s2", "s3", "s4"}
  Channels = {"c1", "c2", "c3", "c4"}
  Codes = {"NZ", "IU", "XX", "WEL", "SNZO", "HHZ", "HHN", "10", "20", "NONE"}
  Anything = "*"
  BadName = "N Z"
  None = None
  Responding = {"c1", "c2", "c4"}
  StationsOf <- MCStationsOf
  ChannelsOf <- MCChannelsOf
  Code <- MCCode
  Location <- MCLocation
  Epoch <- MCEpoch
  Position <- MCPosition
  MaxTime = 3
  Gets <- MCGets
  Posts <- MCPosts
INVARIANTS TypeOK AnswerIsTheUnion ResponsesAreWhole LevelOnlyTrims
