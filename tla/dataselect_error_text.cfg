SPECIFICATION Spec
CONSTANTS
  Keys = {"k1", "k2"}
  Streams = {"nz", "iu"}
  NetworkOf <- MCNetworkOf
  StreamOf <- MCStreamOf
  Files <- MCFiles
  Garbled = Garbled
  Absent = Absent
  NoRow = NoRow
  NoKey = NoKey
  MaxTime = 5
  HalfHour = 1
  Day = 2
  Gets <- MCGets
  Posts <- MCPosts
  MaxQueries = 2
  MaxFiles = 2
  MaxChanges = 2
INVARIANT ErrorsAreNotReported
