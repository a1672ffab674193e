SPECIFICATION FairSpec
CONSTANTS
  Requests = {r1, r2}
  Networks <- MCNetworks
  Queries <- MCQueries
  LocalTimes = {0, 1}
  NoStations = NoStations
  MaxUploads = 3
  MaxTime = 3
INVARIANTS TypeOK StampNotAhead AnswersAreWhole
PROPERTIES ServedNeverGoesBack ImplementsServedMetadata UploadIsServed
