SPECIFICATION FairSpec
CONSTANTS
  Workers = {w1}
  Messages <- MixedMessages
  Keys <- MCKeys
  Events <- MCEvents
  Versions <- MCVersions
  Upload <- MCUpload
  Body <- MixedBody
  NoVersion = "none"
  NoRow = "norow"
  NoMessage = "nomessage"
  MaxRecords = 2
  MaxReceives = 2
INVARIANTS TypeOK AckedMeansSaved
PROPERTIES UniqueViolationMeansOlder ImplementsLatestEvent EveryMessageSettles
