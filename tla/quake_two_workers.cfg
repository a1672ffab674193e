SPECIFICATION FairSpec
CONSTANTS
  Workers = {w1, w2}
  Messages <- RaceMessages
  Keys <- MCKeys
  Events <- MCEvents
  Versions <- MCVersions
  Upload <- MCUpload
  Body <- RaceBody
  NoVersion = "none"
  NoRow = "norow"
  NoMessage = "nomessage"
  MaxRecords = 2
  MaxReceives = 2
INVARIANTS OneWriterPerEvent AckedEventsAreKnown BlockersGoOn
PROPERTIES RowNeverGoesBack ImplementsEventTable SavesFinish
