SPECIFICATION Spec
CONSTANTS
  Workers = {w1}
  Messages = {m1, m2, m3}
  Keys = {k1}
  Contents <- MCContents
  Corrupt <- MCCorrupt
  Streams <- MCStreams
  NoStream = "none"
  StreamOf <- MCStreamOf
  Absent = "absent"
  NoRow = NoRow
  NoMessage = "nomessage"
  ReadsFail = FALSE
  MaxRecords = 2
  MaxReceives = 2
PROPERTY CorrectedErrorsMove
