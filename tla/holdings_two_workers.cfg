SPECIFICATION Spec
CONSTANTS
  Workers = {w1, w2}
  Messages = {m1, m2}
  Keys = {k1}
  Contents <- FewContents
  Corrupt <- MCCorrupt
  Streams <- MCStreams
  NoStream = "none"
  StreamOf <- FewStreamOf
  Absent = "absent"
  NoRow = NoRow
  NoMessage = "nomessage"
  ReadsFail = TRUE
  MaxRecords = 2
  MaxReceives = 2
SYMMETRY Perms
INVARIANTS RowsAreInTheirStream ObjectsAreKnown
PROPERTIES CreatedRecordHasRow UnchangedStaySearchable
