SPECIFICATION FairSpec
CONSTANTS
  Ids = {"p1", "p2", "p3", "p9", "quake"}
  PublicIDs = {"p1", "p2", "p3", "p9"}
  Events = {"p1", "p2", "p3"}
  Versions <- MCVersions
  Info <- MCInfo
  Types = {"earthquake", "other", ""}
  NoRow = NoRow
  None = None
  Queries <- MCQueries
  MaxEvents = 2
  MaxSaves = 2
INVARIANTS TypeOK AnswersAreTrue AnswersAreBounded
PROPERTY EveryEventRequestIsAnswered
