# Models and proofs of the GeoNet FDSN services

TLA+ specifications of the programs in this repository, configurations with
which TLC checks them on small instances, and proofs that TLAPS checks for all
instances. Paths are relative to the root of the repository; `main.go` alone is
the one of the program the section is about.

    tlc -config quake_one_worker.cfg MCQuakeConsumer      # any run below
    tlapm QuakeConsumerProofs.tla                          # any proof module

## The system

| component | code | state | operations |
|---|---|---|---|
| quake consumer | `cmd/fdsn-quake-consumer` | the reused notification struct; table `fdsn.event` | receive, decode, fetch from S3, convert, save in a transaction, delete the message |
| holdings consumer | `cmd/fdsn-holdings-consumer`, `internal/holdings` | the reused event struct; tables `fdsn.stream`, `fdsn.holdings` | receive, decode, read the object, save in up to three statements, delete rows, delete the message |
| s3-notify | `cmd/s3-notify` | none | list the bucket, send a creation notice for each object |
| station cache | `cmd/fdsn-ws/fdsn_station.go` | `fdsnStations` under an RWMutex | load at start, look for a newer file at each tick, publish it |
| station queries | `cmd/fdsn-ws/fdsn_station.go`, `fdsn_station_type.go` | a copy of the cache per request | parse GET and POST, filter, trim, marshal |
| dataselect queries | `cmd/fdsn-ws/fdsn_dataselect.go`, `data_holdings.go`, `internal/fdsn` | none shared; found files, current file and what was written per request | parse, search the index, fetch, stream records |
| dataselect metrics | the same | none shared; found rows per request | parse, search, answer in JSON |
| event queries | `cmd/fdsn-ws/fdsn_event.go` | none | parse and check, count, fetch, answer |
| sc3ml | `cmd/fdsn-ws/sc3ml.go`, `internal/valid` | none | check the id, read one row |
| routes, errors, server | `cmd/fdsn-ws/routes.go`, `server.go` | none | route, turn errors into answers, start |

S3 sends a notification to an SQS queue for every object that is put or
removed; `s3-notify` sends more of them by hand. A consumer takes them one at a
time, reads the object, writes PostgreSQL, and deletes the message; a message
that is not deleted within 600 s comes back, and after some deliveries goes to
the dead-letter queue. Several instances of a consumer may run on one queue.
The web service reads the tables the consumers write, the miniSEED files in S3,
and a StationXML file in S3 that it keeps in memory. The programs share nothing
but the queues, the buckets and the tables.

What makes each of them correct, and is hard to test:

* *Consumers.* Delivery is at least once and in any order, any call can fail
  before or after it took effect, the process can stop anywhere, and the object
  is read later than it was announced. No acknowledged update may be lost, the
  tables must not go back, and no message may be tried for ever. With several
  workers the statements interleave under READ COMMITTED.
* *Station cache.* It is refreshed by two S3 calls that an upload may fall
  between; requests run on a copy whose slices and pointers are shared.
* *Station queries.* Several parameter sets are filtered together, level by
  level; a set that matches a parent must not admit another set's children.
* *Dataselect.* Margins, limits and windows must fit together so that no record
  is missing, while files change during the request and the answer streams.
  The metrics service shares the parsing and the margins, but not all checks.
* *Event queries.* The events are counted by one statement and fetched by
  another, while the quake consumer saves and deletes; boxes and circles must
  work across the date line, where the network is.

## Modules

| module | models |
|---|---|
| `NotificationQueue` | the SQS queue and its DLQ, external; the actions are composed with those of the consumers |
| `LatestEvent` | what the quake consumer promises: the table holds the latest of all that was acknowledged |
| `QuakeConsumer` | the quake consumer, any number of workers; extends `NotificationQueue`, implements `LatestEvent` with one worker, its table with any number |
| `HoldingsConsumer` | the holdings consumer with the bucket and the senders of notifications; extends `NotificationQueue` |
| `ServedMetadata` | what the station cache promises: a register of whole versions that moves forwards while the server is up |
| `StationCache` | the metadata in memory, its updater and requests that copy it; implements `ServedMetadata` |
| `StationFilter` | station queries from the request to the answer |
| `Dataselect` | dataselect queries from the request to the last byte, and metrics queries |
| `EventService` | event queries and the sc3ml service; its table changes as `LatestEvent` allows |
| `MC...` | the instances TLC checks |
| `...Proofs` | theorems about the module they are named after |

Operators have the names of the functions they model where there is one
(`holdingsSearch`, `DoFilter`, `TrimLevel`, `validStartEnd`, `SaveHoldings`).
A definition whose comment begins with "Mutant of" models no code: it is the
named definition with a plausible bug in it (a dropped check, a late lock, an
error that is not returned), and no specification uses it. Each property of a
run without a violation fails when one of these takes its original's place, so
none of the properties holds by the shape of the model.

### QuakeConsumer

`pc` follows a worker through the body of the loop in `main.go` and through
`event.save`: `receive`, `get` (S3 and `unmarshal`), `delete`, `wait`, `insert`,
`commit`, `ack`. `n` is the struct that is declared once before the loop; it is
modelled as a slice with its backing array because `json.Unmarshal` decodes
into the old elements, so that a record without a `versionId` takes the one
that an earlier message left there (`MergeRef`). SIGTERM and a crash are both
`Restart`: what tells them apart is only where the worker is.

A SeisComPML object is an event, a modification time, and whether `unmarshal`
accepts it. `Stored` is what S3 may return: the version asked for, or without
one whatever is current. The transaction is the one of PostgreSQL at READ
COMMITTED. `DeleteOld` takes the row's lock, waits for another deleter, and
looks again when that one has rolled back; if it has committed the DELETE finds
nothing (`WaitersFindNothing`): the row in the statement's snapshot is gone and
the one that replaced it is not in the snapshot. `Insert` waits for the key.
`CommitUnanswered` is a commit whose answer is lost.

`LatestEvent` has two instances here. `Latest` has the messages that were
deleted as what is acknowledged: `ImplementsLatestEvent` holds with one worker.
`EventTable` leaves acknowledgement out and keeps what is said of the table:
`ImplementsEventTable` holds with any number, and is what the web service
relies on. What two workers can lose by their race is an update but not an event
(`AckedEventsAreKnown`).

### HoldingsConsumer

A row of `fdsn.holdings` is identified by stream and key, as its UNIQUE
constraint is. A content stands for a file: its stream, and whether
`SingleStream` finds a short or bad record in it; an empty file has the stream
of four empty codes, as the code makes it. `Put` and `Take` change the bucket
and send the notification; `Reindex` is `s3-notify`, which sends one record per
message, and senders like it that send two; `Misconfigured` and `Unusable` are the
texts that `Process` tests for. Each statement is a step and commits by itself.
`StatementUnanswered` is a statement that took effect although the driver
reports an error. `ReadsFail` says whether S3 may fail to return an object that
is there: the code stores such a failure like a broken file.

Both event names and keys are in every record, so decoding into the reused
struct replaces the records, or leaves all of them if the text has none.

`settled` is a history variable, which only properties read: the keys whose
present object was uploaded when no removal of them was left, in a message or in
the struct of a worker (`RemovalLeft`). It tells an upload after a processed
removal, for which the index must be right, from one that a late removal may
still undo.

### StationCache

`uploads` is the history of the S3 object. A tick is `LastModified`, `Get` and
then `Publish`, `ParseFails` or `LoadPanics`. Publishing and copying are single
steps since both are short sections under the RWMutex. `fdsnStations.modified`
is read without the lock, by the only goroutine that writes it. A local file in
`etc/`, if there is one, is part of the deployment and taken to be loadable.
Versions are indices of `uploads`, 0 the local file.

`ServedMetadata` knows no S3, ticks, stamps or copies. What is `offered` to it
are the good uploads and the local file, what is `served` is the version in
`fdsnStations`, and a request is answered at the step in which it copies the
struct, by the version it copied and the networks that its filter leaves; so the
filtering, however late, is a stutter.

### StationFilter

`Asked` is `fdsnStationV1Parm`, the parameters in their own names, `Accepted`
the checks of `parseStationV1` (each `...OK` is one of them) and `SearchOf` the
search that it returns; a line of a POST goes through the same checks with
everything else at its default (`AskedBy`). Regular expressions are the sets of
codes that they match, with one name (`BadName`) for those that `GenRegex`
refuses; times are small numbers with the two values that mean "none"; positions
are whole degrees, and the distance of `wgs84` is that of a plane of degrees
that closes at the date line. The `...Matches` operators are the conditions of
the loops over parameter sets, `MatchedBy...` the `matchedParams` handed down,
`Keeps...` the recursion. The time filter ignores networks and stations at other
levels but always applies to channels, and the level of the answer is that of
the first parameter set, as in the code (a comment at `fdsn_station.go:648` says
that all sets have the same level; a POST body with two `level` lines gives them
different ones). The copy shares each channel's `Response` with the tree:
`stages` says which of the shared ones have their stages, `own` which channels
of a copy have a new one. An error of `xml.Marshal` has no status of its own and
becomes a 503 (`MarshalFails`).

### Dataselect

One step per call to the database, S3 or the client. `row` is the start time
the index has for a key; it follows the bucket some time later or not at all
(`IndexObject`). `Search` may see only a part of the rows, because nothing asks
`rows.Err`; the history variable `partial` records it. `status` is what the
client has seen, `returned` what the handler returns, `page` whether an error
text was appended to `body`. Requests share nothing that they write, so one at
a time is modelled, each from a state that the last one left behind in bucket
and index.

The `Metrics...` actions are the handler of the metrics service, which takes the
same queries (`service` says whose request it is). They differ from the
dataselect handler where the code does: an empty POST body is not refused and
ends in a panic, which leaves the client without a status, the one exception
that `EveryRequestIsAnswered` makes; networks and the order of the times are not
looked at; the limit on files applies to any query and is tested before the rows
are added. Rows of broken files are not left out by `metricsSearch`, but their
start is the zero time, in no window. Errors go through `weft.TextError`, which
has no text for 204 and 413.

### EventService

`Count`, `Fetch` and `s3ml` are one SQL statement each; between them `Save`
changes the table as `LatestEvent!Record` allows, which `QuakeConsumer` is shown
to do with any number of workers (`ImplementsEventTable`), so the composition
needs no workers and no queue. A query is a record of what `parseEventV1` keeps, with `None` for a parameter that
was not given; `readable` stands for names and values that the decoder accepts,
`types` for what the patterns of `eventtype` match. `parseEventV1` has the
checks in the form the code gives them, among them that of each pair of bounds
one side is checked only. `filter` is the WHERE clause. PostGIS is external:
`ShiftLongitude` takes longitudes to 0..360, and distances are those of a plane
of degrees, which is what `ST_Distance` measures between geometries. `Fetch` may
return a part of the rows, because nothing asks `rows.Err` (`partial`).
`ScanFails` leaves what was written in front of the error text.

`seen` is a history variable, the tables there have been since the request
arrived. `Wanted` says what a query means without the code's arithmetic: a box
runs from its first longitude eastwards to the second, a distance goes the
shorter way round. `AnswersAreTrue` compares answers with it.

## Runs

| run | instance | checks |
|---|---|---|
| `quake_one_worker` | 1 worker, 3 messages (two of two records, one no notification), 4 object versions of 2 events | `AckedMeansSaved`, `UniqueViolationMeansOlder`, `ImplementsLatestEvent`, `EveryMessageSettles` |
| `quake_two_workers` | 2 workers, 2 updates of one event, a text that is not JSON | `OneWriterPerEvent`, `AckedEventsAreKnown`, `BlockersGoOn`, `RowNeverGoesBack`, `ImplementsEventTable`, `SavesFinish` |
| `quake_race` | the same | `UniqueViolationMeansOlder` does *not* hold |
| `quake_stale_records` | as `quake_one_worker` | `UnusableMessagesAreKept` does *not* hold |
| `holdings_one_worker` | 1 worker, 3 messages, 1 key, 4 contents | `NoGhostHoldings`, `ObjectsAreIndexed` |
| `holdings_two_workers` | 2 workers, 2 messages, 1 key, 3 contents, reads may fail | `RowsAreInTheirStream`, `ObjectsAreKnown`, `CreatedRecordHasRow`, `UnchangedStaySearchable` |
| `holdings_error_rows` | as `holdings_one_worker` | `CorrectedErrorsMove` does *not* hold |
| `station_cache` | 2 requests, 3 uploads within 3 seconds, with and without a local file | `StampNotAhead`, `AnswersAreWhole`, `ServedNeverGoesBack`, `ImplementsServedMetadata`, `UploadIsServed` |
| `dataselect` | 2 keys of 2 streams, 3 files, 4 GET queries, 12 POST bodies, each for both services, 2 changes during a request | `NothingIsMissing`, `MetricsAreComplete`, `WrittenAsAsked`, `LongRequestsAreLimited`, `EveryRequestIsAnswered` |
| `dataselect_error_text` | the same with a limit of 2 files | `ErrorsAreNotReported` does *not* hold |
| `event_queries` | 3 events with 7 versions, 24 good and 15 bad queries, 5 ids, 2 saves during a request | `AnswersAreTrue`, `AnswersAreBounded`, `EveryEventRequestIsAnswered` |
| `station_filter` | 2 requests, a tree of 3 networks, 4 stations, 4 channels, 21 good and 20 bad GET queries, 40 POST bodies | `AnswerIsTheUnion`, `ResponsesAreWhole`, `LevelOnlyTrims` |

Six of them check a type invariant `TypeOK` too, one for each module with state
of its own but the queue, whose variables are in those of the consumers.

Bounds, and why they are enough:

* `MaxReceives = 2`: one redelivery already lets a message be processed before
  and after any other; the real limit is a setting of the queue. A message
  is sent once; SQS's own duplicates look like an early `Expire`.
* `MaxRecords = 2`: a record that fails after one that was saved, and a struct
  that keeps the second record of a longer message.
* Two workers: locks and races are between pairs. Three messages give an
  update, a later one and something between or after them.
* One key in the holdings runs: statements concern one key, except for streams,
  which the two contents of one stream and the two workers contend for.
  Contents: two streams, a broken and an empty file.
* Three uploads: one that is served, one between the two calls of a tick, and
  one after it. Three seconds: uploads in the same and in different seconds.
* `MaxQueries = 2` and `MaxFiles = 1` stand for the two limits: there are bodies of
  more queries, and sets that exceed the limit together but not each alone,
  with the long one first and last. Times are six units, a day two and half an
  hour one, so that files start inside the margins, at them and beyond.
* The queries of `station_filter` combine each kind of condition with others
  in one POST, all levels, all six time modes, a box, a circle and a ring across
  the date line; each check of `parseStationV1` and of the lines of a POST has a
  query that fails it. The tree has childless nodes and codes that repeat across
  parents.
* `MaxSaves = 2` between a request and its answer: one save before and one after
  the count, of the same or of two events. `MaxEvents = 2` stands for 10,000,
  with three events that a save can bring in or take away. The events lie on
  both sides of the date line and of Greenwich, one moves across each, and each
  condition of the WHERE clause has a query on whose edge an event lies.

`SYMMETRY` is used in the two holdings runs without a violation: messages are
interchangeable there, and no liveness is checked.

### Where the code does something else than its comments say

Four runs each state what a comment says and end with a counterexample:

* `quake_race`: save's "a unique_violation means the new event info is older
  than in the table already" (`sc3ml.go:231`) is false when two workers insert
  a new event: the newer update can be dropped and acknowledged. One worker is
  enough to make it true, which `quake_one_worker` checks and
  `ViolationMeansOlder` proves.
* `quake_stale_records`: a text without `Records` should end in the DLQ
  (`main.go:167-169`), but the struct keeps the last message's records, which
  are processed again, and the message is deleted.
* `holdings_error_rows`: "the streamPK is updated on conflict" (holdings
  `main.go:98-102`), but rows of different streams do not conflict: a broken file
  gets its error row, is corrected, is saved under its stream, and the error row
  stays. For the same cause the good row of a file that broke or moved to another
  stream stays, which no property here takes for right.
* `dataselect_error_text`: errors after a 200 "will not be reported to the
  client" (`fdsn_dataselect.go:138`), but their text is written after the records.

Other limits are part of the statements of properties that hold:

* With two workers a removed object can stay searchable (`NoGhostHoldings` is
  for one). A failing read is recorded as a broken file, so `ObjectsAreIndexed` is
  for `ReadsFail = FALSE`, and for one worker. A removal that is processed after a
  later upload deletes the row of the newer object, so it is for objects in
  `settled`. Three messages are enough for a removal that has been processed and
  an upload after it; a removal left in the struct takes four, which only the
  theorem covers. Without the first two conditions a settled object still has a
  row, if only an error row (`ObjectsAreKnown`), and the searchable row of a file
  that has not changed stays, whatever reads fail (`UnchangedStaySearchable`).
* Boxes and circles that reach across Greenwich select too little: after the
  shift a box of -10 to 20 has its bounds the wrong way round and selects
  nothing, -180 to 180 selects events at 180 only, and a single bound means
  one side of Greenwich. `maxradius` without a point is not checked and selects
  nothing. `AnswersAreTrue` leaves all of these out (`ReadAsMeant`).
* Searches and fetches whose rows break off (`partial`) are answered as if they
  were complete.
* sc3ml serves deleted events, and answers 503 for an event that it does not
  have. No comment says otherwise.

### Fairness

* Quake consumer: each worker keeps polling and each call returns (`Progress`,
  weak fairness). Whether a call fails is left to chance, except that a fetch
  with nothing usable does fail. Restarts are never forced. Messages that are
  sent are sent in the end, and visibility timeouts end. No strong fairness is
  needed: deliveries are limited, so every message settles or is used up.
* Station cache: ticks go on and a process that ended is started again (weak).
  `Get` and `Load` have strong fairness: S3 does not fail, and the server does
  not crash, in the middle of every tick for ever. `UploadIsServed` further
  assumes that the server stays up, and a last upload that is good and whose
  time differs from those before it, because the code compares whole seconds.
* Dataselect: a running handler is scheduled, and its calls return or fail
  (the statement timeout, the SDK's retries). Weak fairness of the handler.
* Event service: the same. Saves may go on for ever; a request has two
  statements and no retries.

## Proofs

A theorem holds for any sets of workers, messages, keys, versions, streams and
requests, finite or not (but keys in `Dataselect` and events in `EventService`,
which are counted, are finite sets), and for all bounds; it assumes the `ASSUME` of
the modules, which say how constants are typed, for the theorems marked
*one worker* that `Workers` has at most one element (`SingleWorker`), and for the
one marked so that S3 returns the objects that are there.

| module | theorem | property |
|---|---|---|
| `QuakeConsumerProofs` | `TypeCorrect` | `TypeOK` |
| | `OneWriter` | `OneWriterPerEvent` |
| | `NoWaitCycle` | `BlockersGoOn` |
| | `NeverGoesBack` | `RowNeverGoesBack` |
| | `TableImplementation` | `ImplementsEventTable` |
| | `AckedIsKnown` | `AckedEventsAreKnown` |
| | `NothingAckedIsLost` (one worker) | `AckedMeansSaved` |
| | `ViolationMeansOlder` (one worker) | `UniqueViolationMeansOlder` |
| | `Implementation` (one worker) | `ImplementsLatestEvent` |
| `HoldingsConsumerProofs` | `TypeCorrect` | `TypeOK` |
| | `RowsAreFiled` | `RowsAreInTheirStream` |
| | `CreatedRecordsAreSaved` | `CreatedRecordHasRow` |
| | `ObjectsKnown` | `ObjectsAreKnown` |
| | `SearchableStay` | `UnchangedStaySearchable` |
| | `NoGhosts` (one worker) | `NoGhostHoldings` |
| | `ObjectsIndexed` (one worker, `ReadsFail = FALSE`) | `ObjectsAreIndexed` |
| `StationCacheProofs` | `TypeCorrect` | `TypeOK` |
| | `StampsAreSafe` | `StampNotAhead` |
| | `AnswersAreIsolated` | `AnswersAreWhole` |
| | `NeverGoesBack` | `ServedNeverGoesBack` |
| | `CacheImplementation` | `ImplementsServedMetadata` |
| `StationFilterProofs` | `FilterTypes` | `TypeOK` |
| | `FilterInvariant` | the inductive invariant |
| | `Union` | `AnswerIsTheUnion` |
| | `WholeResponses` | `ResponsesAreWhole` |
| | `LevelTrims` | `LevelOnlyTrims` |
| `EventServiceProofs` | `EventTypes` | `TypeOK` |
| | `TrueAnswers` | `AnswersAreTrue` |
| | `BoundedAnswers` | `AnswersAreBounded` |
| `DataselectProofs` | `DataselectTypes` | `TypeOK` |
| | `LongAreLimited` | `LongRequestsAreLimited` |
| | `OrderIsKept` | `WrittenAsAsked` |
| | `MetricsComplete` | `MetricsAreComplete` |
| | `NothingMissing` | `NothingIsMissing` |

**Quake consumer.** `SaveInv` is inductive for any number of workers. It adds
to the type invariant what a worker holds at each stage (`HandInv`: a version
exactly while it saves, a message exactly while it processes), what it may rely
on in the table (`RowInv`: a worker that has deleted the row, or waits for it,
is not older than the committed row; one that has inserted without deleting had
no row), and `OneWriterPerEvent`. The last two need each other: the row does
not move under a worker because no one else holds its key, and no one else gets
the key because locks are held until the transaction ends. So a commit only
ever replaces a row that is not newer, which gives `NeverGoesBack` and, step by
step, `TableImplementation`. `NoWaitCycle` is another consequence: whoever
holds what a worker waits for has done its own DELETE, and since it is the one
that holds the key, its INSERT waits for nobody.

`LoopInv` is about the loop over the records, also for any number of workers: a
worker is at a record of what it has decoded (`Decoded`), and what it is saving
is stored under that record, although the reused struct may have given the
record a version of an earlier message, one of its key's or none. On it rest the
two invariants of what is acknowledged. `KnownInv`: the events of the records
that a worker has got past (`DoneRecords`) have a row, since a record ends with a
commit or with the unique_violation that some row has caused, and no row
vanishes. `HeadInv`, with one worker: those records are reflected, because
nobody else can have brought in the row that an INSERT meets, so it is the one
the DELETE found newer. What is known or reflected stays so, because the table
never goes back. `Implementation` maps every step to `Record`, `Acknowledge` or
a stutter.

**Holdings consumer.** `IndexInv` is inductive for any number of workers: types,
what a worker holds (`HandInv`; at the second `saveHoldings` the stream is
there), that rows and holdings in hand are filed under the stream of their
content (`FiledInv`) and the length of texts (`TextInv`). `SearchableStay`
follows from it and from `SettledInv`: a settled key has an object and no
removal left (`RemovalIsLeft`: a worker deletes rows only at a removal that is),
so that nobody deletes its rows, and a save under a proper stream leaves a
searchable row, since errors are filed under the stream of empty codes.
`ObjectsKnown` needs `KnownInv`: an object without a row has a creation notice
that is `Pending`, that is in a message that is not deleted and, if a worker
holds the message, at a record the worker has not passed.

`NoGhostHoldings` is not inductive: a worker may be about to save an object that
has gone since, and a removal may already have been delivered. `GhostInv`
strengthens it: while an object is gone and its key is searchable *or in a
worker's hand*, a removal of it is `Pending`. `SourceInv` ties the records in the
struct to the text of the message. `ObjectsAreIndexed` is not inductive either: a
worker may hold a reading that an upload has outdated since, and is going to
save it over a row that is right. By `IndexedInv` a key is either indexed as it
is and no worker is about to change that (`SafelyIndexed`), or a creation notice
of it is pending and a worker that has read the object for that notice has read
what is there now (`Fresh`). An upload sends such a notice with it; a worker
that gets past it has saved the present content last. With two workers another
can save an outdated reading after that, and a failing read leaves an error row,
which is why the theorem needs its two hypotheses.

**Station cache.** `CacheInv`: S3's times do not go back (`UploadInv`), what the
updater holds is no older than what is served (`UpdaterInv`), `StampNotAhead`,
whole trees (`TreeInv`) and `AnswersAreWhole`. A stamp that is taken before the
download can only be too old, never too new. `CacheImplementation` takes the
steps one by one: an upload is `Offer` or, if it is broken, a stutter;
`StartLocal` and `Publish` are `Serve`, of a version that was offered and, by
`UpdaterInv`, is not older; `Crash` and `LoadPanics` are `Fail`; `Ask` is
`Answer`, since what is copied is a whole version (`TreeInv`), `Reply` is
`Finish`, and `DoFilter` changes nothing of the answer.

**Station filter.** `FilterInv` says for each request what its copy of the tree
is at each stage (`FilteredCopy`, `TrimmedCopy`) and that the shared Responses
keep their stages; a step of one request leaves the copies of the others alone.
The rest is about the recursion, which is three levels deep and needs no
induction: `StationOfSelected`, `SelectedKeepsNetwork` and `KeptNetworkSelects`
take what is kept to what single parameter sets select, `ChannelsSelected` and
`StationsSelected` add it up for the tree. `LevelTrims` rests on `Alike`:
parameter sets that differ in their levels only stay so when they are handed
down, and keep the same nodes. `SearchType` says that what `parseStationV1`
accepts is a parameter set. What `parseStationV1Post` returns is a fold over
the lines of a body; that it returns parameter sets is `PostAssumption`, which
TLC evaluates for the bodies of the run.

**Event service.** `EventInv` adds to the types that the current table is among
those `seen` while a request is underway (`RequestInv`), that at the fetch some
table of the request had between one and `MaxEvents` events to answer with
(`CountInv`), and the same of finished answers (`AnswerInv`). The rest is
arithmetic and counting. Where `ReadAsMeant` holds, the shifted comparison is
the way round the globe, for boxes and for distances, so that what the WHERE
clause selects is `Wanted`. What is selected from two tables differs only in
events that changed, and each of those adds at most one to the count, whatever
the number of saves.

**Dataselect.** `PlaceInv` says what the handler holds at each stage: which
index it is at, and that there is a current file while one is read.
`RequestInv`: each set is listed once, in turn, with keys that match it.
`LongRequestsAreLimited` needs that `gtHalfHour` remembers every long set, also
one that was skipped, and that the count is within the limit once a long set is
listed (`LimitInv`). For `WrittenAsAsked`, what is written is at or before the
current set, and of no key that is still to be fetched for it; while a file is
read, what was written of its key for this set is at the end of the body
(`OrderInv`). For `NothingIsMissing`, a key that did not change since the request
arrived and has a record in the window of a set already searched is in the list
of that set, by the margins of a day (`ListInv`); from then on each record of it
is still to be fetched, in the unread rest of the current file, or written
(`DeliveryInv`), and at the end only the last is left. The margin is where the
assumption that files are no longer than a day is used.

Only model-checked: the liveness properties (`EveryMessageSettles`,
`SavesFinish`, `UploadIsServed`, `EveryRequestIsAnswered`,
`EveryEventRequestIsAnswered`), which need ENABLED. That `ParsePost` returns parameter sets is an assumption (`ParseAssumption`)
which TLC evaluates for the bodies of the runs: it is a fold.

## Not modelled

* The XML and text layout of answers and their order, the columns of tables that
  no decision depends on, cache headers, templates and static pages, the types
  of StationXML, which are generated from its schema: data and configuration.
* xsltproc: only its result. A child that is not waited for after an error is
  listed as a hazard.
* The syntax of dates, patterns and public ids: only what they mean.
* Health checks and heartbeats, which are wall-clock limits.
* The local-path branch of `downloadStationXML`, there for debugging.
* Curvature: distances of events are those of the plane the code computes in.

## Plan

1. Done: queue, quake consumer with its abstract specification and proofs;
   holdings consumer with proofs; station cache with proofs; station filter with
   proofs; dataselect and metrics with proofs; event and sc3ml services, on top
   of the abstract specification of the quake consumer, with proofs.
2. `HoldingsIndex`, an abstract specification of the holdings consumer (a map
   from keys to what searches see, in place of rows of streams), and `Dataselect`
   on top of it, as `EventService` is on top of `LatestEvent`.
3. `StationFilter` on top of `ServedMetadata`, its tree a version that was served,
   in place of the set of networks.
