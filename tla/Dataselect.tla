----------------------------- MODULE Dataselect ----------------------------
(***************************************************************************)
(* cmd/fdsn-ws: a dataselect query.  The handler parses a GET query or the *)
(* lines of a POST body, looks for files in the holdings index once for    *)
(* each parameter set, and then, file after file, asks S3 whether the file *)
(* exists, fetches it, and streams the records in the time window to the   *)
(* client.  Meanwhile files are replaced and removed, and the holdings     *)
(* consumer follows them in the index some time later.  The metrics        *)
(* handler takes the same requests and answers with what the index says of *)
(* the files, without fetching them.                                       *)
(*                                                                         *)
(* Requests share nothing that they write, so one at a time is modelled.   *)
(* A step is one call to the database, to S3 or to the client.             *)
(***************************************************************************)
EXTENDS Integers, Sequences, FiniteSets

LOCAL INSTANCE SequencesExt

CONSTANTS
  Keys,         (* of miniSEED files in the bucket                         *)
  Streams,      (* the streams (network, station, location, channel)       *)
  NetworkOf,    (* the network of a stream                                 *)
  StreamOf,     (* the stream of the files that are put under a key        *)
  Files,        (* what a file can hold: a sequence of records             *)
  Garbled,      (* a record that does not parse, or is short               *)
  Absent,       (* no object under the key                                 *)
  NoRow,        (* no row of the index, or one with error_data             *)
  NoKey,        (* the handler is not fetching                             *)
  MaxTime,      (* bound on times, in half hours say                       *)
  HalfHour, Day,(* 30 minutes and 24 hours, in the same unit               *)
  Gets,         (* the GET queries considered                              *)
  Posts,        (* the POST bodies considered                              *)
  MaxQueries,   (* MAX_QUERIES                                             *)
  MaxFiles,     (* MAX_FILES                                               *)
  MaxChanges    (* bound on changes of bucket and index during a request   *)

Time == 0 .. MaxTime
Record == [from: Time, to: Time]

(* One parameter set: how its network pattern relates to NZ and IU, the    *)
(* streams that its other patterns match, whether GenRegex refuses it, and *)
(* whether WillBeEmpty says that no code is written that way.              *)
Query == [network: {"NZ", "IU SNZO", "any", "other"}, streams: SUBSET Streams,
          valid: BOOLEAN, hopeless: BOOLEAN, start: Time, end: Time]
Param == [query: Query, noData: {204, 404}]

(* A line of a POST body: six fields, nodata=..., or neither.              *)
QueryLine == [kind: {"query"}, query: Query]
Line == QueryLine \cup [kind: {"nodata"}, code: {204, 404, 500}] \cup [kind: {"junk"}]

(* Files are at most a day long, counted from their first record.          *)
ASSUME DataAssumption ==
  /\ MaxTime \in Nat /\ HalfHour \in Nat /\ Day \in Nat
  /\ MaxQueries \in Nat \ {0} /\ MaxFiles \in Nat /\ MaxChanges \in Nat
  /\ NetworkOf \in [Streams -> {"NZ", "IU"}]
  /\ IsFiniteSet(Keys) /\ StreamOf \in [Keys -> Streams]
  /\ Files \subseteq Seq(Record \cup {Garbled})
  /\ Absent \notin Files /\ NoRow \notin Time /\ NoKey \notin Keys
  /\ Gets \subseteq Param /\ Posts \subseteq Seq(Line)
  /\ \A f \in Files : \A n \in DOMAIN f :
       f[1] # Garbled /\ f[n] # Garbled =>
         f[1].from <= f[n].from /\ f[n].to <= f[1].from + Day

VARIABLES
  object,       (* the bucket                                              *)
  row,          (* start_time of the key's row in the holdings index       *)
  touched,      (* the keys that changed since the request arrived         *)
  changes,      (* how often                                               *)
  pc,           (* where the handler is                                    *)
  service,      (* whose handler it is                                     *)
  params,       (* the parameter sets                                      *)
  i,            (* the one it looks for                                    *)
  gtHalfHour,   (* it has seen one longer than half an hour                *)
  files,        (* how many files it has found                             *)
  request,      (* the parameter sets that it fetches, with their keys     *)
  partial,      (* the rows of a search broke off, which is not noticed    *)
  j,            (* the one it fetches                                      *)
  key,          (* the file it fetches                                     *)
  buf,          (* the records of the file that it has not looked at       *)
  body,         (* the records it has written: for which set, from where   *)
  page,         (* an error text follows them                              *)
  status,       (* the status the client sees, 0 for none yet              *)
  returned      (* the status the handler returned, 200 for no error       *)

bucketVars == <<object, row, touched, changes>>
searchVars == <<service, params, i, gtHalfHour, files, request, partial>>
fetchVars == <<j, key, buf>>
replyVars == <<body, page, status, returned>>
vars == <<bucketVars, pc, searchVars, fetchVars, replyVars>>

Statuses == {0, 200, 204, 400, 404, 405, 413, 500}
Item == [param: 1 .. MaxQueries, keys: SUBSET Keys]
Written == [param: 1 .. MaxQueries, key: Keys, record: Record]

TypeOK ==
  /\ object \in [Keys -> Files \cup {Absent}]
  /\ row \in [Keys -> Time \cup {NoRow}]
  /\ touched \subseteq Keys /\ changes \in 0 .. MaxChanges
  /\ pc \in {"ready", "search", "exists", "get", "write", "done"}
  /\ service \in {"dataselect", "metrics"}
  /\ params \in Seq(Param) /\ Len(params) <= MaxQueries
  /\ i \in 1 .. Len(params) + 1
  /\ gtHalfHour \in BOOLEAN /\ files \in Nat
  /\ request \in Seq(Item) /\ Len(request) <= Len(params)
  /\ partial \in BOOLEAN
  /\ j \in 1 .. Len(request) + 1
  /\ key \in Keys \cup {NoKey} /\ buf \in Seq(Record \cup {Garbled})
  /\ body \in Seq(Written) /\ page \in BOOLEAN
  /\ status \in Statuses /\ returned \in Statuses

-----------------------------------------------------------------------------
(* The bucket, and the index as the holdings consumer writes it            *)

StartOf(f) ==
  IF f = <<>> \/ \E n \in DOMAIN f : f[n] = Garbled THEN NoRow ELSE f[1].from
Row(k) == IF object[k] = Absent THEN NoRow ELSE StartOf(object[k])

Init ==
  /\ object \in [Keys -> Files \cup {Absent}]
  /\ row = [k \in Keys |-> Row(k)]
  /\ touched = {} /\ changes = 0
  /\ pc = "ready" /\ service = "dataselect"
  /\ params = <<>> /\ i = 1 /\ gtHalfHour = FALSE /\ files = 0 /\ request = <<>>
  /\ partial = FALSE /\ j = 1 /\ key = NoKey /\ buf = <<>>
  /\ body = <<>> /\ page = FALSE /\ status = 0 /\ returned = 0

Touch(k) ==
  /\ changes < MaxChanges
  /\ changes' = changes + 1
  /\ touched' = touched \cup {k}
  /\ UNCHANGED <<pc, searchVars, fetchVars, replyVars>>

ReplaceObject(k, f) ==
  /\ object[k] # f
  /\ object' = [object EXCEPT ![k] = f]
  /\ UNCHANGED row
  /\ Touch(k)

(* The index catches up with the bucket.  The row that a file leaves when  *)
(* it is replaced by a broken one (HoldingsConsumer, CorrectedErrorsMove)  *)
(* is one that has not caught up.                                          *)
IndexObject(k) ==
  /\ row[k] # Row(k)
  /\ row' = [row EXCEPT ![k] = Row(k)]
  /\ UNCHANGED object
  /\ Touch(k)

-----------------------------------------------------------------------------
(* The end of a request                                                    *)

(* A record that was written has sent the header.  fdsnErrorHandler puts   *)
(* the error text in a buffer, except for 204 and 404, and weft writes the *)
(* buffer to the same ResponseWriter, after whatever was written before.   *)
FailWith(code, paged) ==
  /\ pc' = "done"
  /\ returned' = code
  /\ status' = IF body = <<>> THEN code ELSE 200
  /\ page' = paged
  /\ UNCHANGED <<bucketVars, searchVars, fetchVars, body>>

Fail(code) == FailWith(code, code \notin {204, 404})

(* The errors of the metrics handler, for which weft.TextError has texts.  *)
TextError(code) == FailWith(code, code \notin {204, 413})

Succeed ==
  /\ pc' = "done"
  /\ returned' = 200 /\ status' = 200
  /\ UNCHANGED <<bucketVars, searchVars, fetchVars, body, page>>

(* The next request: nothing of this one is left.                          *)
Finish ==
  /\ pc = "done"
  /\ pc' = "ready"
  /\ touched' = {} /\ changes' = 0
  /\ service' = "dataselect"
  /\ params' = <<>> /\ i' = 1 /\ gtHalfHour' = FALSE /\ files' = 0 /\ request' = <<>>
  /\ partial' = FALSE /\ j' = 1 /\ key' = NoKey /\ buf' = <<>>
  /\ body' = <<>> /\ page' = FALSE /\ status' = 0 /\ returned' = 0
  /\ UNCHANGED <<object, row>>

-----------------------------------------------------------------------------
(* Parsing                                                                 *)

(* ParseDataSelectPost: a nodata line holds for the lines that follow it,  *)
(* and the first line that is neither ends the parsing with an error.      *)
ReadLine(line, p) ==
  CASE ~p.ok -> p
    [] line.kind = "nodata" -> [p EXCEPT !.noData = line.code,
                                         !.ok = line.code \in {204, 404}]
    [] line.kind = "query" ->
         [p EXCEPT !.params = Append(@, [query |-> line.query, noData |-> p.noData])]
    [] OTHER -> [p EXCEPT !.ok = FALSE]
ParsePost(lines) ==
  FoldLeft(LAMBDA p, line : ReadLine(line, p),
           [ok |-> TRUE, noData |-> 204, params |-> <<>>], lines)

(* What the fold yields of the bodies considered, which the proofs take    *)
(* from here: they do not reach what a fold computes.                      *)
ASSUME ParseAssumption ==
  \A lines \in Posts : ParsePost(lines).ok => ParsePost(lines).params \in Seq(Param)

Begin(s, ps) ==
  /\ pc' = "search"
  /\ service' = s
  /\ params' = ps
  /\ UNCHANGED <<bucketVars, i, gtHalfHour, files, request, partial, fetchVars,
                 replyVars>>

Get(p) == pc = "ready" /\ Begin("dataselect", <<p>>)

Post(lines) ==
  LET parsed == ParsePost(lines) IN
  /\ pc = "ready"
  /\ IF ~parsed.ok \/ parsed.params = <<>> THEN Fail(400)
     ELSE IF Len(parsed.params) > MaxQueries THEN Fail(413)
     ELSE Begin("dataselect", parsed.params)

(* A GET query that is not understood, or another method.                  *)
Reject(code) == pc = "ready" /\ code \in {400, 405} /\ Fail(code)

-----------------------------------------------------------------------------
(* Searching the index                                                     *)

(* Networks other than NZ are passed over, except for the exact IU SNZO.   *)
Accepted(q) == q.network # "other" /\ ~q.hopeless

Matches(q, s) ==
  /\ s \in q.streams
  /\ \/ q.network \in {"any", "other"}
     \/ q.network = "NZ" /\ NetworkOf[s] = "NZ"
     \/ q.network = "IU SNZO" /\ NetworkOf[s] = "IU"

(* Mutant of InWindow: only files that start in the window itself.         *)
InWindowOnly(q, t) == q.start <= t /\ t <= q.end

InWindow(q, t) == q.start - Day <= t /\ t <= q.end + Day

holdingsSearch(q) ==
  {k \in Keys : row[k] # NoRow /\ Matches(q, StreamOf[k]) /\ InWindow(q, row[k])}

IsLong(q) == q.end - q.start > HalfHour

(* Mutant of TooMany: the limit is tested before the files are counted, as *)
(* the metrics handler does.                                               *)
TooManyBefore(n, long) == files > MaxFiles /\ long

TooMany(n, long) == n > MaxFiles /\ long

(* The parameter set in turn.  What it asks for is skipped or refused, or  *)
(* its files are added, unless with them there are too many and one of the *)
(* sets so far is for more than half an hour.                              *)
AtParam == pc = "search" /\ service = "dataselect" /\ i <= Len(params)
Turn == params[i].query
LongSoFar == gtHalfHour \/ IsLong(Turn)

Refuse ==
  /\ AtParam
  /\ ~Turn.valid \/ Turn.end <= Turn.start
  /\ Fail(400)

Skip ==
  /\ AtParam
  /\ Turn.valid /\ Turn.end > Turn.start /\ ~Accepted(Turn)
  /\ i' = i + 1
  /\ gtHalfHour' = LongSoFar
  /\ UNCHANGED <<bucketVars, pc, service, params, files, request, partial, fetchVars, replyVars>>

(* The loop over rows.Next ends after the last row and when the connection *)
(* or the statement timeout breaks the rows off: nothing asks rows.Err.    *)
Search(keys) ==
  LET found == files + Cardinality(keys) IN
  /\ AtParam
  /\ Turn.valid /\ Turn.end > Turn.start /\ Accepted(Turn)
  /\ keys \subseteq holdingsSearch(Turn)
  /\ IF TooMany(found, LongSoFar)
     THEN Fail(413)
     ELSE /\ files' = found
          /\ request' = Append(request, [param |-> i, keys |-> keys])
          /\ partial' = (partial \/ keys # holdingsSearch(Turn))
          /\ gtHalfHour' = LongSoFar
          /\ i' = i + 1
          /\ UNCHANGED <<bucketVars, pc, service, params, fetchVars, replyVars>>

SearchFails ==
  /\ AtParam
  /\ Turn.valid /\ Turn.end > Turn.start /\ Accepted(Turn)
  /\ Fail(500)

(* All parameter sets searched for: the code for no data is the first's.   *)
Searched ==
  /\ pc = "search" /\ service = "dataselect" /\ i > Len(params)
  /\ IF files = 0
     THEN Fail(params[1].noData)
     ELSE /\ pc' = "exists"
          /\ UNCHANGED <<bucketVars, searchVars, fetchVars, replyVars>>

-----------------------------------------------------------------------------
(* Fetching                                                                *)

(* Mutant of NextItem: one more turn than there are sets.                  *)
NextItemUnchecked ==
  /\ pc = "exists"
  /\ j > Len(request) \/ request[j].keys = {}
  /\ j' = j + 1
  /\ UNCHANGED <<bucketVars, pc, searchVars, key, buf, replyVars>>

NextItem ==
  /\ pc = "exists" /\ j <= Len(request)
  /\ request[j].keys = {}
  /\ j' = j + 1
  /\ UNCHANGED <<bucketVars, pc, searchVars, key, buf, replyVars>>

(* An object that is gone is passed over.  The keys that are left of a     *)
(* parameter set shrink as they are fetched, in whatever order.            *)
Exists(k) ==
  /\ pc = "exists" /\ j <= Len(request)
  /\ k \in request[j].keys
  /\ request' = [request EXCEPT ![j].keys = @ \ {k}]
  /\ IF object[k] = Absent
     THEN UNCHANGED <<pc, key>>
     ELSE pc' = "get" /\ key' = k
  /\ UNCHANGED <<bucketVars, service, params, i, gtHalfHour, files, partial, j, buf,
                 replyVars>>

ExistsFails ==
  /\ pc = "exists" /\ j <= Len(request)
  /\ request[j].keys # {}
  /\ Fail(500)

(* An object that is gone since is an error, as one that cannot be read.   *)
GetObject ==
  /\ pc = "get"
  /\ object[key] # Absent
  /\ buf' = object[key]
  /\ pc' = "write"
  /\ UNCHANGED <<bucketVars, searchVars, j, key, replyVars>>

GetFails == pc = "get" /\ Fail(500)

(* Mutant of Overlaps: all of the file.                                    *)
OverlapsAny(q, r) == TRUE

Overlaps(q, r) == r.from < q.end /\ r.to > q.start

InTurn == request[j].param

(* Mutant of EndOfFile: io.EOF is not told from a record.                  *)
EndOfFileUnseen ==
  /\ pc = "write" /\ buf = <<>>
  /\ UNCHANGED vars

EndOfFile ==
  /\ pc = "write" /\ buf = <<>>
  /\ pc' = "exists"
  /\ key' = NoKey
  /\ UNCHANGED <<bucketVars, searchVars, j, buf, replyVars>>

Write ==
  /\ pc = "write" /\ buf # <<>> /\ Head(buf) # Garbled
  /\ buf' = Tail(buf)
  /\ IF Overlaps(params[InTurn].query, Head(buf))
     THEN /\ body' = Append(body, [param |-> InTurn, key |-> key, record |-> Head(buf)])
          /\ status' = 200
     ELSE UNCHANGED <<body, status>>
  /\ UNCHANGED <<bucketVars, pc, searchVars, j, key, page, returned>>

ReadFails ==
  /\ pc = "write" /\ buf # <<>> /\ Head(buf) = Garbled
  /\ Fail(500)

(* The client is gone: nothing more reaches it, the error text neither.    *)
WriteFails ==
  /\ pc = "write" /\ buf # <<>> /\ Head(buf) # Garbled
  /\ Overlaps(params[InTurn].query, Head(buf))
  /\ pc' = "done"
  /\ returned' = 500
  /\ UNCHANGED <<bucketVars, searchVars, fetchVars, body, page, status>>

(* Nothing written is 204, whatever code for no data was asked for.        *)
Fetched ==
  /\ pc = "exists" /\ j > Len(request)
  /\ IF body = <<>> THEN Fail(204) ELSE Succeed

-----------------------------------------------------------------------------
(* Metrics of the files                                                    *)

MetricsGet(p) == pc = "ready" /\ Begin("metrics", <<p>>)

(* An empty body is not refused here.                                      *)
MetricsPost(lines) ==
  LET parsed == ParsePost(lines) IN
  /\ pc = "ready"
  /\ IF ~parsed.ok THEN TextError(400)
     ELSE IF Len(parsed.params) > MaxQueries THEN TextError(413)
     ELSE Begin("metrics", parsed.params)

(* The search does not leave out rows with error_data, but these have the  *)
(* zero time as their start, in no window.                                 *)
metricsSearch(q) == holdingsSearch(q)

AtMetrics == pc = "search" /\ service = "metrics" /\ i <= Len(params)

MetricsRefuse ==
  /\ AtMetrics /\ ~Turn.valid
  /\ TextError(400)

(* Neither the network nor the times are looked at, and the limit is       *)
(* tested before the rows are added, whatever the times are.               *)
MetricsSearch(keys) ==
  /\ AtMetrics /\ Turn.valid
  /\ keys \subseteq metricsSearch(Turn)
  /\ IF files > MaxFiles
     THEN TextError(413)
     ELSE /\ files' = files + Cardinality(keys)
          /\ request' = Append(request, [param |-> i, keys |-> keys])
          /\ partial' = (partial \/ keys # metricsSearch(Turn))
          /\ i' = i + 1
          /\ UNCHANGED <<bucketVars, pc, service, params, gtHalfHour, fetchVars, replyVars>>

MetricsFail ==
  /\ AtMetrics /\ Turn.valid
  /\ TextError(500)

(* The rows are the body.  Of an empty POST there is no first parameter    *)
(* set: the handler panics, and the client gets no answer.                 *)
MetricsSearched ==
  /\ pc = "search" /\ service = "metrics" /\ i > Len(params)
  /\ IF params = <<>>
     THEN /\ pc' = "done"
          /\ UNCHANGED <<bucketVars, searchVars, fetchVars, replyVars>>
     ELSE IF files = 0 THEN TextError(params[1].noData)
     ELSE Succeed

(* json.Marshal refuses the rows.                                          *)
MetricsMarshalFails ==
  /\ pc = "search" /\ service = "metrics" /\ i > Len(params)
  /\ files # 0
  /\ TextError(500)

-----------------------------------------------------------------------------
Environment ==
  \E k \in Keys : (\E f \in Files \cup {Absent} : ReplaceObject(k, f)) \/ IndexObject(k)

Arrive ==
  \/ (\E p \in Gets : Get(p)) \/ (\E lines \in Posts : Post(lines))
  \/ (\E p \in Gets : MetricsGet(p)) \/ (\E lines \in Posts : MetricsPost(lines))
  \/ (\E code \in {400, 405} : Reject(code))

Handler ==
  \/ Refuse \/ Skip \/ (\E keys \in SUBSET Keys : Search(keys)) \/ SearchFails \/ Searched
  \/ NextItem \/ (\E k \in Keys : Exists(k)) \/ ExistsFails
  \/ GetObject \/ GetFails
  \/ EndOfFile \/ Write \/ ReadFails \/ WriteFails \/ Fetched
  \/ MetricsRefuse \/ (\E keys \in SUBSET Keys : MetricsSearch(keys)) \/ MetricsFail
  \/ MetricsSearched \/ MetricsMarshalFails

Next == Environment \/ Arrive \/ Handler \/ Finish

Spec == Init /\ [][Next]_vars

(* A handler that runs is scheduled, and its calls return or time out.     *)
FairSpec == Spec /\ WF_vars(Handler)

-----------------------------------------------------------------------------
(* Properties                                                              *)

(* The 24 hours that holdingsSearch adds, the filter on records and the    *)
(* limits work together: when the handler returns no error, every record   *)
(* of every accepted parameter set has been written, if its file was in    *)
(* the index and did not change while the request was served, and if the   *)
(* rows of no search broke off.                                            *)
Due(n, k) ==
  /\ k \notin touched /\ object[k] # Absent /\ row[k] = Row(k)
  /\ row[k] # NoRow
  /\ Accepted(params[n].query) /\ Matches(params[n].query, StreamOf[k])

NothingIsMissing ==
  pc = "done" /\ service = "dataselect" /\ returned \in {200, 204, 404} /\ ~partial =>
    \A n \in DOMAIN params, k \in Keys : Due(n, k) =>
      \A m \in DOMAIN object[k] :
        Overlaps(params[n].query, object[k][m]) =>
          \E b \in DOMAIN body : body[b] = [param |-> n, key |-> k, record |-> object[k][m]]

(* The metrics of every file with a record in the window are in the        *)
(* answer, whatever the network is.                                        *)
MetricsAreComplete ==
  pc = "done" /\ service = "metrics" /\ returned \in {200, 204, 404} /\ ~partial =>
    \A n \in DOMAIN params, k \in Keys \ touched :
      /\ row[k] # NoRow /\ row[k] = Row(k) /\ Matches(params[n].query, StreamOf[k])
      /\ \E m \in DOMAIN object[k] : Overlaps(params[n].query, object[k][m])
      => \E x \in DOMAIN request : request[x].param = n /\ k \in request[x].keys

(* Records are written "in the same order they were requested" and each    *)
(* is one that its parameter set asks for, whatever the bucket does in     *)
(* between; the file of a key is written in one piece.                     *)
WrittenAsAsked ==
  /\ \A b \in DOMAIN body :
       /\ Matches(params[body[b].param].query, StreamOf[body[b].key])
       /\ body[b].record.from < params[body[b].param].query.end
       /\ body[b].record.to > params[body[b].param].query.start
  /\ \A a, b \in DOMAIN body : a < b =>
       /\ body[a].param <= body[b].param
       /\ body[a].param = body[b].param /\ body[a].key = body[b].key =>
            \A x \in a .. b : body[x].key = body[a].key

(* "Limit the number of input files": when one of the sets to be fetched   *)
(* is for more than half an hour, no more than MAX_FILES are fetched.      *)
LongRequestsAreLimited ==
  pc \in {"exists", "get", "write"} =>
    ((\E n \in DOMAIN request : IsLong(params[request[n].param].query)) =>
       files <= MaxFiles)

(* The handlers finish every request and return something to answer it     *)
(* with, but for the panic after an empty POST for metrics.                *)
EveryRequestIsAnswered ==
  pc = "search" ~> (pc = "done" /\ (returned # 0 \/ (service = "metrics" /\ params = <<>>)))

(* "a 200 can still be followed by errors which will not be reported to    *)
(* the client" (fdsnDataselectV1Handler): a client that sees 200 gets      *)
(* records and nothing else.                                               *)
ErrorsAreNotReported == status = 200 => ~page

=============================================================================
