-------------------------- MODULE DataselectProofs -------------------------
(***************************************************************************)
(* Proofs about Dataselect: whatever the files, the queries, the limits    *)
(* and the changes of bucket and index during a request are, no record     *)
(* that is due is missing from an answer, what is written was asked for    *)
(* and comes in order, and long requests are limited.                      *)
(***************************************************************************)
EXTENDS Dataselect, FiniteSetTheorems, SequenceTheorems, TLAPS

-----------------------------------------------------------------------------
(* Steps                                                                   *)

(* The handler gives up: nothing of the request changes any more.          *)
Failed ==
  /\ pc' = "done" /\ returned' \in {400, 405, 413, 500}
  /\ status' \in {status, 400, 405, 413, 500} \cup {200} /\ page' \in BOOLEAN
  /\ UNCHANGED <<object, row, touched, changes, service, params, i, gtHalfHour,
                 files, request, partial, j, key, buf, body>>

Begun(s, ps) ==
  /\ pc = "ready" /\ s \in {"dataselect", "metrics"}
  /\ ps \in Seq(Param) /\ Len(ps) <= MaxQueries /\ (ps = <<>> => s = "metrics")
  /\ Begin(s, ps)

(* A search that succeeds and is within the limit.                         *)
Listed(keys) ==
  /\ i' = i + 1
  /\ files' = files + Cardinality(keys)
  /\ request' = Append(request, [param |-> i, keys |-> keys])
  /\ UNCHANGED <<object, row, touched, changes, pc, service, params, j, key, buf,
                 body, page, status, returned>>
Added(keys) ==
  /\ AtParam /\ Accepted(Turn) /\ keys \subseteq holdingsSearch(Turn)
  /\ ~TooMany(files', gtHalfHour')
  /\ gtHalfHour' = LongSoFar
  /\ partial' = (partial \/ keys # holdingsSearch(Turn))
  /\ Listed(keys)
MetricsAdded(keys) ==
  /\ AtMetrics /\ keys \subseteq holdingsSearch(Turn)
  /\ partial' = (partial \/ keys # holdingsSearch(Turn))
  /\ UNCHANGED gtHalfHour
  /\ Listed(keys)

Changes == \E k \in Keys : (\E f \in Files \cup {Absent} : ReplaceObject(k, f)) \/ IndexObject(k)

LEMMA FailFails ==
  ASSUME TypeOK, NEW code \in {400, 405, 413, 500}, Fail(code) \/ TextError(code)
  PROVE  Failed
<1>1. page' \in BOOLEAN
  <2>1. CASE Fail(code)
    BY <2>1, ZenonT(60) DEF Fail, FailWith
  <2>2. CASE TextError(code)
    BY <2>2, ZenonT(60) DEF TextError, FailWith
  <2> QED BY <2>1, <2>2
<1>2. /\ pc' = "done" /\ returned' = code /\ status' \in {code, 200}
      /\ UNCHANGED <<bucketVars, searchVars, fetchVars, body>>
  BY DEF Fail, TextError, FailWith
<1> QED BY <1>1, <1>2 DEF Failed, bucketVars, searchVars, fetchVars

LEMMA FailingSteps ==
  ASSUME TypeOK,
         \/ \E code \in {400, 405} : Reject(code)
         \/ Refuse \/ SearchFails \/ ExistsFails \/ GetFails \/ ReadFails \/ WriteFails
         \/ MetricsRefuse \/ MetricsFail \/ MetricsMarshalFails
  PROVE  Failed
<1>1. ASSUME \E code \in {400, 405, 500} : Fail(code) \/ TextError(code)
      PROVE  Failed
  BY <1>1, FailFails
<1>2. ASSUME WriteFails
      PROVE  Failed
  BY <1>2 DEF WriteFails, Failed, bucketVars, searchVars, fetchVars, TypeOK
<1> QED BY <1>1, <1>2 DEF Reject, Refuse, SearchFails, ExistsFails, GetFails, ReadFails,
                         MetricsRefuse, MetricsFail, MetricsMarshalFails

LEMMA ArrivingSteps ==
  ASSUME TypeOK, Arrive
  PROVE  Failed \/ \E s \in {"dataselect", "metrics"} : \E ps \in Seq(Param) : Begun(s, ps)
<1> DEFINE Starts == \E s \in {"dataselect", "metrics"} : \E ps \in Seq(Param) : Begun(s, ps)
<1>1. ASSUME NEW p \in Gets, Get(p) \/ MetricsGet(p)
      PROVE  Starts
  <2>1. p \in Param /\ 1 <= MaxQueries /\ MaxQueries \in Nat
    BY DataAssumption
  <2>2. <<p>> \in Seq(Param) /\ Len(<<p>>) = 1 /\ <<p>> # <<>>
    BY <2>1
  <2> QED BY <1>1, <2>1, <2>2 DEF Get, MetricsGet, Begun
<1>2. ASSUME NEW lines \in Posts, Post(lines)
      PROVE  Failed \/ Starts
  <2> DEFINE parsed == ParsePost(lines)
  <2>1. CASE ~parsed.ok \/ parsed.params = <<>>
    BY <1>2, <2>1, FailFails DEF Post
  <2>2. CASE parsed.ok /\ parsed.params # <<>>
    <3>1. parsed.params \in Seq(Param)
      BY <2>2, ParseAssumption
    <3>2. Len(parsed.params) \in Nat /\ MaxQueries \in Nat
      BY <3>1, LenProperties, DataAssumption
    <3> HIDE DEF parsed
    <3>3. CASE Len(parsed.params) > MaxQueries
      BY <1>2, <2>2, <3>3, FailFails DEF Post, parsed
    <3>4. CASE Len(parsed.params) <= MaxQueries
      <4>1. pc = "ready" /\ Begin("dataselect", parsed.params)
        BY <1>2, <2>2, <3>2, <3>4 DEF Post, parsed
      <4> QED BY <2>2, <3>1, <3>4, <4>1 DEF Begun
    <3> QED BY <3>2, <3>3, <3>4
  <2> QED BY <2>1, <2>2
<1>3. ASSUME NEW lines \in Posts, MetricsPost(lines)
      PROVE  Failed \/ Starts
  <2> DEFINE parsed == ParsePost(lines)
  <2>1. CASE ~parsed.ok
    BY <1>3, <2>1, FailFails DEF MetricsPost
  <2>2. CASE parsed.ok
    <3>1. parsed.params \in Seq(Param)
      BY <2>2, ParseAssumption
    <3>2. Len(parsed.params) \in Nat /\ MaxQueries \in Nat
      BY <3>1, LenProperties, DataAssumption
    <3> HIDE DEF parsed
    <3>3. CASE Len(parsed.params) > MaxQueries
      BY <1>3, <2>2, <3>3, FailFails DEF MetricsPost, parsed
    <3>4. CASE Len(parsed.params) <= MaxQueries
      <4>1. pc = "ready" /\ Begin("metrics", parsed.params)
        BY <1>3, <2>2, <3>2, <3>4 DEF MetricsPost, parsed
      <4> QED BY <2>2, <3>1, <3>4, <4>1 DEF Begun
    <3> QED BY <3>2, <3>3, <3>4
  <2> QED BY <2>1, <2>2
<1>4. ASSUME NEW code \in {400, 405}, Reject(code)
      PROVE  Failed
  BY <1>4, FailingSteps
<1> QED BY <1>1, <1>2, <1>3, <1>4 DEF Arrive

LEMMA SearchingSteps ==
  ASSUME TypeOK, NEW keys \in SUBSET Keys
  PROVE  /\ Search(keys) => Failed \/ Added(keys)
         /\ MetricsSearch(keys) => Failed \/ MetricsAdded(keys)
<1>1. ASSUME Search(keys)
      PROVE  Failed \/ Added(keys)
  <2>1. CASE TooMany(files + Cardinality(keys), LongSoFar)
    BY <1>1, <2>1, FailFails DEF Search
  <2>2. CASE ~TooMany(files + Cardinality(keys), LongSoFar)
    BY <1>1, <2>2 DEF Search, Added, Listed, bucketVars, fetchVars, replyVars
  <2> QED BY <2>1, <2>2
<1>2. ASSUME MetricsSearch(keys)
      PROVE  Failed \/ MetricsAdded(keys)
  <2>1. CASE files > MaxFiles
    BY <1>2, <2>1, FailFails DEF MetricsSearch
  <2>2. CASE ~(files > MaxFiles)
    BY <1>2, <2>2 DEF MetricsSearch, metricsSearch, MetricsAdded, Listed,
                      bucketVars, fetchVars, replyVars
  <2> QED BY <2>1, <2>2
<1> QED BY <1>1, <1>2

(* The steps, with all ways to fail as one.                                *)
Step ==
  \/ Changes \/ Failed
  \/ \E s \in {"dataselect", "metrics"} : \E ps \in Seq(Param) : Begun(s, ps)
  \/ Skip \/ (\E keys \in SUBSET Keys : Added(keys)) \/ Searched
  \/ NextItem \/ (\E k \in Keys : Exists(k)) \/ GetObject \/ EndOfFile \/ Write \/ Fetched
  \/ (\E keys \in SUBSET Keys : MetricsAdded(keys)) \/ MetricsSearched
  \/ Finish

LEMMA Steps ==
  ASSUME TypeOK, Next
  PROVE  Step
<1>1. ASSUME Handler
      PROVE  Step
  BY <1>1, FailingSteps, SearchingSteps DEF Handler, Step
<1>2. ASSUME Arrive
      PROVE  Step
  BY <1>2, ArrivingSteps DEF Step
<1> QED BY <1>1, <1>2 DEF Next, Environment, Changes, Step

-----------------------------------------------------------------------------
(* Types                                                                   *)

(* What the handler holds at each stage.                                   *)
PlaceInv ==
  /\ pc # "done" => returned = 0
  /\ pc = "ready" =>
       /\ params = <<>> /\ i = 1 /\ gtHalfHour = FALSE /\ files = 0 /\ request = <<>>
       /\ partial = FALSE
  /\ pc \in {"ready", "search"} => j = 1 /\ body = <<>>
  /\ pc = "search" => Len(request) < i /\ (service = "dataselect" => params # <<>>)
  /\ pc \in {"exists", "get", "write"} => service = "dataselect" /\ params # <<>>
  /\ pc \in {"get", "write"} => j <= Len(request) /\ key \in Keys

LEMMA RowType ==
  ASSUME object \in [Keys -> Files \cup {Absent}], NEW k \in Keys
  PROVE  Row(k) \in Time \cup {NoRow}
<1>1. CASE Row(k) = NoRow
  BY <1>1
<1>2. CASE Row(k) # NoRow
  <2>1. object[k] \in Seq(Record \cup {Garbled})
    BY <1>2, DataAssumption DEF Row
  <2>2. object[k] # <<>> /\ (\A n \in DOMAIN object[k] : object[k][n] # Garbled)
        /\ Row(k) = object[k][1].from
    BY <1>2 DEF Row, StartOf
  <2>3. 1 \in DOMAIN object[k] /\ object[k][1] \in Record \cup {Garbled}
    BY <2>1, <2>2
  <2> QED BY <2>2, <2>3 DEF Record
<1> QED BY <1>1, <1>2

LEMMA NoDataType ==
  ASSUME TypeOK, params # <<>>
  PROVE  params[1].noData \in {204, 404}
<1>1. params[1] \in Param
  BY DEF TypeOK
<1> QED BY <1>1 DEF Param

LEMMA KeysAreCounted ==
  ASSUME NEW keys \in SUBSET Keys
  PROVE  Cardinality(keys) \in Nat /\ (Cardinality(keys) = 0 <=> keys = {})
BY DataAssumption, FS_Subset, FS_CardinalityType, FS_EmptySet

LEMMA InitTypes == Init => TypeOK /\ PlaceInv
<1> SUFFICES ASSUME Init
             PROVE  TypeOK /\ PlaceInv
  OBVIOUS
<1>1. object \in [Keys -> Files \cup {Absent}]
  BY DEF Init
<1>2. \A k \in Keys : Row(k) \in Time \cup {NoRow}
  BY <1>1, RowType
<1>3. /\ row \in [Keys -> Time \cup {NoRow}]
      /\ touched \subseteq Keys /\ changes \in 0 .. MaxChanges
  BY <1>2, DataAssumption DEF Init
<1>4. /\ pc = "ready" /\ service = "dataselect"
      /\ params = <<>> /\ i = 1 /\ gtHalfHour = FALSE /\ files = 0 /\ request = <<>>
      /\ partial = FALSE /\ j = 1 /\ key = NoKey /\ buf = <<>> /\ body = <<>>
      /\ page = FALSE /\ status = 0 /\ returned = 0
  BY DEF Init
<1>5. PlaceInv
  BY <1>4 DEF PlaceInv
<1>6. <<>> \in Seq(Param) /\ <<>> \in Seq(Item) /\ <<>> \in Seq(Written)
      /\ <<>> \in Seq(Record \cup {Garbled}) /\ Len(<<>>) = 0
  OBVIOUS
<1>7. /\ params \in Seq(Param) /\ request \in Seq(Item) /\ body \in Seq(Written)
      /\ buf \in Seq(Record \cup {Garbled})
  BY <1>4, <1>6
<1>8. /\ Len(params) <= MaxQueries /\ Len(request) <= Len(params)
      /\ i \in 1 .. Len(params) + 1 /\ j \in 1 .. Len(request) + 1
  BY <1>4, <1>6, DataAssumption
<1>9. TypeOK
  BY <1>1, <1>3, <1>4, <1>7, <1>8 DEF TypeOK, Statuses
<1> QED BY <1>5, <1>9

LEMMA ChangesTypes ==
  ASSUME TypeOK, PlaceInv, Changes
  PROVE  TypeOK' /\ PlaceInv'
<1>1. PICK k \in Keys : (\E f \in Files \cup {Absent} : ReplaceObject(k, f)) \/ IndexObject(k)
  BY DEF Changes
<1>2. Touch(k)
  BY <1>1 DEF ReplaceObject, IndexObject
<1>3. UNCHANGED <<pc, service, params, i, gtHalfHour, files, request, partial, j, key, buf,
                  body, page, status, returned>>
  BY <1>2 DEF Touch, searchVars, fetchVars, replyVars
<1>4. touched' \subseteq Keys /\ changes' \in 0 .. MaxChanges
  BY <1>2, DataAssumption DEF Touch, TypeOK
<1>5. object' \in [Keys -> Files \cup {Absent}]
  BY <1>1 DEF ReplaceObject, IndexObject, TypeOK
<1>6. row' \in [Keys -> Time \cup {NoRow}]
  <2>1. object \in [Keys -> Files \cup {Absent}] /\ row \in [Keys -> Time \cup {NoRow}]
    BY DEF TypeOK
  <2>2. Row(k) \in Time \cup {NoRow}
    BY <2>1, RowType
  <2> QED BY <1>1, <2>1, <2>2 DEF ReplaceObject, IndexObject
<1>7. PlaceInv'
  BY <1>3 DEF PlaceInv
<1> QED BY <1>3, <1>4, <1>5, <1>6, <1>7 DEF TypeOK

LEMMA FailedTypes ==
  ASSUME TypeOK, PlaceInv, Failed
  PROVE  TypeOK' /\ PlaceInv'
<1>1. status' \in Statuses /\ returned' \in Statuses
  BY DEF Failed, TypeOK, Statuses
<1>2. PlaceInv'
  BY DEF Failed, PlaceInv
<1> QED BY <1>1, <1>2 DEF Failed, TypeOK

LEMMA BegunTypes ==
  ASSUME TypeOK, PlaceInv,
         NEW s \in {"dataselect", "metrics"}, NEW ps \in Seq(Param), Begun(s, ps)
  PROVE  TypeOK' /\ PlaceInv'
<1>1. /\ pc' = "search" /\ service' = s /\ params' = ps
      /\ UNCHANGED <<object, row, touched, changes, i, gtHalfHour, files, request, partial,
                     j, key, buf, body, page, status, returned>>
  BY DEF Begun, Begin, bucketVars, fetchVars, replyVars
<1>2. /\ i = 1 /\ j = 1 /\ request = <<>> /\ body = <<>>
  BY DEF PlaceInv, Begun
<1>3. Len(ps) \in Nat /\ Len(ps) <= MaxQueries /\ Len(<<>>) = 0
  BY DEF Begun
<1>4. PlaceInv'
  BY <1>1, <1>2, <1>3 DEF PlaceInv, Begun
<1>5. i' \in 1 .. Len(params') + 1 /\ Len(request') <= Len(params') /\ Len(params') <= MaxQueries
  BY <1>1, <1>2, <1>3
<1> QED BY <1>1, <1>4, <1>5 DEF TypeOK

LEMMA ListedTypes ==
  ASSUME TypeOK, PlaceInv, NEW keys \in SUBSET Keys, Added(keys) \/ MetricsAdded(keys)
  PROVE  TypeOK' /\ PlaceInv'
<1>1. /\ pc = "search" /\ i \in 1 .. Len(params) /\ i' = i + 1
      /\ files' = files + Cardinality(keys)
      /\ request' = Append(request, [param |-> i, keys |-> keys])
      /\ UNCHANGED <<object, row, touched, changes, pc, service, params, j, key, buf,
                     body, page, status, returned>>
  BY DEF Added, MetricsAdded, Listed, AtParam, AtMetrics, TypeOK
<1>2. /\ files \in Nat /\ request \in Seq(Item) /\ Len(params) \in Nat
      /\ Len(params) <= MaxQueries /\ j = 1 /\ Len(request) < i /\ Len(request) \in Nat
      /\ body = <<>>
  BY <1>1 DEF TypeOK, PlaceInv
<1>3. [param |-> i, keys |-> keys] \in Item
  BY <1>1, <1>2, DataAssumption DEF Item
<1>4. request' \in Seq(Item) /\ Len(request') = Len(request) + 1
  BY <1>1, <1>2, <1>3
<1>5. files' \in Nat
  BY <1>1, <1>2, KeysAreCounted
<1>6. gtHalfHour' \in BOOLEAN
  <2>1. CASE Added(keys)
    BY <2>1, Zenon DEF Added, LongSoFar
  <2>2. CASE MetricsAdded(keys)
    BY <2>2 DEF MetricsAdded, TypeOK
  <2> QED BY <2>1, <2>2
<1>7. partial' \in BOOLEAN
  BY Zenon DEF Added, MetricsAdded
<1>8. /\ i' \in 1 .. Len(params) + 1 /\ Len(request') <= Len(params)
      /\ j' \in 1 .. Len(request') + 1 /\ Len(request') < i'
  BY <1>1, <1>2, <1>4
<1>9. PlaceInv'
  BY <1>1, <1>2, <1>8 DEF PlaceInv
<1> QED BY <1>1, <1>4, <1>5, <1>6, <1>7, <1>8, <1>9 DEF TypeOK

LEMMA SkipTypes ==
  ASSUME TypeOK, PlaceInv, Skip
  PROVE  TypeOK' /\ PlaceInv'
<1>1. /\ pc = "search" /\ i \in 1 .. Len(params) /\ i' = i + 1
      /\ UNCHANGED <<object, row, touched, changes, pc, service, params, files, request,
                     partial, j, key, buf, body, page, status, returned>>
  BY DEF Skip, AtParam, TypeOK, bucketVars, fetchVars, replyVars
<1>2. gtHalfHour' \in BOOLEAN
  BY Zenon DEF Skip, LongSoFar
<1>3. Len(params) \in Nat /\ Len(request) \in Nat /\ i' \in 1 .. Len(params) + 1
      /\ Len(request) < i'
  BY <1>1 DEF TypeOK, PlaceInv
<1>4. PlaceInv'
  BY <1>1, <1>3 DEF PlaceInv
<1> QED BY <1>1, <1>2, <1>3, <1>4 DEF TypeOK

(* An answer is a failure with a code of its own, or a success.            *)
Ended ==
  /\ pc' = "done" /\ returned' \in {0, 200, 204, 404}
  /\ status' \in {status, 200, 204, 404} /\ page' \in BOOLEAN
  /\ UNCHANGED <<object, row, touched, changes, service, params, i, gtHalfHour,
                 files, request, partial, j, key, buf, body>>

LEMMA EndedTypes ==
  ASSUME TypeOK, PlaceInv, Ended
  PROVE  TypeOK' /\ PlaceInv'
<1>1. status' \in Statuses /\ returned' \in Statuses
  BY DEF Ended, TypeOK, Statuses
<1>2. PlaceInv'
  BY DEF Ended, PlaceInv
<1> QED BY <1>1, <1>2 DEF Ended, TypeOK

LEMMA EndingSteps ==
  ASSUME TypeOK, PlaceInv
  PROVE  /\ Searched => Ended \/ pc' = "exists"
         /\ Fetched => Ended /\ returned' \in {200, 204}
         /\ MetricsSearched => Ended
<1>1. ASSUME NEW code \in {204, 404}, Fail(code) \/ TextError(code)
      PROVE  Ended /\ returned' = code
  <2>1. page' \in BOOLEAN
    <3>1. /\ (code \notin {204, 404}) \in BOOLEAN
          /\ (code \notin {204, 413}) \in BOOLEAN
      OBVIOUS
    <3>2. \/ FailWith(code, code \notin {204, 404})
          \/ FailWith(code, code \notin {204, 413})
      BY <1>1, Zenon DEF Fail, TextError
    <3>3. CASE FailWith(code, code \notin {204, 404})
      BY <3>1, <3>3, Zenon DEF FailWith
    <3>4. CASE FailWith(code, code \notin {204, 413})
      BY <3>1, <3>4, Zenon DEF FailWith
    <3> QED BY <3>2, <3>3, <3>4
  <2>2. /\ pc' = "done" /\ returned' = code /\ status' \in {code, 200}
        /\ UNCHANGED <<bucketVars, searchVars, fetchVars, body>>
    BY <1>1 DEF Fail, TextError, FailWith
  <2> QED BY <2>1, <2>2 DEF Ended, bucketVars, searchVars, fetchVars
<1>2. ASSUME Succeed
      PROVE  Ended /\ returned' = 200
  BY <1>2 DEF Succeed, Ended, TypeOK, bucketVars, searchVars, fetchVars
<1>3. ASSUME Searched
      PROVE  Ended \/ pc' = "exists"
  <2>1. params # <<>>
    BY <1>3 DEF Searched, PlaceInv
  <2> QED BY <1>1, <1>3, <2>1, NoDataType DEF Searched
<1>4. ASSUME Fetched
      PROVE  Ended /\ returned' \in {200, 204}
  BY <1>1, <1>2, <1>4 DEF Fetched
<1>5. ASSUME MetricsSearched
      PROVE  Ended
  <2>1. CASE params = <<>>
    BY <1>5, <2>1 DEF MetricsSearched, Ended, PlaceInv, TypeOK, bucketVars, searchVars,
                      fetchVars, replyVars
  <2>2. CASE params # <<>>
    BY <1>1, <1>2, <1>5, <2>2, NoDataType DEF MetricsSearched
  <2> QED BY <2>1, <2>2
<1> QED BY <1>3, <1>4, <1>5

LEMMA FetchingTypes ==
  ASSUME TypeOK, PlaceInv
  PROVE  /\ Searched /\ pc' = "exists" => TypeOK' /\ PlaceInv'
         /\ NextItem \/ GetObject \/ EndOfFile => TypeOK' /\ PlaceInv'
         /\ Finish => TypeOK' /\ PlaceInv'
<1>1. ASSUME Searched, pc' = "exists"
      PROVE  TypeOK' /\ PlaceInv'
  <2>1. /\ pc = "search" /\ service = "dataselect"
        /\ UNCHANGED <<object, row, touched, changes, service, params, i, gtHalfHour,
                 files, request, partial, j, key, buf, body, page, status, returned>>
    BY <1>1 DEF Searched, Fail, FailWith, bucketVars, searchVars, fetchVars, replyVars
  <2>2. params # <<>>
    BY <2>1 DEF PlaceInv
  <2>3. PlaceInv'
    BY <1>1, <2>1, <2>2 DEF PlaceInv
  <2> QED BY <1>1, <2>1, <2>3 DEF TypeOK
<1>2. ASSUME NextItem
      PROVE  TypeOK' /\ PlaceInv'
  <2>1. /\ pc = "exists" /\ j <= Len(request) /\ j' = j + 1
        /\ UNCHANGED <<object, row, touched, changes, pc, service, params, i, gtHalfHour,
                 files, request, partial, key, buf, body, page, status, returned>>
    BY <1>2 DEF NextItem, bucketVars, searchVars, replyVars
  <2>2. j' \in 1 .. Len(request) + 1
    BY <2>1 DEF TypeOK
  <2>3. PlaceInv'
    BY <2>1 DEF PlaceInv
  <2> QED BY <2>1, <2>2, <2>3 DEF TypeOK
<1>3. ASSUME GetObject
      PROVE  TypeOK' /\ PlaceInv'
  <2>1. /\ pc = "get" /\ pc' = "write" /\ object[key] # Absent /\ buf' = object[key]
        /\ UNCHANGED <<object, row, touched, changes, service, params, i, gtHalfHour,
                 files, request, partial, j, key, body, page, status, returned>>
    BY <1>3 DEF GetObject, bucketVars, searchVars, replyVars
  <2>2. key \in Keys
    BY <2>1 DEF PlaceInv
  <2>3. buf' \in Seq(Record \cup {Garbled})
    BY <2>1, <2>2, DataAssumption DEF TypeOK
  <2>4. PlaceInv'
    BY <2>1 DEF PlaceInv
  <2> QED BY <2>1, <2>3, <2>4 DEF TypeOK
<1>4. ASSUME EndOfFile
      PROVE  TypeOK' /\ PlaceInv'
  <2>1. /\ pc = "write" /\ pc' = "exists" /\ key' = NoKey
        /\ UNCHANGED <<object, row, touched, changes, service, params, i, gtHalfHour,
                 files, request, partial, j, buf, body, page, status, returned>>
    BY <1>4 DEF EndOfFile, bucketVars, searchVars, replyVars
  <2>2. PlaceInv'
    BY <2>1 DEF PlaceInv
  <2> QED BY <2>1, <2>2 DEF TypeOK
<1>5. ASSUME Finish
      PROVE  TypeOK' /\ PlaceInv'
  <2>1. /\ pc' = "ready" /\ touched' = {} /\ changes' = 0 /\ service' = "dataselect"
        /\ params' = <<>> /\ i' = 1 /\ gtHalfHour' = FALSE /\ files' = 0 /\ request' = <<>>
        /\ partial' = FALSE /\ j' = 1 /\ key' = NoKey /\ buf' = <<>> /\ body' = <<>>
        /\ page' = FALSE /\ status' = 0 /\ returned' = 0
        /\ UNCHANGED <<object, row>>
    BY <1>5 DEF Finish
  <2>2. <<>> \in Seq(Param) /\ <<>> \in Seq(Item) /\ <<>> \in Seq(Written)
        /\ <<>> \in Seq(Record \cup {Garbled}) /\ Len(<<>>) = 0
    OBVIOUS
  <2>3. /\ Len(params') <= MaxQueries /\ Len(request') <= Len(params')
        /\ i' \in 1 .. Len(params') + 1 /\ j' \in 1 .. Len(request') + 1
        /\ changes' \in 0 .. MaxChanges /\ files' \in Nat
    BY <2>1, <2>2, DataAssumption
  <2>4. /\ params' \in Seq(Param) /\ request' \in Seq(Item) /\ body' \in Seq(Written)
        /\ buf' \in Seq(Record \cup {Garbled})
    BY <2>1, <2>2
  <2>5. PlaceInv'
    BY <2>1 DEF PlaceInv
  <2>6. /\ touched' \subseteq Keys /\ gtHalfHour' \in BOOLEAN /\ partial' \in BOOLEAN
        /\ page' \in BOOLEAN /\ key' \in Keys \cup {NoKey}
        /\ status' \in Statuses /\ returned' \in Statuses
    BY <2>1 DEF Statuses
  <2>7. UNCHANGED <<object, row>> /\ pc' = "ready" /\ service' = "dataselect"
    BY <2>1
  <2> QED BY <2>3, <2>4, <2>5, <2>6, <2>7 DEF TypeOK
<1> QED BY <1>1, <1>2, <1>3, <1>4, <1>5

(* The request without a key of the set in turn.                           *)
LEMMA KeyTaken ==
  ASSUME TypeOK, PlaceInv, NEW k \in Keys, Exists(k)
  PROVE  /\ request' \in Seq(Item) /\ Len(request') = Len(request)
         /\ DOMAIN request' = DOMAIN request /\ j \in DOMAIN request
         /\ request'[j].param = request[j].param /\ request'[j].keys = request[j].keys \ {k}
         /\ \A x \in DOMAIN request : x # j => request'[x] = request[x]
<1> DEFINE item == [request[j] EXCEPT !.keys = @ \ {k}]
<1>1. /\ request \in Seq(Item) /\ j \in 1 .. Len(request)
      /\ request' = [request EXCEPT ![j] = item]
  BY DEF Exists, TypeOK
<1>2. request[j] \in Item
  BY <1>1
<1>3. item \in Item /\ item.param = request[j].param /\ item.keys = request[j].keys \ {k}
  BY <1>2 DEF Item
<1> HIDE DEF item
<1>4. /\ request' \in Seq(Item) /\ Len(request') = Len(request)
      /\ \A x \in 1 .. Len(request) : request'[x] = IF x = j THEN item ELSE request[x]
  BY <1>1, <1>3, ExceptSeq
<1>5. DOMAIN request = 1 .. Len(request) /\ DOMAIN request' = 1 .. Len(request)
  BY <1>1, <1>4, LenProperties
<1> QED BY <1>1, <1>3, <1>4, <1>5

LEMMA ExistsTypes ==
  ASSUME TypeOK, PlaceInv, NEW k \in Keys, Exists(k)
  PROVE  TypeOK' /\ PlaceInv'
<1>1. /\ pc = "exists" /\ j <= Len(request)
      /\ (pc' = pc /\ key' = key) \/ (pc' = "get" /\ key' = k)
      /\ UNCHANGED <<object, row, touched, changes, service, params, i, gtHalfHour,
                 files, partial, j, buf, body, page, status, returned>>
  BY DEF Exists, bucketVars, replyVars
<1>2. request' \in Seq(Item) /\ Len(request') = Len(request)
  BY KeyTaken
<1>3. PlaceInv'
  BY <1>1, <1>2 DEF PlaceInv
<1> QED BY <1>1, <1>2, <1>3 DEF TypeOK

(* A record that is read is written if it overlaps the window.             *)
LEMMA Writing ==
  ASSUME TypeOK, PlaceInv, Write
  PROVE  /\ pc = "write" /\ service = "dataselect" /\ params # <<>>
         /\ key \in Keys /\ j \in DOMAIN request /\ InTurn \in 1 .. MaxQueries
         /\ buf # <<>> /\ Head(buf) \in Record /\ buf' = Tail(buf)
         /\ buf' \in Seq(Record \cup {Garbled})
         /\ \/ /\ Overlaps(params[InTurn].query, Head(buf))
               /\ body' = Append(body, [param |-> InTurn, key |-> key, record |-> Head(buf)])
            \/ ~Overlaps(params[InTurn].query, Head(buf)) /\ body' = body
         /\ body' \in Seq(Written) /\ status' \in {status, 200}
         /\ UNCHANGED <<object, row, touched, changes, pc, service, params, i, gtHalfHour,
                 files, request, partial, j, key, page, returned>>
<1>1. /\ pc = "write" /\ buf # <<>> /\ buf \in Seq(Record \cup {Garbled})
      /\ request \in Seq(Item) /\ j \in 1 .. Len(request) /\ key \in Keys
      /\ service = "dataselect" /\ params # <<>>
  BY DEF Write, TypeOK, PlaceInv
<1>2. Head(buf) \in Record /\ Tail(buf) \in Seq(Record \cup {Garbled})
  BY <1>1, HeadTailProperties DEF Write
<1>3. request[j] \in Item /\ j \in DOMAIN request
  BY <1>1
<1>4. InTurn \in 1 .. MaxQueries
  BY <1>3 DEF InTurn, Item
<1>5. [param |-> InTurn, key |-> key, record |-> Head(buf)] \in Written
  BY <1>1, <1>2, <1>4 DEF Written
<1>6. body \in Seq(Written)
  BY DEF TypeOK
<1>7. Append(body, [param |-> InTurn, key |-> key, record |-> Head(buf)]) \in Seq(Written)
  BY <1>5, <1>6
<1>8. /\ buf' = Tail(buf)
      /\ UNCHANGED <<object, row, touched, changes, pc, service, params, i, gtHalfHour,
                 files, request, partial, j, key, page, returned>>
  BY DEF Write, bucketVars, searchVars
<1>9. \/ /\ Overlaps(params[InTurn].query, Head(buf))
         /\ body' = Append(body, [param |-> InTurn, key |-> key, record |-> Head(buf)])
         /\ status' = 200
      \/ ~Overlaps(params[InTurn].query, Head(buf)) /\ body' = body /\ status' = status
  BY DEF Write
<1> QED BY <1>1, <1>2, <1>3, <1>4, <1>6, <1>7, <1>8, <1>9

LEMMA WriteTypes ==
  ASSUME TypeOK, PlaceInv, Write
  PROVE  TypeOK' /\ PlaceInv'
<1>1. /\ pc = "write" /\ body' \in Seq(Written) /\ status' \in {status, 200}
      /\ buf' \in Seq(Record \cup {Garbled})
      /\ UNCHANGED <<object, row, touched, changes, pc, service, params, i, gtHalfHour,
                 files, request, partial, j, key, page, returned>>
  BY Writing
<1>2. PlaceInv'
  BY <1>1 DEF PlaceInv
<1> QED BY <1>1, <1>2 DEF TypeOK, Statuses

LEMMA TypeStep == TypeOK /\ PlaceInv /\ [Next]_vars => TypeOK' /\ PlaceInv'
<1> SUFFICES ASSUME TypeOK, PlaceInv, [Next]_vars
             PROVE  TypeOK' /\ PlaceInv'
  OBVIOUS
<1>1. ASSUME Step
      PROVE  TypeOK' /\ PlaceInv'
  BY <1>1, ChangesTypes, FailedTypes, BegunTypes, ListedTypes, SkipTypes, EndedTypes,
     EndingSteps, FetchingTypes, ExistsTypes, WriteTypes DEF Step
<1>2. CASE UNCHANGED vars
  <2>1. UNCHANGED <<object, row, touched, changes, pc, service, params, i, gtHalfHour,
                   files, request, partial, j, key, buf, body, page, status, returned>>
    BY <1>2 DEF vars, bucketVars, searchVars, fetchVars, replyVars
  <2> QED BY <2>1 DEF TypeOK, PlaceInv
<1> QED BY <1>1, <1>2, Steps

(* Type correctness: neither search indexes past the parameter sets, the   *)
(* list of files is no longer than they are, and nothing is fetched or     *)
(* written without a file and a set that asked for it.                     *)
THEOREM DataselectTypes == Spec => []TypeOK
<1>1. Spec => [](TypeOK /\ PlaceInv)
  BY InitTypes, TypeStep, PTL DEF Spec
<1> QED BY <1>1, PTL

-----------------------------------------------------------------------------
(* The list of what is fetched                                             *)

(* Most steps leave the search alone.                                      *)
SearchKept == UNCHANGED <<service, params, i, gtHalfHour, files, request, partial>>

LEMMA SearchSteps ==
  ASSUME TypeOK, PlaceInv, [Next]_vars
  PROVE  \/ SearchKept
         \/ \E s \in {"dataselect", "metrics"} : \E ps \in Seq(Param) : Begun(s, ps)
         \/ Skip \/ (\E keys \in SUBSET Keys : Added(keys) \/ MetricsAdded(keys))
         \/ (\E k \in Keys : Exists(k)) \/ Finish
<1>1. (Changes => SearchKept) /\ (Failed => SearchKept) /\ (Ended => SearchKept)
  BY DEF Changes, ReplaceObject, IndexObject, Touch, Failed, Ended, searchVars, SearchKept
<1>2. /\ NextItem => SearchKept
      /\ GetObject => SearchKept
      /\ EndOfFile => SearchKept
      /\ Write => SearchKept
      /\ UNCHANGED vars => SearchKept
  BY DEF NextItem, GetObject, EndOfFile, Write, vars, searchVars, SearchKept
<1>3. Searched => SearchKept
  <2>1. Searched /\ pc' = "exists" => SearchKept
    BY DEF Searched, Fail, FailWith, searchVars, SearchKept
  <2> QED BY <1>1, <2>1, EndingSteps
<1>4. (Fetched => SearchKept) /\ (MetricsSearched => SearchKept)
  BY <1>1, EndingSteps
<1> QED BY <1>1, <1>2, <1>3, <1>4, Steps DEF Step

(* A parameter set is listed once, in its turn, with keys that match it.   *)
RequestInv ==
  /\ \A x \in DOMAIN request : request[x].param \in 1 .. i - 1
  /\ \A x, y \in DOMAIN request : x < y => request[x].param < request[y].param
  /\ \A x \in DOMAIN request : \A k \in request[x].keys :
       Matches(params[request[x].param].query, StreamOf[k])

LEMMA AppendedIs ==
  ASSUME TypeOK, PlaceInv, NEW keys \in SUBSET Keys, Added(keys) \/ MetricsAdded(keys)
  PROVE  /\ \A x \in DOMAIN request : x \in DOMAIN request' /\ request'[x] = request[x]
         /\ \A x \in DOMAIN request' :
              \/ x \in DOMAIN request
              \/ \A y \in DOMAIN request : y < x /\ x # y
         /\ \A x \in DOMAIN request' : x \notin DOMAIN request =>
              request'[x].param = i /\ request'[x].keys = keys
         /\ \E x \in DOMAIN request' : request'[x].param = i /\ request'[x].keys = keys
         /\ DOMAIN request \subseteq Nat /\ DOMAIN request' \subseteq Nat
         /\ i \in 1 .. Len(params) /\ i' = i + 1 /\ i \in Nat /\ params' = params
         /\ service' = service /\ files \in Nat /\ files' = files + Cardinality(keys)
         /\ pc = "search" /\ pc' = "search" /\ keys \subseteq holdingsSearch(params[i].query)
         /\ UNCHANGED <<object, row, touched>>
         /\ Len(params) \in Nat
<1>1. /\ pc = "search" /\ i \in 1 .. Len(params) /\ i' = i + 1
      /\ request' = Append(request, [param |-> i, keys |-> keys])
      /\ UNCHANGED <<object, row, touched, pc, service, params>>
      /\ files \in Nat /\ files' = files + Cardinality(keys)
      /\ keys \subseteq holdingsSearch(params[i].query)
  BY DEF Added, MetricsAdded, Listed, AtParam, AtMetrics, Turn, TypeOK
<1>2. request \in Seq(Item) /\ Len(request) \in Nat /\ params \in Seq(Param)
  BY DEF TypeOK
<1>3. i \in 1 .. MaxQueries /\ Len(params) \in Nat
  BY <1>1, DataAssumption DEF TypeOK
<1>4. [param |-> i, keys |-> keys] \in Item
  BY <1>1, <1>3 DEF Item
<1>5. /\ DOMAIN request = 1 .. Len(request) /\ DOMAIN request' = 1 .. Len(request) + 1
      /\ \A x \in 1 .. Len(request) : request'[x] = request[x]
      /\ request'[Len(request) + 1] = [param |-> i, keys |-> keys]
  BY <1>1, <1>2, <1>4
<1>6. /\ \A x \in DOMAIN request : x \in DOMAIN request' /\ request'[x] = request[x]
      /\ \A x \in DOMAIN request' : x \notin DOMAIN request => x = Len(request) + 1
      /\ Len(request) + 1 \in DOMAIN request'
      /\ \A y \in DOMAIN request : y < Len(request) + 1 /\ Len(request) + 1 # y
  BY <1>2, <1>5
<1> QED BY <1>1, <1>2, <1>3, <1>5, <1>6

LEMMA BegunIs ==
  ASSUME TypeOK, PlaceInv,
         NEW s \in {"dataselect", "metrics"}, NEW ps \in Seq(Param), Begun(s, ps)
  PROVE  /\ pc = "ready" /\ pc' = "search" /\ i' = 1 /\ request' = <<>> /\ files' = 0
         /\ gtHalfHour' = FALSE /\ partial' = FALSE
BY DEF Begun, Begin, PlaceInv

LEMMA RequestStep ==
  ASSUME TypeOK, PlaceInv, RequestInv, [Next]_vars
  PROVE  RequestInv'
<1>1. ASSUME SearchKept
      PROVE  RequestInv'
  BY <1>1 DEF SearchKept, RequestInv
<1>2. ASSUME NEW s \in {"dataselect", "metrics"}, NEW ps \in Seq(Param), Begun(s, ps)
      PROVE  RequestInv'
  <2>1. request' = <<>>
    BY <1>2, BegunIs
  <2> QED BY <2>1 DEF RequestInv
<1>3. ASSUME Skip
      PROVE  RequestInv'
  <2>1. i' = i + 1 /\ i \in Nat /\ UNCHANGED <<params, request>>
    BY <1>3 DEF Skip, TypeOK
  <2>2. \A n \in 1 .. i - 1 : n \in 1 .. i' - 1
    BY <2>1
  <2> QED BY <2>1, <2>2 DEF RequestInv
<1>4. ASSUME NEW keys \in SUBSET Keys, Added(keys) \/ MetricsAdded(keys)
      PROVE  RequestInv'
  <2>1. \A k \in keys : Matches(params[i].query, StreamOf[k])
    BY <1>4, AppendedIs DEF holdingsSearch
  <2>2. i \in Nat /\ i' = i + 1 /\ params' = params
    BY <1>4, AppendedIs
  <2>3. i \in 1 .. i' - 1 /\ \A n \in 1 .. i - 1 : n \in 1 .. i' - 1 /\ n < i
    BY <1>4, <2>2, AppendedIs
  <2>4. \A x \in DOMAIN request' :
          \/ x \in DOMAIN request /\ request'[x] = request[x]
          \/ x \notin DOMAIN request /\ request'[x].param = i /\ request'[x].keys = keys
    BY <1>4, AppendedIs
  <2>5. \A x \in DOMAIN request' : request'[x].param \in 1 .. i' - 1
    BY <2>3, <2>4 DEF RequestInv
  <2>6. \A x, y \in DOMAIN request' : x < y => request'[x].param < request'[y].param
    <3> SUFFICES ASSUME NEW x \in DOMAIN request', NEW y \in DOMAIN request', x < y
                 PROVE  request'[x].param < request'[y].param
      OBVIOUS
    <3>1. x \in Nat /\ y \in Nat
      BY <1>4, AppendedIs
    <3>2. x \in DOMAIN request
      <4>1. x \notin DOMAIN request => y \notin DOMAIN request
        BY <1>4, <3>1, AppendedIs
      <4>2. x \notin DOMAIN request /\ y \notin DOMAIN request => x = y
        <5>1. request \in Seq(Item) /\ DOMAIN request = 1 .. Len(request) /\ Len(request) \in Nat
          BY DEF TypeOK
        <5>2. DOMAIN request' = 1 .. Len(request) + 1
          BY <1>4, <5>1 DEF Added, MetricsAdded, Listed
        <5> QED BY <5>1, <5>2
      <4> QED BY <3>1, <4>1, <4>2
    <3>3. CASE y \in DOMAIN request
      BY <1>4, <3>2, <3>3, AppendedIs DEF RequestInv
    <3>4. CASE y \notin DOMAIN request
      BY <2>3, <2>4, <3>2, <3>4 DEF RequestInv
    <3> QED BY <3>3, <3>4
  <2>7. \A x \in DOMAIN request' : \A k \in request'[x].keys :
          Matches(params'[request'[x].param].query, StreamOf[k])
    BY <2>1, <2>2, <2>4 DEF RequestInv
  <2> QED BY <2>5, <2>6, <2>7 DEF RequestInv, Matches
<1>5. ASSUME NEW k \in Keys, Exists(k)
      PROVE  RequestInv'
  <2>1. i' = i /\ params' = params
    BY <1>5 DEF Exists
  <2>2. /\ DOMAIN request' = DOMAIN request
        /\ \A x \in DOMAIN request : /\ request'[x].param = request[x].param
                                     /\ request'[x].keys \subseteq request[x].keys
    BY <1>5, KeyTaken
  <2> QED BY <2>1, <2>2 DEF RequestInv, Matches
<1>6. ASSUME Finish
      PROVE  RequestInv'
  BY <1>6 DEF Finish, RequestInv
<1> QED BY <1>1, <1>2, <1>3, <1>4, <1>5, <1>6, SearchSteps

-----------------------------------------------------------------------------
(* Limits                                                                  *)

(* A long set that the loop has passed is remembered, also if it was       *)
(* skipped, and one that is listed was counted against the limit.          *)
LongSet(n) == IsLong(params[n].query)
LimitInv ==
  service = "dataselect" =>
    /\ \A n \in 1 .. i - 1 : LongSet(n) => gtHalfHour
    /\ (\E x \in DOMAIN request : LongSet(request[x].param)) => files <= MaxFiles

LEMMA LimitStep ==
  ASSUME TypeOK, PlaceInv, RequestInv, LimitInv, [Next]_vars
  PROVE  LimitInv'
<1>1. ASSUME SearchKept
      PROVE  LimitInv'
  BY <1>1 DEF SearchKept, LimitInv, LongSet, IsLong
<1>2. ASSUME NEW s \in {"dataselect", "metrics"}, NEW ps \in Seq(Param), Begun(s, ps)
      PROVE  LimitInv'
  <2>1. request' = <<>> /\ i' = 1
    BY <1>2, BegunIs
  <2> QED BY <2>1 DEF LimitInv
<1>3. ASSUME Skip
      PROVE  LimitInv'
  <2>1. /\ i' = i + 1 /\ i \in Nat /\ UNCHANGED <<service, params, request, files>>
        /\ gtHalfHour' = (gtHalfHour \/ LongSet(i))
    BY <1>3 DEF Skip, LongSoFar, Turn, LongSet, TypeOK
  <2>2. \A n \in 1 .. i' - 1 : n \in 1 .. i - 1 \/ n = i
    BY <2>1
  <2>3. \A n : LongSet(n)' = LongSet(n)
    BY <2>1 DEF LongSet, IsLong
  <2> QED BY <2>1, <2>2, <2>3 DEF LimitInv
<1>4. ASSUME NEW keys \in SUBSET Keys, Added(keys)
      PROVE  LimitInv'
  <2>1. /\ gtHalfHour' = (gtHalfHour \/ LongSet(i)) /\ ~(files' > MaxFiles /\ gtHalfHour')
        /\ service = "dataselect"
    BY <1>4 DEF Added, AtParam, LongSoFar, Turn, LongSet, TooMany
  <2>2. files' \in Nat /\ MaxFiles \in Nat /\ params' = params /\ i \in Nat /\ i' = i + 1
    BY <1>4, AppendedIs, KeysAreCounted, DataAssumption
  <2>3. \A n : LongSet(n)' = LongSet(n)
    BY <2>2 DEF LongSet, IsLong
  <2>4. \A n \in 1 .. i' - 1 : n \in 1 .. i - 1 \/ n = i
    BY <2>2
  <2>5. \A n \in 1 .. i' - 1 : LongSet(n) => gtHalfHour'
    BY <2>1, <2>4 DEF LimitInv
  <2>6. \A x \in DOMAIN request' : request'[x].param \in 1 .. i' - 1
    BY RequestStep DEF RequestInv
  <2>7. (\E x \in DOMAIN request' : LongSet(request'[x].param)) => files' <= MaxFiles
    BY <2>1, <2>2, <2>5, <2>6
  <2> QED BY <2>3, <2>5, <2>7 DEF LimitInv
<1>5. ASSUME NEW keys \in SUBSET Keys, MetricsAdded(keys)
      PROVE  LimitInv'
  BY <1>5 DEF MetricsAdded, AtMetrics, Listed, LimitInv
<1>6. ASSUME NEW k \in Keys, Exists(k)
      PROVE  LimitInv'
  <2>1. UNCHANGED <<i, params, service, files, gtHalfHour>>
    BY <1>6 DEF Exists
  <2>2. \A x \in DOMAIN request' : x \in DOMAIN request /\ request'[x].param = request[x].param
    BY <1>6, KeyTaken
  <2> QED BY <2>1, <2>2 DEF LimitInv, LongSet, IsLong
<1>7. ASSUME Finish
      PROVE  LimitInv'
  BY <1>7 DEF Finish, LimitInv
<1> QED BY <1>1, <1>2, <1>3, <1>4, <1>5, <1>6, <1>7, SearchSteps

(* MAX_FILES bounds what is fetched for a request with a set of more than  *)
(* half an hour, in whatever place of it the long set is.                  *)
THEOREM LongAreLimited == Spec => []LongRequestsAreLimited
<1>1. Init => RequestInv /\ LimitInv
  BY DEF Init, RequestInv, LimitInv
<1>2. TypeOK /\ PlaceInv /\ RequestInv /\ LimitInv /\ [Next]_vars
        => TypeOK' /\ PlaceInv' /\ RequestInv' /\ LimitInv'
  BY TypeStep, RequestStep, LimitStep
<1>3. PlaceInv /\ LimitInv => LongRequestsAreLimited
  BY DEF PlaceInv, LimitInv, LongSet, LongRequestsAreLimited
<1> QED BY InitTypes, <1>1, <1>2, <1>3, PTL DEF Spec

-----------------------------------------------------------------------------
(* Order                                                                   *)

(* What was written of the file that is read comes last, nothing of what   *)
(* is still to be fetched was written, and what was written is in order.   *)
IsCurrent(b) == body[b].param = InTurn /\ body[b].key = key
OrderInv ==
  /\ WrittenAsAsked
  /\ pc \in {"exists", "get", "write"} /\ j \in DOMAIN request =>
       \A b \in DOMAIN body :
         body[b].param <= InTurn
           /\ (body[b].param = InTurn => body[b].key \notin request[j].keys)
  /\ pc \in {"get", "write"} =>
       key \notin request[j].keys /\ Matches(params[InTurn].query, StreamOf[key])
  /\ pc = "get" => \A b \in DOMAIN body : ~IsCurrent(b)
  /\ pc = "write" => \A a, b \in DOMAIN body : a < b /\ IsCurrent(a) => IsCurrent(b)

LEMMA AskedKept ==
  ASSUME WrittenAsAsked, UNCHANGED <<body, params>>
  PROVE  WrittenAsAsked'
BY DEF WrittenAsAsked

LEMMA OrderKept ==
  ASSUME OrderInv,
         \/ UNCHANGED <<pc, body, params, request, j, key>>
         \/ UNCHANGED <<body, params>> /\ pc' \in {"search", "done"}
         \/ body' = <<>> /\ pc' \in {"ready", "search", "exists"}
  PROVE  OrderInv'
<1>1. CASE UNCHANGED <<pc, body, params, request, j, key>>
  BY <1>1, AskedKept DEF OrderInv, IsCurrent, InTurn
<1>2. CASE UNCHANGED <<body, params>> /\ pc' \in {"search", "done"}
  BY <1>2, AskedKept DEF OrderInv
<1>3. CASE body' = <<>> /\ pc' \in {"ready", "search", "exists"}
  BY <1>3 DEF OrderInv, WrittenAsAsked
<1> QED BY <1>1, <1>2, <1>3

LEMMA OrderNextItem ==
  ASSUME TypeOK, RequestInv, OrderInv, NextItem
  PROVE  OrderInv'
<1>1. /\ pc = "exists" /\ pc' = "exists" /\ j \in 1 .. Len(request) /\ j' = j + 1
      /\ UNCHANGED <<params, request, body>>
  BY DEF NextItem, searchVars, replyVars, TypeOK
<1>2. DOMAIN request = 1 .. Len(request) /\ Len(request) \in Nat
  BY DEF TypeOK
<1>3. WrittenAsAsked'
  BY <1>1, AskedKept DEF OrderInv
<1>4. ASSUME j' \in DOMAIN request, NEW b \in DOMAIN body
      PROVE  body[b].param < request[j'].param /\ body[b].param # request[j'].param
  <2>1. request[j].param < request[j'].param
    BY <1>1, <1>2, <1>4 DEF RequestInv
  <2>2. body[b].param <= request[j].param
    BY <1>1, <1>2 DEF OrderInv, InTurn
  <2>3. body[b] \in Written /\ request[j] \in Item /\ request[j'] \in Item
    BY <1>1, <1>2, <1>4 DEF TypeOK
  <2> QED BY <2>1, <2>2, <2>3, DataAssumption DEF Written, Item
<1>5. ASSUME j' \in DOMAIN request, NEW b \in DOMAIN body
      PROVE  body[b].param <= request[j'].param
  <2>1. body[b] \in Written /\ request[j'] \in Item
    BY <1>5, <1>2 DEF TypeOK
  <2> QED BY <1>4, <1>5, <2>1, DataAssumption DEF Written, Item
<1> QED BY <1>1, <1>3, <1>4, <1>5 DEF OrderInv, InTurn

LEMMA OrderExists ==
  ASSUME TypeOK, PlaceInv, RequestInv, OrderInv, NEW k \in Keys, Exists(k)
  PROVE  OrderInv'
<1>1. /\ pc = "exists" /\ k \in request[j].keys
      /\ (pc' = "exists" /\ key' = key) \/ (pc' = "get" /\ key' = k)
      /\ UNCHANGED <<params, j, body>>
  BY DEF Exists, replyVars
<1>2. /\ DOMAIN request' = DOMAIN request /\ j \in DOMAIN request
      /\ request'[j].param = request[j].param /\ request'[j].keys = request[j].keys \ {k}
  BY KeyTaken
<1>3. WrittenAsAsked'
  BY <1>1, AskedKept DEF OrderInv
<1>4. \A b \in DOMAIN body :
        /\ body[b].param <= request[j].param
        /\ body[b].param = request[j].param => body[b].key \notin request[j].keys
  BY <1>1, <1>2 DEF OrderInv, InTurn
<1>5. Matches(params[request[j].param].query, StreamOf[k])
  BY <1>1, <1>2 DEF RequestInv
<1>6. \A b \in DOMAIN body : body[b].param = request[j].param => body[b].key # k
  BY <1>1, <1>4
<1>7. pc' = "get" => \A b \in DOMAIN body' : ~IsCurrent(b)'
  BY <1>1, <1>2, <1>6 DEF IsCurrent, InTurn
<1>8. pc' = "get" => /\ key' \notin request'[j'].keys
                     /\ Matches(params'[InTurn'].query, StreamOf[key'])
  BY <1>1, <1>2, <1>5 DEF InTurn
<1>9. \A b \in DOMAIN body' :
        /\ body'[b].param <= InTurn'
        /\ body'[b].param = InTurn' => body'[b].key \notin request'[j'].keys
  BY <1>1, <1>2, <1>4 DEF InTurn
<1> QED BY <1>1, <1>3, <1>7, <1>8, <1>9 DEF OrderInv, Matches

LEMMA OrderWrite ==
  ASSUME TypeOK, PlaceInv, OrderInv, Write
  PROVE  OrderInv'
<1>1. /\ pc = "write" /\ pc' = "write" /\ j \in DOMAIN request
      /\ UNCHANGED <<params, request, j, key>> /\ InTurn' = InTurn
  BY Writing DEF InTurn
<1>2. CASE body' = body
  BY <1>1, <1>2, OrderKept
<1>3. CASE /\ Overlaps(params[InTurn].query, Head(buf))
           /\ body' = Append(body, [param |-> InTurn, key |-> key, record |-> Head(buf)])
  <2> DEFINE new == Len(body) + 1
             r == Head(buf)
  <2>1. body \in Seq(Written) /\ Len(body) \in Nat /\ DOMAIN body = 1 .. Len(body)
    BY DEF TypeOK
  <2>2. [param |-> InTurn, key |-> key, record |-> r] \in Written
    BY Writing DEF Written
  <2>3. /\ DOMAIN body' = 1 .. new /\ \A b \in DOMAIN body : body'[b] = body[b]
        /\ body'[new].param = InTurn /\ body'[new].key = key /\ body'[new].record = r
    BY <1>3, <2>1, <2>2
  <2>4. \A b \in DOMAIN body' : b \in DOMAIN body \/ b = new
    BY <2>1, <2>3
  <2>5. \A a, b \in DOMAIN body' : a < b => a \in DOMAIN body
    BY <2>1, <2>3
  <2> HIDE DEF new, r
  <2>6. /\ InTurn \in Nat
        /\ Matches(params[InTurn].query, StreamOf[key])
        /\ r.from < params[InTurn].query.end /\ r.to > params[InTurn].query.start
        /\ \A b \in DOMAIN body : body[b].param <= InTurn
        /\ \A b \in DOMAIN body : body[b].param = InTurn => body[b].key \notin request[j].keys
        /\ key \notin request[j].keys
        /\ \A a, b \in DOMAIN body : a < b /\ IsCurrent(a) => IsCurrent(b)
    BY <1>1, <1>3, Writing DEF OrderInv, Overlaps, r
  <2>7. \A b \in DOMAIN body' :
          /\ Matches(params[body'[b].param].query, StreamOf[body'[b].key])
          /\ body'[b].record.from < params[body'[b].param].query.end
          /\ body'[b].record.to > params[body'[b].param].query.start
    BY <2>3, <2>4, <2>6 DEF OrderInv, WrittenAsAsked
  <2>8. ASSUME NEW a \in DOMAIN body', NEW b \in DOMAIN body', a < b
        PROVE  /\ body'[a].param <= body'[b].param
               /\ body'[a].param = body'[b].param /\ body'[a].key = body'[b].key =>
                    \A x \in a .. b : body'[x].key = body'[a].key
    <3>1. a \in DOMAIN body
      BY <2>5, <2>8
    <3>2. CASE b \in DOMAIN body
      <4>1. \A x \in a .. b : x \in DOMAIN body
        BY <2>1, <3>1, <3>2
      <4> QED BY <2>3, <2>8, <3>1, <3>2, <4>1 DEF OrderInv, WrittenAsAsked
    <3>3. CASE b = new
      <4>1. body'[a].param <= body'[b].param
        BY <2>3, <2>6, <3>1, <3>3
      <4>2. ASSUME body'[a].param = body'[b].param, body'[a].key = body'[b].key, NEW x \in a .. b
            PROVE  body'[x].key = body'[a].key
        <5>1. IsCurrent(a)
          BY <2>3, <3>1, <3>3, <4>2 DEF IsCurrent
        <5>2. x = a \/ x = b \/ (x \in DOMAIN body /\ a < x)
          BY <2>1, <3>1, <3>3, <4>2 DEF new
        <5>3. x \in DOMAIN body /\ a < x => IsCurrent(x)
          BY <2>6, <3>1, <5>1
        <5> QED BY <2>3, <3>1, <4>2, <5>1, <5>2, <5>3 DEF IsCurrent
      <4> QED BY <4>1, <4>2
    <3> QED BY <2>4, <3>2, <3>3
  <2>9. WrittenAsAsked'
    BY <1>1, <2>7, <2>8 DEF WrittenAsAsked, Matches
  <2>10. \A b \in DOMAIN body' :
          /\ body'[b].param <= InTurn
          /\ body'[b].param = InTurn => body'[b].key \notin request[j].keys
    BY <2>3, <2>4, <2>6
  <2>11. ASSUME NEW a \in DOMAIN body', NEW b \in DOMAIN body', a < b,
                body'[a].param = InTurn, body'[a].key = key
         PROVE  body'[b].param = InTurn /\ body'[b].key = key
    <3>1. a \in DOMAIN body /\ IsCurrent(a)
      BY <2>3, <2>5, <2>11 DEF IsCurrent
    <3> QED BY <2>3, <2>4, <2>6, <2>11, <3>1 DEF IsCurrent
  <2> QED BY <1>1, <2>6, <2>9, <2>10, <2>11 DEF OrderInv, IsCurrent, Matches
<1> QED BY <1>2, <1>3, Writing

LEMMA OrderStep ==
  ASSUME TypeOK, PlaceInv, RequestInv, OrderInv, [Next]_vars
  PROVE  OrderInv'
<1>1. ASSUME Changes \/ UNCHANGED vars
      PROVE  OrderInv'
  <2>1. UNCHANGED <<pc, body, params, request, j, key>>
    BY <1>1 DEF Changes, ReplaceObject, IndexObject, Touch, vars, searchVars, fetchVars, replyVars
  <2> QED BY <2>1, OrderKept
<1>2. ASSUME Failed \/ Ended \/ Skip
      PROVE  OrderInv'
  <2>1. UNCHANGED <<body, params>> /\ pc' \in {"search", "done"}
    BY <1>2 DEF Failed, Ended, Skip, AtParam, replyVars
  <2> QED BY <2>1, OrderKept
<1>3. ASSUME NEW keys \in SUBSET Keys, Added(keys) \/ MetricsAdded(keys)
      PROVE  OrderInv'
  <2>1. UNCHANGED <<body, params>> /\ pc' = "search"
    BY <1>3, AppendedIs DEF Added, MetricsAdded, Listed
  <2> QED BY <2>1, OrderKept
<1>4. ASSUME NEW s \in {"dataselect", "metrics"}, NEW ps \in Seq(Param), Begun(s, ps)
      PROVE  OrderInv'
  <2>1. body' = <<>> /\ pc' = "search"
    BY <1>4 DEF Begun, Begin, PlaceInv, replyVars
  <2> QED BY <2>1, OrderKept
<1>5. ASSUME Searched
      PROVE  OrderInv'
  <2>1. CASE pc' = "exists"
    <3>1. body' = <<>>
      BY <1>5, <2>1 DEF Searched, PlaceInv, Fail, FailWith, replyVars
    <3> QED BY <2>1, <3>1, OrderKept
  <2> QED BY <1>2, <1>5, <2>1, EndingSteps
<1>6. ASSUME GetObject \/ EndOfFile
      PROVE  OrderInv'
  <2>1. UNCHANGED <<body, params, request, j>> /\ InTurn' = InTurn
    BY <1>6 DEF GetObject, EndOfFile, searchVars, replyVars, InTurn
  <2>2. \/ pc = "get" /\ pc' = "write" /\ key' = key
        \/ pc = "write" /\ pc' = "exists"
    BY <1>6 DEF GetObject, EndOfFile
  <2>3. WrittenAsAsked'
    BY <2>1, AskedKept DEF OrderInv
  <2> QED BY <2>1, <2>2, <2>3 DEF OrderInv, IsCurrent, Matches
<1>7. ASSUME Finish
      PROVE  OrderInv'
  <2>1. body' = <<>> /\ pc' = "ready"
    BY <1>7 DEF Finish
  <2> QED BY <2>1, OrderKept
<1>8. (Fetched => OrderInv') /\ (MetricsSearched => OrderInv')
  BY <1>2, EndingSteps
<1> QED BY <1>1, <1>2, <1>3, <1>4, <1>5, <1>6, <1>7, <1>8, Steps, OrderNextItem, OrderExists,
          OrderWrite DEF Step

(* Whatever the bucket does meanwhile, each record that is written is one  *)
(* that its set asks for, records come in the order of the sets, and those *)
(* of a file come in one piece.                                            *)
THEOREM OrderIsKept == Spec => []WrittenAsAsked
<1>1. Init => RequestInv /\ OrderInv
  BY DEF Init, RequestInv, OrderInv, WrittenAsAsked
<1>2. TypeOK /\ PlaceInv /\ RequestInv /\ OrderInv /\ [Next]_vars
        => TypeOK' /\ PlaceInv' /\ RequestInv' /\ OrderInv'
  BY TypeStep, RequestStep, OrderStep
<1>3. OrderInv => WrittenAsAsked
  BY DEF OrderInv
<1> QED BY InitTypes, <1>1, <1>2, <1>3, PTL DEF Spec

-----------------------------------------------------------------------------
(* The search                                                              *)

(* A file that did not change since the request arrived, and is indexed.   *)
Stable(k) ==
  k \notin touched /\ object[k] # Absent /\ row[k] = Row(k) /\ row[k] # NoRow
HasRecord(n, k) ==
  \E m \in DOMAIN object[k] : Overlaps(params[n].query, object[k][m])
IsListed(n, k) ==
  \E x \in DOMAIN request : request[x].param = n /\ k \in request[x].keys
IsSought(n, k) ==
  /\ Matches(params[n].query, StreamOf[k])
  /\ service = "dataselect" => Accepted(params[n].query)

(* The search has listed what has a record in a window, and has counted    *)
(* what it listed.                                                         *)
ListInv ==
  pc = "search" =>
    /\ ~partial => \A n \in 1 .. i - 1, k \in Keys :
         Stable(k) /\ IsSought(n, k) /\ HasRecord(n, k) => IsListed(n, k)
    /\ files = 0 => \A x \in DOMAIN request : request[x].keys = {}

(* A day of margin on both sides of the window is enough.                  *)
LEMMA MarginsSuffice ==
  ASSUME TypeOK, NEW n \in 1 .. Len(params), NEW k \in Keys,
         Stable(k), Matches(params[n].query, StreamOf[k]), HasRecord(n, k)
  PROVE  k \in holdingsSearch(params[n].query)
<1> DEFINE q == params[n].query
           f == object[k]
<1>1. params[n] \in Param
  BY DEF TypeOK
<1>2. q.start \in Int /\ q.end \in Int
  <2>1. q \in Query
    BY <1>1 DEF Param
  <2>2. q.start \in Time /\ q.end \in Time
    BY <2>1, Zenon DEF Query
  <2> QED BY <2>2, DataAssumption DEF Time
<1>3. f \in Files /\ f # Absent
  BY DEF TypeOK, Stable
<1>4. f \in Seq(Record \cup {Garbled}) /\ Row(k) = StartOf(f) /\ row[k] = Row(k)
      /\ row[k] # NoRow
  BY <1>3, DataAssumption DEF Stable, Row
<1>5. f # <<>> /\ (\A x \in DOMAIN f : f[x] # Garbled) /\ row[k] = f[1].from
  BY <1>4 DEF StartOf
<1>6. PICK m \in DOMAIN f : f[m].from < q.end /\ f[m].to > q.start
  BY DEF HasRecord, Overlaps
<1>7. 1 \in DOMAIN f /\ f[1] \in Record /\ f[m] \in Record
  BY <1>4, <1>5, <1>6
<1>8. f[1].from <= f[m].from /\ f[m].to <= f[1].from + Day
  BY <1>3, <1>5, <1>6, <1>7, DataAssumption
<1>9. f[1].from \in Int /\ f[m].from \in Int /\ f[m].to \in Int /\ Day \in Nat
  <2> HIDE DEF q, f
  <2>1. f[1].from \in Time /\ f[m].from \in Time /\ f[m].to \in Time
    BY <1>7 DEF Record
  <2> QED BY <2>1, DataAssumption DEF Time
<1> HIDE DEF q, f
<1>10. q.start - Day <= f[1].from
  BY <1>2, <1>6, <1>8, <1>9
<1>11. f[1].from <= q.end + Day
  BY <1>2, <1>6, <1>8, <1>9
<1>12. InWindow(q, row[k])
  BY <1>5, <1>10, <1>11 DEF InWindow
<1> QED BY <1>4, <1>12 DEF holdingsSearch, q

(* Changes only make fewer files stable.                                   *)
LEMMA StableBefore ==
  ASSUME TypeOK, Changes \/ UNCHANGED <<object, row, touched>>, NEW k \in Keys, Stable(k)'
  PROVE  Stable(k) /\ object'[k] = object[k]
<1>1. CASE UNCHANGED <<object, row, touched>>
  BY <1>1 DEF Stable, Row
<1>2. CASE Changes
  <2>1. PICK c \in Keys :
          (\E f \in Files \cup {Absent} : ReplaceObject(c, f)) \/ IndexObject(c)
    BY <1>2 DEF Changes
  <2>2. touched' = touched \cup {c}
    BY <2>1 DEF ReplaceObject, IndexObject, Touch
  <2>3. k # c /\ k \notin touched
    BY <2>2 DEF Stable
  <2>4. object'[k] = object[k] /\ row'[k] = row[k]
    BY <2>1, <2>3 DEF ReplaceObject, IndexObject, TypeOK
  <2> QED BY <2>3, <2>4 DEF Stable, Row
<1> QED BY <1>1, <1>2

LEMMA ListStep ==
  ASSUME TypeOK, PlaceInv, ListInv, [Next]_vars
  PROVE  ListInv'
<1>1. ASSUME Changes \/ UNCHANGED vars
      PROVE  ListInv'
  <2>1. UNCHANGED <<pc, service, params, i, files, request, partial>>
    BY <1>1 DEF Changes, ReplaceObject, IndexObject, Touch, vars, searchVars
  <2>2. Changes \/ UNCHANGED <<object, row, touched>>
    BY <1>1 DEF vars, bucketVars
  <2>3. \A k \in Keys : Stable(k)' => Stable(k) /\ object'[k] = object[k]
    BY <2>2, StableBefore
  <2>4. \A n : \A k \in Keys : Stable(k)' /\ HasRecord(n, k)' => HasRecord(n, k)
    BY <2>1, <2>3 DEF HasRecord, Overlaps
  <2>5. \A n, k : (IsSought(n, k)' <=> IsSought(n, k)) /\ (IsListed(n, k)' <=> IsListed(n, k))
    BY <2>1 DEF IsSought, IsListed
  <2> QED BY <2>1, <2>3, <2>4, <2>5 DEF ListInv
<1>2. ASSUME pc' # "search"
      PROVE  ListInv'
  BY <1>2 DEF ListInv
<1>3. ASSUME NEW s \in {"dataselect", "metrics"}, NEW ps \in Seq(Param), Begun(s, ps)
      PROVE  ListInv'
  <2>1. i' = 1 /\ request' = <<>>
    BY <1>3, BegunIs
  <2> QED BY <2>1 DEF ListInv
<1>4. ASSUME Skip
      PROVE  ListInv'
  <2>1. /\ pc = "search" /\ i' = i + 1 /\ i \in Nat /\ service = "dataselect"
        /\ UNCHANGED <<object, row, touched, service, params, files, request, partial>>
        /\ ~Accepted(params[i].query)
    BY <1>4 DEF Skip, AtParam, Turn, TypeOK, bucketVars
  <2>2. \A n \in 1 .. i' - 1 : n \in 1 .. i - 1 \/ n = i
    BY <2>1
  <2>3. \A n, k : /\ Stable(k)' <=> Stable(k)
                  /\ HasRecord(n, k)' <=> HasRecord(n, k)
                  /\ IsSought(n, k)' <=> IsSought(n, k)
                  /\ IsListed(n, k)' <=> IsListed(n, k)
    BY <2>1 DEF Stable, Row, HasRecord, IsSought, IsListed
  <2>4. \A k : ~IsSought(i, k)
    BY <2>1 DEF IsSought
  <2> QED BY <2>1, <2>2, <2>3, <2>4 DEF ListInv
<1>5. ASSUME NEW keys \in SUBSET Keys, Added(keys) \/ MetricsAdded(keys)
      PROVE  ListInv'
  <2>1. /\ pc = "search" /\ i \in 1 .. Len(params) /\ i \in Nat /\ i' = i + 1
        /\ UNCHANGED <<object, row, touched, service, params>>
        /\ files \in Nat /\ files' = files + Cardinality(keys)
    BY <1>5, AppendedIs
  <2>2. partial' = (partial \/ keys # holdingsSearch(params[i].query))
    BY <1>5 DEF Added, MetricsAdded, Turn
  <2>3. /\ \A x \in DOMAIN request : x \in DOMAIN request' /\ request'[x] = request[x]
        /\ \A x \in DOMAIN request' : x \notin DOMAIN request => request'[x].keys = keys
        /\ \E x \in DOMAIN request' : request'[x].param = i /\ request'[x].keys = keys
    BY <1>5, AppendedIs
  <2>4. \A n \in 1 .. i' - 1 : n \in 1 .. i - 1 \/ n = i
    BY <2>1
  <2>5. \A n, k : /\ Stable(k)' <=> Stable(k)
                  /\ HasRecord(n, k)' <=> HasRecord(n, k)
                  /\ IsSought(n, k)' <=> IsSought(n, k)
                  /\ IsListed(n, k) => IsListed(n, k)'
    BY <2>1, <2>3 DEF Stable, Row, HasRecord, IsSought, IsListed
  <2>6. ASSUME ~partial', NEW n \in 1 .. i' - 1, NEW k \in Keys,
               Stable(k)', IsSought(n, k)', HasRecord(n, k)'
        PROVE  IsListed(n, k)'
    <3>1. CASE n \in 1 .. i - 1
      BY <2>1, <2>2, <2>5, <2>6, <3>1 DEF ListInv
    <3>2. CASE n = i
      <4>1. Stable(k) /\ Matches(params[i].query, StreamOf[k]) /\ HasRecord(i, k)
        BY <2>5, <2>6, <3>2 DEF IsSought
      <4>2. k \in keys
        BY <2>1, <2>2, <2>6, <4>1, MarginsSuffice
      <4> QED BY <2>3, <3>2, <4>2 DEF IsListed
    <3> QED BY <2>4, <3>1, <3>2
  <2>7. ASSUME files' = 0, NEW x \in DOMAIN request'
        PROVE  request'[x].keys = {}
    <3>1. files = 0 /\ keys = {}
      BY <2>1, <2>7, KeysAreCounted
    <3> QED BY <2>1, <2>3, <3>1 DEF ListInv
  <2> QED BY <2>6, <2>7 DEF ListInv
<1>6. \/ Changes \/ UNCHANGED vars \/ pc' # "search"
      \/ \E s \in {"dataselect", "metrics"} : \E ps \in Seq(Param) : Begun(s, ps)
      \/ Skip \/ (\E keys \in SUBSET Keys : Added(keys) \/ MetricsAdded(keys))
  <2>1. (Failed => pc' # "search") /\ (Ended => pc' # "search") /\ (Finish => pc' # "search")
    BY DEF Failed, Ended, Finish
  <2>2. /\ NextItem => pc' # "search"
        /\ GetObject => pc' # "search"
        /\ EndOfFile => pc' # "search"
        /\ Write => pc' # "search"
        /\ \A k : Exists(k) => pc' # "search"
    BY DEF NextItem, GetObject, EndOfFile, Write, Exists
  <2>3. /\ Searched => pc' # "search"
        /\ Fetched => pc' # "search"
        /\ MetricsSearched => pc' # "search"
    BY <2>1, EndingSteps
  <2> QED BY <2>1, <2>2, <2>3, Steps DEF Step
<1> QED BY <1>1, <1>2, <1>3, <1>4, <1>5, <1>6

(* Every file with a record in the window of a set is in the answer of the *)
(* metrics service, if the index knew it and it did not change.            *)
LEMMA MetricsStep ==
  ASSUME TypeOK, PlaceInv, ListInv, MetricsAreComplete, [Next]_vars
  PROVE  MetricsAreComplete'
<1>1. ASSUME Changes \/ UNCHANGED vars
      PROVE  MetricsAreComplete'
  <2>1. UNCHANGED <<pc, service, params, request, partial, returned>>
    BY <1>1 DEF Changes, ReplaceObject, IndexObject, Touch, vars, searchVars, replyVars
  <2>2. Changes \/ UNCHANGED <<object, row, touched>>
    BY <1>1 DEF vars, bucketVars
  <2>3. \A k \in Keys : Stable(k)' => Stable(k) /\ object'[k] = object[k]
    BY <2>2, StableBefore
  <2>4. ASSUME NEW k \in Keys, k \notin touched', row'[k] # NoRow, row'[k] = Row(k)'
        PROVE  /\ k \notin touched /\ row[k] # NoRow /\ row[k] = Row(k)
               /\ object'[k] = object[k]
    BY <2>3, <2>4 DEF Stable, Row
  <2> QED BY <2>1, <2>4 DEF MetricsAreComplete, Overlaps
<1>2. ASSUME pc' # "done" \/ Failed
      PROVE  MetricsAreComplete'
  BY <1>2 DEF MetricsAreComplete, Failed
<1>3. ASSUME Searched \/ Fetched
      PROVE  MetricsAreComplete'
  <2>1. service = "dataselect"
    BY <1>3 DEF Searched, Fetched, PlaceInv
  <2>2. pc' = "exists" \/ service' = "dataselect"
    BY <1>3, <2>1, EndingSteps DEF Ended
  <2> QED BY <2>2 DEF MetricsAreComplete
<1>4. ASSUME MetricsSearched
      PROVE  MetricsAreComplete'
  <2>1. /\ pc = "search" /\ service = "metrics" /\ i > Len(params)
        /\ i \in Nat /\ params \in Seq(Param)
        /\ UNCHANGED <<object, row, touched, params, request, partial>>
    BY <1>4, EndingSteps DEF MetricsSearched, Ended, TypeOK
  <2>2. DOMAIN params = 1 .. Len(params) /\ Len(params) \in Nat
    BY <2>1
  <2>3. \A n \in DOMAIN params : n \in 1 .. i - 1
    BY <2>1, <2>2
  <2>4. ASSUME ~partial, NEW n \in DOMAIN params, NEW k \in Keys \ touched,
               row[k] # NoRow, row[k] = Row(k), Matches(params[n].query, StreamOf[k]),
               HasRecord(n, k)
        PROVE  IsListed(n, k)
    <3>1. Stable(k) /\ IsSought(n, k)
      BY <2>1, <2>4 DEF Stable, Row, IsSought
    <3> QED BY <2>1, <2>3, <2>4, <3>1 DEF ListInv
  <2> QED BY <2>1, <2>4 DEF MetricsAreComplete, HasRecord, IsListed, Row
<1>5. (Finish => pc' # "done") /\ (Skip => pc' # "done")
      /\ (\A s, ps : Begun(s, ps) => pc' # "done")
      /\ (\A keys : Added(keys) \/ MetricsAdded(keys) => pc' # "done")
  BY DEF Finish, Skip, AtParam, AtMetrics, Begun, Begin, Added, MetricsAdded, Listed
<1>6. /\ NextItem => pc' # "done"
      /\ GetObject => pc' # "done"
      /\ EndOfFile => pc' # "done"
      /\ Write => pc' # "done"
      /\ \A k : Exists(k) => pc' # "done"
  BY DEF NextItem, GetObject, EndOfFile, Write, Exists
<1> QED BY <1>1, <1>2, <1>3, <1>4, <1>5, <1>6, Steps DEF Step

(* An answer of the metrics service that met no error lists every file     *)
(* whose row fits one of its parameter sets, however the index changes     *)
(* between the searches of the sets.                                       *)
THEOREM MetricsComplete == Spec => []MetricsAreComplete
<1>1. Init => ListInv /\ MetricsAreComplete
  BY DEF Init, ListInv, MetricsAreComplete
<1>2. /\ TypeOK /\ PlaceInv /\ ListInv /\ MetricsAreComplete /\ [Next]_vars
      => TypeOK' /\ PlaceInv' /\ ListInv' /\ MetricsAreComplete'
  BY TypeStep, ListStep, MetricsStep
<1> QED BY InitTypes, <1>1, <1>2, PTL DEF Spec

-----------------------------------------------------------------------------
(* The answer                                                              *)

(* What becomes of a record that is due: its file is still to be fetched,  *)
(* or is read and the record still ahead, or the record was written.       *)
ToFetch(n, k) ==
  \/ \E x \in DOMAIN request : x >= j /\ request[x].param = n /\ k \in request[x].keys
  \/ pc = "get" /\ InTurn = n /\ key = k
Unread(n, k, r) ==
  pc = "write" /\ InTurn = n /\ key = k /\ \E y \in DOMAIN buf : buf[y] = r
Delivered(n, k, r) ==
  \E b \in DOMAIN body : body[b] = [param |-> n, key |-> k, record |-> r]

DeliveryInv ==
  pc \in {"exists", "get", "write"} /\ ~partial =>
    \A n \in DOMAIN params, k \in Keys : Due(n, k) =>
      \A m \in DOMAIN object[k] :
        Overlaps(params[n].query, object[k][m]) =>
          \/ ToFetch(n, k) \/ Unread(n, k, object[k][m]) \/ Delivered(n, k, object[k][m])

(* A step of the handler to another stage of fetching: nothing that is due *)
(* gets lost if what was to fetch, unread or delivered is one of these.    *)
LEMMA NothingGetsLost ==
  ASSUME DeliveryInv, pc \in {"exists", "get", "write"},
         UNCHANGED <<object, row, touched, params, partial>>,
         \A n \in DOMAIN params, k \in Keys : Due(n, k) =>
           \A m \in DOMAIN object[k] :
             LET r == object[k][m] IN
             Overlaps(params[n].query, r)
               /\ (ToFetch(n, k) \/ Unread(n, k, r) \/ Delivered(n, k, r)) =>
                 ToFetch(n, k)' \/ Unread(n, k, r)' \/ Delivered(n, k, r)'
  PROVE  DeliveryInv'
<1>1. \A n, k : Due(n, k)' <=> Due(n, k)
  BY DEF Due, Row
<1> QED BY <1>1 DEF DeliveryInv, Overlaps

LEMMA DueBefore ==
  ASSUME TypeOK, Changes \/ UNCHANGED <<object, row, touched>>, UNCHANGED params,
         NEW n, NEW k \in Keys, Due(n, k)'
  PROVE  Due(n, k) /\ object'[k] = object[k]
<1>1. Stable(k)'
  BY DEF Due, Stable
<1>2. Stable(k) /\ object'[k] = object[k]
  BY <1>1, StableBefore
<1> QED BY <1>2 DEF Due, Stable

LEMMA DeliveryExists ==
  ASSUME TypeOK, PlaceInv, DeliveryInv, NEW c \in Keys, Exists(c)
  PROVE  DeliveryInv'
<1>1. /\ pc = "exists" /\ UNCHANGED <<object, row, touched, params, partial, j, body>>
      /\ \/ object[c] = Absent /\ pc' = "exists"
         \/ pc' = "get" /\ key' = c
  BY DEF Exists, bucketVars, replyVars
<1>2. /\ DOMAIN request' = DOMAIN request /\ j \in DOMAIN request
      /\ request'[j].param = request[j].param /\ request'[j].keys = request[j].keys \ {c}
      /\ \A x \in DOMAIN request : x # j => request'[x] = request[x]
  BY KeyTaken
<1>3. ASSUME NEW n, NEW k \in Keys, Due(n, k), ToFetch(n, k)
      PROVE  ToFetch(n, k)'
  <2>1. PICK x \in DOMAIN request : x >= j /\ request[x].param = n /\ k \in request[x].keys
    BY <1>1, <1>3 DEF ToFetch
  <2>2. CASE x = j /\ k = c
    <3>1. object[c] # Absent
      BY <1>3, <2>2 DEF Due
    <3> QED BY <1>1, <1>2, <2>1, <2>2, <3>1 DEF ToFetch, InTurn
  <2>3. CASE x # j \/ k # c
    <3>1. request'[x].param = n /\ k \in request'[x].keys
      BY <1>2, <2>1, <2>3
    <3> QED BY <1>1, <1>2, <2>1, <3>1 DEF ToFetch
  <2> QED BY <2>2, <2>3
<1>4. \A n, k, r : (Delivered(n, k, r)' <=> Delivered(n, k, r)) /\ ~Unread(n, k, r)
  BY <1>1 DEF Delivered, Unread
<1> QED BY <1>1, <1>3, <1>4, NothingGetsLost

LEMMA DeliveryGetObject ==
  ASSUME TypeOK, PlaceInv, DeliveryInv, GetObject
  PROVE  DeliveryInv'
<1>1. /\ pc = "get" /\ pc' = "write" /\ buf' = object[key] /\ key' = key /\ InTurn' = InTurn
      /\ UNCHANGED <<object, row, touched, params, partial, request, j, body>>
  BY DEF GetObject, bucketVars, searchVars, replyVars, InTurn
<1>2. ASSUME NEW n, NEW k, NEW m \in DOMAIN object[k], ToFetch(n, k)
      PROVE  ToFetch(n, k)' \/ Unread(n, k, object[k][m])'
  BY <1>1, <1>2 DEF ToFetch, Unread
<1>3. \A n, k, r : (Delivered(n, k, r)' <=> Delivered(n, k, r)) /\ ~Unread(n, k, r)
  BY <1>1 DEF Delivered, Unread
<1> QED BY <1>1, <1>2, <1>3, NothingGetsLost

LEMMA DeliveryWrite ==
  ASSUME TypeOK, PlaceInv, DeliveryInv, Write
  PROVE  DeliveryInv'
<1>1. /\ pc = "write" /\ pc' = "write" /\ key' = key /\ InTurn' = InTurn
      /\ UNCHANGED <<object, row, touched, params, partial, request, j>>
      /\ buf # <<>> /\ buf' = Tail(buf)
  BY Writing DEF InTurn
<1>2. \A n, k : ToFetch(n, k) => ToFetch(n, k)'
  BY <1>1 DEF ToFetch
<1>3. \/ /\ Overlaps(params[InTurn].query, Head(buf))
         /\ body' = Append(body, [param |-> InTurn, key |-> key, record |-> Head(buf)])
      \/ ~Overlaps(params[InTurn].query, Head(buf)) /\ body' = body
  BY Writing
<1>4. /\ body \in Seq(Written) /\ DOMAIN body = 1 .. Len(body) /\ Len(body) \in Nat
      /\ buf \in Seq(Record \cup {Garbled}) /\ DOMAIN buf = 1 .. Len(buf) /\ Len(buf) \in Nat
  BY DEF TypeOK
<1>5. [param |-> InTurn, key |-> key, record |-> Head(buf)] \in Written
  BY Writing DEF Written
<1>6. \A n, k, r : Delivered(n, k, r) => Delivered(n, k, r)'
  <2>1. \A b \in DOMAIN body : b \in DOMAIN body' /\ body'[b] = body[b]
    BY <1>3, <1>4, <1>5
  <2> QED BY <2>1 DEF Delivered
<1>7. ASSUME NEW n, NEW k, NEW r, n = InTurn, k = key, r = Head(buf),
             Overlaps(params[InTurn].query, Head(buf))
      PROVE  Delivered(n, k, r)'
  <2>1. /\ Len(body) + 1 \in DOMAIN body'
        /\ body'[Len(body) + 1] = [param |-> n, key |-> k, record |-> r]
    BY <1>3, <1>4, <1>5, <1>7
  <2> QED BY <2>1 DEF Delivered
<1>8. ASSUME NEW y \in DOMAIN buf
      PROVE  buf[y] = Head(buf) \/ \E z \in DOMAIN buf' : buf'[z] = buf[y]
  <2>1. Head(buf) = buf[1]
    BY <1>4, <1>1
  <2>2. /\ Tail(buf) \in Seq(Record \cup {Garbled}) /\ Len(Tail(buf)) = Len(buf) - 1
        /\ \A z \in 1 .. Len(Tail(buf)) : Tail(buf)[z] = buf[z + 1]
        /\ DOMAIN Tail(buf) = 1 .. Len(Tail(buf))
    BY <1>1, <1>4, HeadTailProperties, LenProperties
  <2>3. CASE y # 1
    <3>1. y - 1 \in 1 .. Len(Tail(buf)) /\ (y - 1) + 1 = y
      BY <1>4, <2>2, <2>3
    <3> QED BY <1>1, <2>2, <3>1
  <2> QED BY <2>1, <2>3
<1>9. ASSUME NEW n, NEW k, NEW r, Overlaps(params[n].query, r), Unread(n, k, r)
      PROVE  Unread(n, k, r)' \/ Delivered(n, k, r)'
  <2>1. n = InTurn /\ k = key
    BY <1>9 DEF Unread
  <2>2. PICK y \in DOMAIN buf : buf[y] = r
    BY <1>9 DEF Unread
  <2>3. CASE r = Head(buf)
    BY <1>7, <1>9, <2>1, <2>3
  <2>4. CASE \E z \in DOMAIN buf' : buf'[z] = r
    BY <1>1, <2>1, <2>4 DEF Unread
  <2> QED BY <1>8, <2>2, <2>3, <2>4
<1> QED BY <1>1, <1>2, <1>6, <1>9, NothingGetsLost

LEMMA DeliveryNext ==
  ASSUME TypeOK, PlaceInv, DeliveryInv, NextItem \/ EndOfFile
  PROVE  DeliveryInv'
<1>1. ASSUME NextItem
      PROVE  DeliveryInv'
  <2>1. /\ pc = "exists" /\ pc' = "exists" /\ j' = j + 1 /\ request[j].keys = {}
        /\ UNCHANGED <<object, row, touched, params, partial, request, body>>
    BY <1>1 DEF NextItem, bucketVars, searchVars, replyVars
  <2>2. j \in Nat /\ DOMAIN request \subseteq Nat
    BY DEF TypeOK
  <2>3. ASSUME NEW n, NEW k, ToFetch(n, k)
        PROVE  ToFetch(n, k)'
    <3>1. PICK x \in DOMAIN request : x >= j /\ request[x].param = n /\ k \in request[x].keys
      BY <2>1, <2>3 DEF ToFetch
    <3>2. x >= j'
      BY <2>1, <2>2, <3>1
    <3> QED BY <2>1, <3>1, <3>2 DEF ToFetch
  <2>4. \A n, k, r : (Delivered(n, k, r)' <=> Delivered(n, k, r)) /\ ~Unread(n, k, r)
    BY <2>1 DEF Delivered, Unread
  <2> QED BY <2>1, <2>3, <2>4, NothingGetsLost
<1>2. ASSUME EndOfFile
      PROVE  DeliveryInv'
  <2>1. /\ pc = "write" /\ pc' = "exists" /\ buf = <<>>
        /\ UNCHANGED <<object, row, touched, params, partial, request, j, body>>
    BY <1>2 DEF EndOfFile, bucketVars, searchVars, replyVars
  <2>2. \A n, k : ToFetch(n, k) => ToFetch(n, k)'
    BY <2>1 DEF ToFetch
  <2>3. \A n, k, r : (Delivered(n, k, r)' <=> Delivered(n, k, r)) /\ ~Unread(n, k, r)
    BY <2>1 DEF Delivered, Unread
  <2> QED BY <2>1, <2>2, <2>3, NothingGetsLost
<1> QED BY <1>1, <1>2

LEMMA DeliveryStep ==
  ASSUME TypeOK, PlaceInv, ListInv, DeliveryInv, [Next]_vars
  PROVE  DeliveryInv'
<1>1. ASSUME Changes \/ UNCHANGED vars
      PROVE  DeliveryInv'
  <2>1. UNCHANGED <<pc, params, request, partial, j, key, buf, body>>
    BY <1>1 DEF Changes, ReplaceObject, IndexObject, Touch, vars, searchVars, fetchVars, replyVars
  <2>2. Changes \/ UNCHANGED <<object, row, touched>>
    BY <1>1 DEF vars, bucketVars
  <2>3. \A n : \A k \in Keys : Due(n, k)' => Due(n, k) /\ object'[k] = object[k]
    BY <2>1, <2>2, DueBefore
  <2>4. \A n, k, r : /\ ToFetch(n, k)' <=> ToFetch(n, k)
                     /\ Unread(n, k, r)' <=> Unread(n, k, r)
                     /\ Delivered(n, k, r)' <=> Delivered(n, k, r)
    BY <2>1 DEF ToFetch, Unread, Delivered, InTurn
  <2>5. ASSUME pc \in {"exists", "get", "write"}, ~partial, NEW n \in DOMAIN params,
               NEW k \in Keys, Due(n, k)', NEW m \in DOMAIN object'[k],
               Overlaps(params[n].query, object'[k][m])
        PROVE  \/ ToFetch(n, k) \/ Unread(n, k, object'[k][m])
               \/ Delivered(n, k, object'[k][m])
    BY <2>3, <2>5 DEF DeliveryInv
  <2>6. ASSUME pc' \in {"exists", "get", "write"}, ~partial', NEW n \in DOMAIN params',
               NEW k \in Keys, Due(n, k)', NEW m \in DOMAIN object'[k],
               Overlaps(params'[n].query, object'[k][m])
        PROVE  \/ ToFetch(n, k)' \/ Unread(n, k, object[k][m])'
               \/ Delivered(n, k, object[k][m])'
    <3>1. object'[k] = object[k]
      BY <2>3, <2>6
    <3> QED BY <2>1, <2>4, <2>5, <2>6, <3>1
  <2> QED BY <2>6 DEF DeliveryInv, Overlaps
<1>2. ASSUME pc' \notin {"exists", "get", "write"}
      PROVE  DeliveryInv'
  BY <1>2 DEF DeliveryInv
<1>3. ASSUME Searched, pc' = "exists"
      PROVE  DeliveryInv'
  <2>1. /\ pc = "search" /\ service = "dataselect" /\ i > Len(params) /\ j = 1
        /\ i \in Nat /\ params \in Seq(Param) /\ DOMAIN request \subseteq Nat \ {0}
        /\ UNCHANGED <<object, row, touched, params, request, partial, j>>
    BY <1>3 DEF Searched, Fail, FailWith, TypeOK, PlaceInv, bucketVars, searchVars, fetchVars
  <2>2. \A n \in DOMAIN params : n \in 1 .. i - 1
    <3>1. DOMAIN params = 1 .. Len(params) /\ Len(params) \in Nat
      BY <2>1
    <3> QED BY <2>1, <3>1
  <2>3. ASSUME ~partial, NEW n \in DOMAIN params, NEW k \in Keys, Due(n, k), HasRecord(n, k)
        PROVE  ToFetch(n, k)'
    <3>1. Stable(k) /\ IsSought(n, k)
      BY <2>3 DEF Due, Stable, IsSought
    <3>2. IsListed(n, k)
      BY <2>1, <2>2, <2>3, <3>1 DEF ListInv
    <3> QED BY <2>1, <3>2 DEF IsListed, ToFetch
  <2>4. \A n, k : Due(n, k)' <=> Due(n, k)
    BY <2>1 DEF Due, Row
  <2> QED BY <2>1, <2>3, <2>4 DEF DeliveryInv, HasRecord, Overlaps
<1>4. (Failed => pc' = "done") /\ (Ended => pc' = "done") /\ (Finish => pc' = "ready")
      /\ (Skip => pc' = "search")
      /\ (\A s, ps : Begun(s, ps) => pc' = "search")
      /\ (\A keys : Added(keys) \/ MetricsAdded(keys) => pc' = "search")
  BY DEF Failed, Ended, Finish, Skip, AtParam, AtMetrics, Begun, Begin, Added, MetricsAdded, Listed
<1>5. Searched => DeliveryInv'
  BY <1>2, <1>3, <1>4, EndingSteps
<1>6. (Fetched => pc' = "done") /\ (MetricsSearched => pc' = "done")
  BY <1>4, EndingSteps
<1> QED BY <1>1, <1>2, <1>4, <1>5, <1>6, Steps, DeliveryExists, DeliveryGetObject,
          DeliveryWrite, DeliveryNext DEF Step

LEMMA MissingStep ==
  ASSUME TypeOK, PlaceInv, ListInv, DeliveryInv, NothingIsMissing, [Next]_vars
  PROVE  NothingIsMissing'
<1>1. ASSUME Changes \/ UNCHANGED vars
      PROVE  NothingIsMissing'
  <2>1. UNCHANGED <<pc, service, params, partial, body, returned>>
    BY <1>1 DEF Changes, ReplaceObject, IndexObject, Touch, vars, searchVars, replyVars
  <2>2. Changes \/ UNCHANGED <<object, row, touched>>
    BY <1>1 DEF vars, bucketVars
  <2>3. \A n : \A k \in Keys : Due(n, k)' => Due(n, k) /\ object'[k] = object[k]
    BY <2>1, <2>2, DueBefore
  <2> QED BY <2>1, <2>3 DEF NothingIsMissing, Overlaps
<1>2. ASSUME pc' # "done" \/ Failed
      PROVE  NothingIsMissing'
  BY <1>2 DEF NothingIsMissing, Failed
<1>3. ASSUME Ended, service = "metrics"
      PROVE  NothingIsMissing'
  BY <1>3 DEF Ended, NothingIsMissing
<1>4. ASSUME Searched, Ended
      PROVE  NothingIsMissing'
  <2>1. /\ pc = "search" /\ service = "dataselect" /\ i > Len(params) /\ files = 0
        /\ i \in Nat /\ params \in Seq(Param)
        /\ UNCHANGED <<object, row, touched, params, partial>>
    BY <1>4 DEF Searched, Ended, TypeOK
  <2>2. \A n \in DOMAIN params : n \in 1 .. i - 1
    <3>1. DOMAIN params = 1 .. Len(params) /\ Len(params) \in Nat
      BY <2>1
    <3> QED BY <2>1, <3>1
  <2>3. ASSUME ~partial, NEW n \in DOMAIN params, NEW k \in Keys, Due(n, k), HasRecord(n, k)
        PROVE  FALSE
    <3>1. Stable(k) /\ IsSought(n, k)
      BY <2>3 DEF Due, Stable, IsSought
    <3>2. IsListed(n, k)
      BY <2>1, <2>2, <2>3, <3>1 DEF ListInv
    <3> QED BY <2>1, <3>2 DEF IsListed, ListInv
  <2>4. \A n, k : Due(n, k)' <=> Due(n, k)
    BY <2>1 DEF Due, Row
  <2> QED BY <2>1, <2>3, <2>4 DEF NothingIsMissing, HasRecord, Overlaps
<1>5. ASSUME Fetched
      PROVE  NothingIsMissing'
  <2>1. /\ pc = "exists" /\ j > Len(request) /\ j \in Nat
        /\ UNCHANGED <<object, row, touched, params, partial, body>>
    BY <1>5, EndingSteps DEF Fetched, Ended, TypeOK
  <2>2. DOMAIN request = 1 .. Len(request) /\ Len(request) \in Nat
    BY DEF TypeOK
  <2>3. \A n, k : ~ToFetch(n, k)
    BY <2>1, <2>2 DEF ToFetch
  <2>4. \A n, k, r : ~Unread(n, k, r)
    BY <2>1 DEF Unread
  <2>5. \A n, k : Due(n, k)' <=> Due(n, k)
    BY <2>1 DEF Due, Row
  <2> QED BY <2>1, <2>3, <2>4, <2>5 DEF DeliveryInv, Delivered, NothingIsMissing, Overlaps
<1>6. ASSUME MetricsSearched
      PROVE  NothingIsMissing'
  <2>1. service = "metrics" /\ Ended
    BY <1>6, EndingSteps DEF MetricsSearched
  <2> QED BY <1>3, <2>1
<1>7. ASSUME Searched
      PROVE  NothingIsMissing'
  <2>1. CASE pc' = "exists"
    BY <1>2, <2>1
  <2> QED BY <1>4, <1>7, <2>1, EndingSteps
<1>8. (Finish => pc' # "done") /\ (Skip => pc' # "done")
      /\ (\A s, ps : Begun(s, ps) => pc' # "done")
      /\ (\A keys : Added(keys) \/ MetricsAdded(keys) => pc' # "done")
  BY DEF Finish, Skip, AtParam, AtMetrics, Begun, Begin, Added, MetricsAdded, Listed
<1>9. /\ NextItem => pc' # "done"
      /\ GetObject => pc' # "done"
      /\ EndOfFile => pc' # "done"
      /\ Write => pc' # "done"
      /\ \A k : Exists(k) => pc' # "done"
  BY DEF NextItem, GetObject, EndOfFile, Write, Exists
<1> QED BY <1>1, <1>2, <1>5, <1>6, <1>7, <1>8, <1>9, Steps DEF Step

(* The margins of the search, the fetch loop and the filter on records     *)
(* work together: no record that is due is missing from an answer without  *)
(* error, whatever changes during the request and wherever it fails.       *)
THEOREM NothingMissing == Spec => []NothingIsMissing
<1>1. Init => ListInv /\ DeliveryInv /\ NothingIsMissing
  BY DEF Init, ListInv, DeliveryInv, NothingIsMissing
<1>2. /\ TypeOK /\ PlaceInv /\ ListInv /\ DeliveryInv /\ NothingIsMissing /\ [Next]_vars
      => TypeOK' /\ PlaceInv' /\ ListInv' /\ DeliveryInv' /\ NothingIsMissing'
  BY TypeStep, ListStep, DeliveryStep, MissingStep
<1> QED BY InitTypes, <1>1, <1>2, PTL DEF Spec

=============================================================================
