---------------------------- MODULE EventService ---------------------------
(***************************************************************************)
(* cmd/fdsn-ws: the event queries (fdsn_event.go) and the sc3ml service    *)
(* (sc3ml.go), which read the table fdsn.event while the quake consumer    *)
(* writes it.  A query is parsed and checked, its events are counted by    *)
(* one statement and, unless there are none or too many, fetched by        *)
(* another; the table may change in between.                               *)
(*                                                                         *)
(* The table changes as LatestEvent says it may, which QuakeConsumer is    *)
(* shown to do with any number of workers (ImplementsEventTable).          *)
(* Requests share nothing that they write, so one at a time is modelled.   *)
(* A step is one statement.                                                *)
(***************************************************************************)
EXTENDS Integers, FiniteSets

CONSTANTS
  Ids,          (* what clients give as an event id                        *)
  PublicIDs,    (* those that look like a public id                        *)
  Events,       (* the public ids of events                                *)
  Versions,     (* what the quake consumer can save of them                *)
  Info,         (* what each version says                                  *)
  Types,        (* event types; "" is stored, and asked for, as unknown    *)
  NoRow,        (* an event that is not in fdsn.event                      *)
  None,         (* a parameter that was not given                          *)
  Queries,      (* the queries considered                                  *)
  MaxEvents,    (* the most events that one answer may have                *)
  MaxSaves      (* bound on what is saved between a request and the next   *)

Latitude == -90 .. 90
Longitude == -180 .. 180
Number == Int \cup {None}

Event == [event: Events, mod: Nat, deleted: BOOLEAN, time: Int, latitude: Latitude,
          longitude: Longitude, depth: Int, magnitude: Int, type: Types]

(* A query is readable if it has no parameter that is not supported or     *)
(* known, no empty value (but an empty event type), and values that        *)
(* decode.  It asks for any type (no event type, * or nothing) or for the  *)
(* types that its patterns match, none if a pattern is refused.            *)
Query == [readable: BOOLEAN, format: STRING, nodata: Nat, orderby: STRING,
          eventid: Ids \cup {None}, anytype: BOOLEAN, types: SUBSET Types,
          minlatitude: Number, maxlatitude: Number,
          minlongitude: Number, maxlongitude: Number,
          mindepth: Number, maxdepth: Number,
          minmagnitude: Number, maxmagnitude: Number,
          starttime: Number, endtime: Number, updatedafter: Number,
          latitude: Number, longitude: Number, minradius: Int, maxradius: Int]

ASSUME EventAssumption ==
  /\ Events \subseteq Ids /\ PublicIDs \subseteq Ids
  /\ IsFiniteSet(Events)
  /\ Info \in [Versions -> Event]
  /\ Queries \subseteq Query
  /\ None \notin Int /\ None \notin Ids
  /\ NoRow \notin Versions
  /\ MaxEvents \in Nat /\ MaxSaves \in Nat

VARIABLES
  table,        (* fdsn.event                                              *)
  seen,         (* the tables there have been since the request arrived    *)
  saves,        (* how often it has been written since                     *)
  pc,           (* where the handler is                                    *)
  e,            (* the query, as parsed                                    *)
  publicID,     (* the id the sc3ml service was asked for                  *)
  body,         (* the events in the answer                                *)
  partial,      (* the rows broke off, which is not noticed                *)
  page,         (* an error text follows them                              *)
  status        (* the status of the answer, 0 for none yet                *)

requestVars == <<pc, e, publicID>>
replyVars == <<body, partial, page, status>>
tableVars == <<table, seen, saves>>
vars == <<tableVars, requestVars, replyVars>>

Statuses == {0, 200, 204, 400, 404, 405, 413, 500, 503}

TypeOK ==
  /\ table \in [Events -> Versions \cup {NoRow}]
  /\ seen \subseteq [Events -> Versions \cup {NoRow}] /\ saves \in 0 .. MaxSaves
  /\ pc \in {"ready", "count", "fetch", "sc3ml", "done"}
  /\ e \in Query \cup {None} /\ publicID \in Ids \cup {None}
  /\ body \subseteq Versions
  /\ partial \in BOOLEAN /\ page \in BOOLEAN
  /\ status \in Statuses

-----------------------------------------------------------------------------
(* The table, as the quake consumer keeps it                               *)

EventOf(v) == Info[v].event
ModOf(v) == Info[v].mod
Nothing(m) == {}

Consumer == INSTANCE LatestEvent
              WITH Notices <- {}, Announces <- Nothing, acknowledged <- {}

Underway == pc \in {"count", "fetch", "sc3ml"}

Save(v) ==
  /\ Consumer!Record(v)
  /\ saves < MaxSaves
  /\ saves' = IF pc = "ready" THEN 0 ELSE saves + 1
  /\ seen' = IF Underway THEN seen \cup {table'} ELSE seen
  /\ UNCHANGED <<requestVars, replyVars>>

Init ==
  /\ Consumer!Init
  /\ seen = {} /\ saves = 0
  /\ pc = "ready" /\ e = None /\ publicID = None
  /\ body = {} /\ partial = FALSE /\ page = FALSE /\ status = 0

-----------------------------------------------------------------------------
(* Checking a query                                                        *)

Given(x) == x # None

(* Mutant of AnswerOptionsOK: any number is taken for the no-data code.    *)
AnswerOptionsUnchecked(q) == q.format \in {"xml", "text"}

AnswerOptionsOK(q) == q.format \in {"xml", "text"} /\ q.nodata \in {204, 404}

(* Of each pair of bounds one side is checked on each.                     *)
BoundsOK(q) ==
  /\ Given(q.minlatitude) => q.minlatitude >= -90
  /\ Given(q.maxlatitude) => q.maxlatitude <= 90
  /\ Given(q.minlongitude) => q.minlongitude >= -180
  /\ Given(q.maxlongitude) => q.maxlongitude <= 180

(* The radii are only looked at if there is a point.                       *)
PointOK(q) ==
  Given(q.latitude) \/ Given(q.longitude) =>
    /\ Given(q.latitude) /\ Given(q.longitude)
    /\ q.longitude \in Longitude /\ q.latitude \in Latitude
    /\ q.maxradius \in 0 .. 180 /\ q.minradius \in 0 .. 180
    /\ q.minradius <= q.maxradius

OrderOK(q) == q.orderby \in {"", "time", "time-asc", "magnitude", "magnitude-asc"}

TypesOK(q) == q.anytype \/ q.types # {}

parseEventV1(q) ==
  q.readable /\ AnswerOptionsOK(q) /\ BoundsOK(q) /\ PointOK(q) /\ OrderOK(q) /\ TypesOK(q)

-----------------------------------------------------------------------------
(* The WHERE clause                                                        *)

AtLeast(x, min) == Given(min) => x >= min
AtMost(x, max) == Given(max) => x <= max
MoreThan(x, min) == Given(min) => x > min
LessThan(x, max) == Given(max) => x < max

(* Mutant of ShiftLongitude: longitudes are compared as they are.          *)
ShiftNothing(x) == x

(* ST_ShiftLongitude of a point: longitudes eastwards from Greenwich.      *)
ShiftLongitude(x) == IF x < 0 THEN x + 360 ELSE IF x > 180 THEN x - 360 ELSE x

InLongitudes(q, x) ==
  /\ Given(q.minlongitude) => ShiftLongitude(x) >= ShiftLongitude(q.minlongitude)
  /\ Given(q.maxlongitude) => ShiftLongitude(x) <= ShiftLongitude(q.maxlongitude)

(* The square of the distance in a plane of degrees, which has no          *)
(* curvature and ends at Greenwich.  There is no distance to a point that  *)
(* was not given (its coordinates are the largest float): no row passes.   *)
Square(a) == a * a
Distance2(q, i) ==
  Square(i.latitude - q.latitude) +
  Square(ShiftLongitude(i.longitude) - ShiftLongitude(q.longitude))

InRadius(q, i) ==
  /\ q.maxradius # 180 => Given(q.latitude) /\ Distance2(q, i) <= Square(q.maxradius)
  /\ q.minradius # 0 => Given(q.latitude) /\ Distance2(q, i) >= Square(q.minradius)

(* All that does not depend on the longitude.                              *)
Passes(q, i) ==
  /\ Given(q.eventid) => i.event = q.eventid
  /\ AtLeast(i.latitude, q.minlatitude) /\ AtMost(i.latitude, q.maxlatitude)
  /\ MoreThan(i.depth, q.mindepth) /\ LessThan(i.depth, q.maxdepth)
  /\ MoreThan(i.magnitude, q.minmagnitude) /\ LessThan(i.magnitude, q.maxmagnitude)
  /\ AtLeast(i.time, q.starttime) /\ AtMost(i.time, q.endtime)
  /\ AtLeast(i.mod, q.updatedafter)
  /\ q.anytype \/ i.type \in q.types

filter(q, i) == Passes(q, i) /\ InLongitudes(q, i.longitude) /\ InRadius(q, i)

Rows(t) == {t[id] : id \in Events} \ {NoRow}

Selected(q, t) == {v \in Rows(t) : ~Info[v].deleted /\ filter(q, Info[v])}

-----------------------------------------------------------------------------
(* Answering                                                               *)

(* The text of an error follows whatever is in the buffer already.         *)
Fail(code) ==
  /\ pc' = "done"
  /\ status' = code
  /\ page' = (code \notin {204, 404})

Arrive == pc = "ready" /\ seen' = {table} /\ UNCHANGED <<table, saves>>

(* A query of the event service; anything but GET is refused.              *)
Ask(q) ==
  /\ Arrive
  /\ e' = q
  /\ IF parseEventV1(q)
     THEN pc' = "count" /\ UNCHANGED <<page, status>>
     ELSE Fail(400)
  /\ UNCHANGED <<publicID, body, partial>>

AskOtherwise ==
  /\ Arrive
  /\ Fail(405)
  /\ UNCHANGED <<e, publicID, body, partial>>

(* Mutant of count: events that are deleted are counted.                   *)
countDeleted(q) == Cardinality({v \in Rows(table) : filter(q, Info[v])})

count(q) == Cardinality(Selected(q, table))

Count ==
  /\ pc = "count"
  /\ IF count(e) = 0 THEN Fail(e.nodata)
     ELSE IF count(e) > MaxEvents THEN Fail(413)
     ELSE pc' = "fetch" /\ UNCHANGED <<page, status>>
  /\ UNCHANGED <<tableVars, e, publicID, body, partial>>

CountFails ==
  /\ pc = "count"
  /\ Fail(500)
  /\ UNCHANGED <<tableVars, e, publicID, body, partial>>

(* The loop over rows.Next ends after the last row and when the rows break *)
(* off: nothing asks rows.Err.                                             *)
Fetch(found) ==
  /\ pc = "fetch"
  /\ found \subseteq Selected(e, table)
  /\ body' = found
  /\ partial' = (found # Selected(e, table))
  /\ pc' = "done" /\ status' = 200
  /\ UNCHANGED <<tableVars, e, publicID, page>>

(* Mutant of FetchFails: the query is tried again from the start.          *)
FetchRetries ==
  /\ pc = "fetch"
  /\ pc' = "count"
  /\ UNCHANGED <<tableVars, e, publicID, replyVars>>

FetchFails ==
  /\ pc = "fetch"
  /\ Fail(500)
  /\ UNCHANGED <<tableVars, e, publicID, body, partial>>

(* A row cannot be scanned: what was written stays in the buffer.          *)
ScanFails(found) ==
  /\ pc = "fetch"
  /\ found \subseteq Selected(e, table) /\ found # Selected(e, table)
  /\ body' = found
  /\ Fail(500)
  /\ UNCHANGED <<tableVars, e, publicID, partial>>

(* The sc3ml service: CheckQuery refuses other methods and parameters,     *)
(* valid.PublicID other ids.                                               *)
AskSc3ml(id) ==
  /\ Arrive
  /\ publicID' = id
  /\ IF id \in PublicIDs
     THEN pc' = "sc3ml" /\ UNCHANGED <<page, status>>
     ELSE Fail(400)
  /\ UNCHANGED <<e, body, partial>>

AskSc3mlOtherwise(code) ==
  /\ Arrive
  /\ code \in {400, 405}
  /\ Fail(code)
  /\ UNCHANGED <<e, publicID, body, partial>>

(* The row of an event is served also if it is deleted.                    *)
s3ml ==
  /\ pc = "sc3ml"
  /\ publicID \in Events /\ table[publicID] # NoRow
  /\ body' = {table[publicID]}
  /\ pc' = "done" /\ status' = 200
  /\ UNCHANGED <<tableVars, e, publicID, partial, page>>

(* No row, and a failing statement, are the same error: without a status   *)
(* of its own, it is service unavailable.                                  *)
s3mlFails ==
  /\ pc = "sc3ml"
  /\ Fail(503)
  /\ UNCHANGED <<tableVars, e, publicID, body, partial>>

(* The next request: nothing of this one is left.                          *)
Finish ==
  /\ pc = "done"
  /\ pc' = "ready" /\ e' = None /\ publicID' = None
  /\ seen' = {} /\ saves' = 0
  /\ body' = {} /\ partial' = FALSE /\ page' = FALSE /\ status' = 0
  /\ UNCHANGED table

-----------------------------------------------------------------------------
Request ==
  \/ (\E q \in Queries : Ask(q)) \/ AskOtherwise
  \/ (\E id \in Ids : AskSc3ml(id)) \/ (\E code \in {400, 405} : AskSc3mlOtherwise(code))

Handler ==
  \/ Count \/ CountFails
  \/ (\E found \in SUBSET Rows(table) : Fetch(found)) \/ FetchFails
  \/ (\E found \in SUBSET Rows(table) : ScanFails(found))
  \/ s3ml \/ s3mlFails

Next == (\E v \in Versions : Save(v)) \/ Request \/ Handler \/ Finish

Spec == Init /\ [][Next]_vars

(* A handler that runs is scheduled, and its statements return or fail.    *)
FairSpec == Spec /\ WF_vars(Handler)

-----------------------------------------------------------------------------
(* What a query means on the globe                                         *)

(* How far b is to the east of a.                                          *)
East(a, b) == (b - a) % 360

(* From the first longitude eastwards to the second.                       *)
Width(q) ==
  IF q.minlongitude <= q.maxlongitude
  THEN q.maxlongitude - q.minlongitude
  ELSE q.maxlongitude - q.minlongitude + 360

InBox(q, x) ==
  Given(q.minlongitude) /\ Given(q.maxlongitude) => East(q.minlongitude, x) <= Width(q)

(* Degrees of longitude between two points, the shorter way round.         *)
Apart(a, b) == IF East(a, b) <= 180 THEN East(a, b) ELSE East(b, a)

FromPoint2(q, i) ==
  Square(i.latitude - q.latitude) + Square(Apart(q.longitude, i.longitude))

InRing(q, i) ==
  Given(q.latitude) =>
    /\ q.maxradius # 180 => FromPoint2(q, i) <= Square(q.maxradius)
    /\ FromPoint2(q, i) >= Square(q.minradius)

Wanted(q, t) ==
  {v \in Rows(t) : /\ ~Info[v].deleted
                   /\ Passes(q, Info[v])
                   /\ InBox(q, Info[v].longitude)
                   /\ InRing(q, Info[v])}

(* Where the code reads a query as it is meant: both longitudes or none,   *)
(* a box that does not reach Greenwich from the west, and a circle that    *)
(* does not reach it, with a point.  Outside of it fewer events are found  *)
(* (or, with one longitude, those up to Greenwich).                        *)
BoxIsAwayFromGreenwich(q) ==
  /\ Given(q.minlongitude) <=> Given(q.maxlongitude)
  /\ Given(q.minlongitude) =>
       /\ q.minlongitude \in Longitude /\ q.maxlongitude \in Longitude
       /\ East(q.minlongitude, 0) = 0 \/ East(q.minlongitude, 0) > Width(q)

IsAwayFromGreenwich(x, r) ==
  East(0, x) - r \in 0 .. 359 /\ East(0, x) + r \in 0 .. 359

CircleIsAwayFromGreenwich(q) ==
  q.maxradius # 180 \/ q.minradius # 0 =>
    LET r == IF q.maxradius # 180 THEN q.maxradius ELSE q.minradius IN
    Given(q.latitude) /\ IsAwayFromGreenwich(q.longitude, r)

ReadAsMeant(q) == BoxIsAwayFromGreenwich(q) /\ CircleIsAwayFromGreenwich(q)

-----------------------------------------------------------------------------
(* Properties                                                              *)

Answered(code) == pc = "done" /\ Given(e) /\ parseEventV1(e) /\ status = code

(* An answer was true at some moment since the request arrived, across the *)
(* date line too: the events are all those that were wanted then, "no      *)
(* data" says that there were none, and "too large" that there were too    *)
(* many.  The sc3ml service answers with what the event was at one.        *)
AnswersAreTrue ==
  /\ (\E code \in {200, 204, 404, 413} : Answered(code)) /\ ReadAsMeant(e) /\ ~partial =>
       \E t \in seen :
         CASE status = 200 -> body = Wanted(e, t)
           [] status = 413 -> Cardinality(Wanted(e, t)) > MaxEvents
           [] OTHER        -> Wanted(e, t) = {}
  /\ pc = "done" /\ Given(publicID) /\ status = 200 =>
       \E t \in seen : body = {t[publicID]} /\ publicID \in Events

(* "The result set is limited to 10,000 events", up to those that are      *)
(* saved between the two statements; and only if one of them changes is    *)
(* an answer without events not given as the code for no data.             *)
Changed == {id \in Events : \E t, u \in seen : t[id] # u[id]}

AnswersAreBounded ==
  Answered(200) /\ ~partial =>
    /\ Cardinality(body) <= MaxEvents + Cardinality(Changed)
    /\ body = {} => Changed # {}

(* The handlers answer every request.                                      *)
EveryEventRequestIsAnswered == Underway ~> pc = "done"

=============================================================================
