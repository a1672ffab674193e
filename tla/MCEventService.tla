--------------------------- MODULE MCEventService ---------------------------
(***************************************************************************)
(* An instance of EventService for TLC.  Three events: one that moves      *)
(* across the date line and is deleted, one to the east of it, and one in  *)
(* Europe of unknown type that moves across Greenwich.                     *)
(***************************************************************************)
EXTENDS EventService

At(id, m, lat, lon) ==
  [event |-> id, mod |-> m, deleted |-> FALSE, time |-> 1, latitude |-> lat,
   longitude |-> lon, depth |-> 10, magnitude |-> 4, type |-> "earthquake"]

MCVersions == {"v1", "v2", "v3", "w1", "w2", "x1", "x2"}
MCInfo == [v \in MCVersions |->
  CASE v = "v1" -> At("p1", 1, -38, 178)
    [] v = "v2" -> [At("p1", 2, -38, -179) EXCEPT !.magnitude = 5, !.time = 0]
    [] v = "v3" -> [At("p1", 3, -38, -179) EXCEPT !.deleted = TRUE]
    [] v = "w1" -> At("p2", 1, -30, -175)
    [] v = "w2" -> [At("p2", 2, -30, -175) EXCEPT !.depth = 0, !.type = "other"]
    [] v = "x1" -> [At("p3", 1, 48, 10) EXCEPT !.type = ""]
    [] OTHER    -> [At("p3", 2, 48, -4) EXCEPT !.type = ""]]

Any == [readable |-> TRUE, format |-> "xml", nodata |-> 204, orderby |-> "",
        eventid |-> None, anytype |-> TRUE, types |-> {},
        minlatitude |-> None, maxlatitude |-> None,
        minlongitude |-> None, maxlongitude |-> None,
        mindepth |-> None, maxdepth |-> None,
        minmagnitude |-> None, maxmagnitude |-> None,
        starttime |-> None, endtime |-> None, updatedafter |-> None,
        latitude |-> None, longitude |-> None, minradius |-> 0, maxradius |-> 180]

Box(a, b) == [Any EXCEPT !.minlongitude = a, !.maxlongitude = b]
Around(lat, lon, min, max) ==
  [Any EXCEPT !.latitude = lat, !.longitude = lon, !.minradius = min, !.maxradius = max]
OfTypes(ts) == [Any EXCEPT !.anytype = FALSE, !.types = ts]

GoodQueries == {
  Any, [Any EXCEPT !.format = "text", !.nodata = 404, !.orderby = "time"],
  [Any EXCEPT !.eventid = "p1", !.nodata = 404], [Any EXCEPT !.eventid = "p9"],
  Box(170, -170), Box(-180, -170), Box(5, 20), Box(-10, 20), Box(-180, 180),
  Box(170, None), Box(None, 20),
  Around(-38, 179, 0, 5), Around(-38, -179, 5, 10), Around(48, 5, 0, 10), Around(48, 10, 5, 180),
  [Any EXCEPT !.maxradius = 10],
  [Any EXCEPT !.minlatitude = -35, !.maxlatitude = 0],
  [Any EXCEPT !.mindepth = 0, !.maxdepth = 20], [Any EXCEPT !.minmagnitude = 4],
  [Any EXCEPT !.maxmagnitude = 5], [Any EXCEPT !.starttime = 1], [Any EXCEPT !.endtime = 0],
  [Any EXCEPT !.updatedafter = 2], OfTypes({"earthquake"}), OfTypes({"other", ""}) }
BadQueries == {
  [Any EXCEPT !.readable = FALSE], [Any EXCEPT !.format = "json"], [Any EXCEPT !.nodata = 200],
  [Any EXCEPT !.nodata = 302, !.eventid = "p9"], [Any EXCEPT !.orderby = "depth"],
  OfTypes({}), Box(-181, 0), Box(0, 181), [Any EXCEPT !.minlatitude = -91],
  [Any EXCEPT !.latitude = 0], Around(0, 181, 0, 1), Around(91, 0, 0, 1),
  Around(0, 0, 2, 1), Around(0, 0, 0, 181), Around(0, 0, -1, 1) }
MCQueries == GoodQueries \cup BadQueries

=============================================================================
