--------------------------- MODULE MCStationFilter -------------------------
(***************************************************************************)
(* An instance of StationFilter for TLC: a network with a station of two   *)
(* channels and a station of one, and a network with a station that has    *)
(* no channels and one that has.  Codes repeat across stations.            *)
(***************************************************************************)
EXTENDS StationFilter, TLC

MCStationsOf == ("n1" :> {"s1", "s2"}) @@ ("n2" :> {"s3", "s4"}) @@ ("n3" :> {})
MCChannelsOf ==
  ("s1" :> {"c1", "c2"}) @@ ("s2" :> {"c3"}) @@ ("s3" :> {}) @@ ("s4" :> {"c4"})
MCCode ==
  ("n1" :> "NZ") @@ ("n2" :> "IU") @@ ("n3" :> "XX") @@ ("s1" :> "WEL") @@ ("s2" :> "SNZO")
    @@ ("s3" :> "WEL") @@ ("s4" :> "SNZO")
    @@ ("c1" :> "HHZ") @@ ("c2" :> "HHN") @@ ("c3" :> "HHZ") @@ ("c4" :> "HHN")
MCLocation == [c \in {"c1", "c2", "c3", "c4"} |-> IF c = "c1" THEN "10" ELSE "20"]

(* Epochs that end, that go on (end 0), and that have no start.            *)
E(a, b) == [start |-> a, end |-> b]
MCEpoch ==
  ("n1" :> E(1, 0)) @@ ("n2" :> E(1, 3)) @@ ("n3" :> E(0, 0)) @@ ("s1" :> E(1, 2))
    @@ ("s2" :> E(2, 0)) @@ ("s3" :> E(0, 0)) @@ ("s4" :> E(1, 3))
    @@ ("c1" :> E(1, 1)) @@ ("c2" :> E(2, 0)) @@ ("c3" :> E(3, 0)) @@ ("c4" :> E(2, 3))

(* Two channels away from their station; s4 and c4 beyond the date line.   *)
At(a, b) == [latitude |-> a, longitude |-> b]
MCPosition ==
  ("s1" :> At(-41, 174)) @@ ("s2" :> At(-38, 178)) @@ ("s3" :> At(-44, -176))
    @@ ("s4" :> At(-21, -175)) @@ ("c1" :> At(-41, 174)) @@ ("c2" :> At(-41, 175))
    @@ ("c3" :> At(-37, 178)) @@ ("c4" :> At(-21, -175))

Wel == [Defaults EXCEPT !.network = {"NZ"}, !.station = {"WEL"}, !.channel = {"HHZ"}]
Nowhere == [Defaults EXCEPT !.network = {"NONE"}]
Text(p, l) == [p EXCEPT !.format = "text", !.level = l]
Box(a, b, c, d) ==
  [Anywhere EXCEPT !.minlatitude = a, !.maxlatitude = b, !.minlongitude = c, !.maxlongitude = d]
Around(a, b, c, d) ==
  [Anywhere EXCEPT !.latitude = a, !.longitude = b, !.minradius = c, !.maxradius = d]
In(area) == [Defaults EXCEPT !.area = area, !.level = "channel"]

GoodGets ==
  {[p EXCEPT !.level = l] : p \in {Defaults, Wel, [Defaults EXCEPT !.starttime = 2]}, l \in Levels}
    \cup
  {Text([Defaults EXCEPT !.startbefore = 2], "channel"),
   Text([Defaults EXCEPT !.startafter = 2], "channel"),
   Text([Defaults EXCEPT !.endbefore = 2], "station"),
   Text([Defaults EXCEPT !.endafter = 2], "station"),
   In(Box(-41, -38, None, None)), In(Box(None, None, 175, 178)), In(Around(-38, 178, 0, 1)),
   In(Around(-40, -179, 5, 10)), [Nowhere EXCEPT !.nodata = 404]}

BadGets ==
  {[Defaults EXCEPT !.readable = FALSE], [Defaults EXCEPT !.format = "json"],
   Text(Defaults, "response"), [Defaults EXCEPT !.level = "all"],
   [Defaults EXCEPT !.starttime = 1, !.startafter = 2],
   [Defaults EXCEPT !.startafter = 1, !.startbefore = 2],
   [Defaults EXCEPT !.endtime = 1, !.endbefore = 2],
   [Defaults EXCEPT !.endafter = 1, !.endbefore = 2],
   [Defaults EXCEPT !.includeavailability = TRUE],
   [Defaults EXCEPT !.includerestricted = FALSE],
   [Defaults EXCEPT !.matchtimeseries = TRUE], [Defaults EXCEPT !.nodata = 200],
   [Defaults EXCEPT !.location = {"10", BadName}],
   In(Box(-91, None, None, None)), In(Box(None, None, None, 181)),
   In([Anywhere EXCEPT !.latitude = -41]), In(Around(-91, 174, 0, 1)),
   In(Around(-41, 181, 0, 1)), In(Around(-41, 174, 0, 181)), In(Around(-41, 174, 2, 1))}
MCGets == GoodGets \cup BadGets

Line(n, s, l, c, start, end) ==
  [kind |-> "query", readable |-> TRUE, network |-> n, station |-> s, location |-> l,
   channel |-> c, start |-> start, end |-> end]
Star == {Anything}
LAll == Line(Star, Star, Star, Star, 0, Never)
LWel == Line({"NZ"}, {"WEL"}, Star, {"HHZ"}, 0, Never)
LSnzo == Line(Star, {"SNZO"}, Star, {"HHN"}, 0, Never)
LNear == Line({"NZ"}, Star, {"20"}, Star, 0, Never)
LAt10 == Line(Star, Star, {"10"}, Star, 0, Never)
LFrom2 == [LAll EXCEPT !.start = 2]
LUntil1 == [LAll EXCEPT !.end = 1]
LNone == [LAll EXCEPT !.network = {}]      \* a comma: no pattern at all
LevelLine(l) == [kind |-> "level", value |-> l]
FormatLine(f) == [kind |-> "format", value |-> f]
TextLine == FormatLine("text")
MCPosts ==
  {<<LevelLine(l), a, b>> : l \in {"network", "channel", "response"},
                            a \in {LWel, LNear, LFrom2}, b \in {LSnzo, LAt10, LUntil1}} \cup
  {<<LWel, LevelLine("response"), LUntil1>>, <<LWel, LSnzo, [kind |-> "junk"]>>,
   <<LAll, LWel>>, <<LevelLine("response"), TextLine, LAll>>,
   <<TextLine, LAll, LevelLine("response")>>, <<[kind |-> "other"], LNone>>,
   <<LevelLine("all"), LAll>>, <<LAll, LevelLine("")>>, <<LevelLine(""), LAll>>,
   <<FormatLine("json"), LAll>>, <<[LAll EXCEPT !.readable = FALSE]>>,
   <<LAll, [LAll EXCEPT !.channel = {BadName}]>>, <<>>}

=============================================================================
