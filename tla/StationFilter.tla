---------------------------- MODULE StationFilter --------------------------
(***************************************************************************)
(* cmd/fdsn-ws: how a station query is answered from the StationXML tree   *)
(* in memory.  Every request parses its parameter sets, filters a copy of  *)
(* the tree by all of them together, trims the copy to the level asked for *)
(* and marshals it.  The copy shares the Response structs of the channels  *)
(* with the tree, and so with every other request.                         *)
(*                                                                         *)
(* Regular expressions are sets of codes, or Anything ("^.*$", which is    *)
(* also what a pattern that is not given amounts to).  Positions are in    *)
(* whole degrees.  Times count from 1; 0 is the zero time and Never the    *)
(* year 9999.                                                              *)
(***************************************************************************)
EXTENDS Integers, Sequences

LOCAL INSTANCE SequencesExt

CONSTANTS
  Requests,     (* station queries that run at the same time               *)
  Networks, Stations, Channels,       (* the nodes of the tree             *)
  StationsOf, ChannelsOf,             (* their children                    *)
  Code, Location,                     (* codes of nodes, and of channels   *)
  Epoch,                              (* startDate and endDate of a node   *)
  Position,                           (* of stations and channels          *)
  Responding,   (* the channels that have a Response                       *)
  Codes, Anything,
  BadName,      (* a name with a character that GenRegex refuses           *)
  None,         (* a coordinate that was not given                         *)
  MaxTime,
  Gets, Posts   (* the GET queries and POST bodies considered              *)

Never == MaxTime + 1
Times == 0 .. Never
Nodes == Networks \cup Stations \cup Channels
Levels == {"network", "station", "channel", "response"}
LevelValue ==
  [network |-> 0, station |-> 1, channel |-> 2, response |-> 3]
Patterns == SUBSET (Codes \cup {Anything})

Latitude == -90 .. 90
Longitude == -180 .. 180
Number == Int \cup {None}
Area == [minlatitude: Number, maxlatitude: Number, minlongitude: Number, maxlongitude: Number,
         latitude: Number, longitude: Number, minradius: Int, maxradius: Int]

(* What a request asks for (fdsnStationV1Parm), in the names of its        *)
(* parameters.  It is readable if no value is empty and all of them        *)
(* decode; an empty level is told apart, since levelValue would take it.   *)
Names == SUBSET (Codes \cup {Anything, BadName})
Asked ==
  [readable: BOOLEAN, network: Names, station: Names, channel: Names, location: Names,
   area: Area, starttime: Times, startafter: Times, startbefore: Times,
   endtime: Times, endafter: Times, endbefore: Times,
   level: STRING, format: STRING, nodata: Nat,
   includeavailability: BOOLEAN, includerestricted: BOOLEAN, matchtimeseries: BOOLEAN]

(* What is searched for (fdsnStationV1Search).                             *)
Query ==
  [networks: Patterns, stations: Patterns, channels: Patterns, locations: Patterns,
   area: Area,
   start: [mode: {"onBeforeEnd", "before", "after"}, time: Times],
   end: [mode: {"onAfterStart", "before", "after"}, time: Times]]
Param == [query: Query, level: Levels, format: {"xml", "text"}, noData: {204, 404}]

ASSUME TreeAssumption ==
  /\ MaxTime \in Nat
  /\ StationsOf \in [Networks -> SUBSET Stations]
  /\ ChannelsOf \in [Stations -> SUBSET Channels]
  /\ Code \in [Nodes -> Codes] /\ Location \in [Channels -> Codes]
  /\ Epoch \in [Nodes -> [start: Times, end: Times]]
  /\ Position \in [Stations \cup Channels -> [latitude: Latitude, longitude: Longitude]]
  /\ Responding \subseteq Channels
  /\ Anything \notin Codes /\ BadName \notin Codes \cup {Anything}
  /\ None \notin Int
  /\ Gets \subseteq Asked

VARIABLES
  stages,       (* the channels whose Response in the tree has its stages  *)
  pc,           (* where each request is                                   *)
  params,       (* its parameter sets                                      *)
  networks, stations, channels,       (* its copy of the tree              *)
  own,          (* the channels of the copy with a Response of their own   *)
  status        (* the status it is answered with, 0 for none yet          *)

copyVars == <<networks, stations, channels, own>>
vars == <<stages, pc, params, copyVars, status>>

TypeOK ==
  /\ stages \subseteq Responding
  /\ pc \in [Requests -> {"idle", "parsed", "filtered", "trimmed", "done"}]
  /\ params \in [Requests -> Seq(Param)]
  /\ \A r \in Requests : pc[r] \in {"parsed", "filtered", "trimmed"} => params[r] # <<>>
  /\ networks \in [Requests -> SUBSET Networks]
  /\ stations \in [Requests -> SUBSET Stations]
  /\ channels \in [Requests -> SUBSET Channels]
  /\ own \in [Requests -> SUBSET Responding]
  /\ status \in [Requests -> {0, 200, 204, 400, 404, 405, 503}]

Init ==
  /\ stages = Responding
  /\ pc = [r \in Requests |-> "idle"]
  /\ params = [r \in Requests |-> <<>>]
  /\ networks = [r \in Requests |-> {}]
  /\ stations = [r \in Requests |-> {}]
  /\ channels = [r \in Requests |-> {}]
  /\ own = [r \in Requests |-> {}]
  /\ status = [r \in Requests |-> 0]

-----------------------------------------------------------------------------
(* Parsing                                                                 *)

Given(x) == x # None

Anywhere ==
  [minlatitude |-> None, maxlatitude |-> None, minlongitude |-> None, maxlongitude |-> None,
   latitude |-> None, longitude |-> None, minradius |-> 0, maxradius |-> 180]

(* The values of the parameters that are not given.                        *)
Defaults ==
  [readable |-> TRUE, network |-> {Anything}, station |-> {Anything},
   channel |-> {Anything}, location |-> {Anything}, area |-> Anywhere,
   starttime |-> 0, startafter |-> Never, startbefore |-> Never,
   endtime |-> Never, endafter |-> Never, endbefore |-> Never,
   level |-> "station", format |-> "xml", nodata |-> 204,
   includeavailability |-> FALSE, includerestricted |-> TRUE, matchtimeseries |-> FALSE]

(* Text has no response level.                                             *)
Unsupported(level, format) == level = "response" /\ format = "text"

FormatOK(p) == p.format \in {"xml", "text"} /\ ~Unsupported(p.level, p.format)

(* A time that equals its default counts as not given.                     *)
OneStart(p) ==
  /\ p.startafter # Never => p.starttime = 0 /\ p.startbefore = Never
  /\ p.startbefore # Never => p.starttime = 0
OneEnd(p) ==
  /\ p.endafter # Never => p.endtime = Never /\ p.endbefore = Never
  /\ p.endbefore # Never => p.endtime = Never

OptionsOK(p) ==
  /\ ~p.includeavailability /\ p.includerestricted /\ ~p.matchtimeseries
  /\ p.nodata \in {204, 404}

NamesOK(p) == BadName \notin p.network \cup p.station \cup p.channel \cup p.location

(* Of each pair of bounds one side is checked on each.                     *)
BoundsOK(a) ==
  /\ Given(a.minlatitude) => a.minlatitude >= -90
  /\ Given(a.maxlatitude) => a.maxlatitude <= 90
  /\ Given(a.minlongitude) => a.minlongitude >= -180
  /\ Given(a.maxlongitude) => a.maxlongitude <= 180

(* The radii are only looked at if there is a point.                       *)
PointOK(a) ==
  Given(a.longitude) \/ Given(a.latitude) =>
    /\ Given(a.longitude) /\ Given(a.latitude)
    /\ a.longitude \in Longitude /\ a.latitude \in Latitude
    /\ a.maxradius \in 0 .. 180 /\ a.minradius \in 0 .. 180
    /\ a.minradius <= a.maxradius

(* parseStationV1 returns a search, and no error.                          *)
Accepted(p) ==
  /\ p.readable /\ FormatOK(p) /\ OneStart(p) /\ OneEnd(p) /\ OptionsOK(p) /\ NamesOK(p)
  /\ p.level \in Levels /\ BoundsOK(p.area) /\ PointOK(p.area)

StartOf(p) ==
  IF p.startbefore # Never THEN [mode |-> "before", time |-> p.startbefore]
  ELSE IF p.startafter # Never THEN [mode |-> "after", time |-> p.startafter]
  ELSE [mode |-> "onBeforeEnd", time |-> p.starttime]
EndOf(p) ==
  IF p.endbefore # Never THEN [mode |-> "before", time |-> p.endbefore]
  ELSE IF p.endafter # Never THEN [mode |-> "after", time |-> p.endafter]
  ELSE [mode |-> "onAfterStart", time |-> p.endtime]

SearchOf(p) ==
  [query |-> [networks |-> p.network, stations |-> p.station, channels |-> p.channel,
              locations |-> p.location, area |-> p.area, start |-> StartOf(p), end |-> EndOf(p)],
   level |-> p.level, format |-> p.format, noData |-> p.nodata]

(* The six fields of a line of a POST, and the level and format so far.    *)
AskedBy(line, level, format) ==
  [Defaults EXCEPT !.readable = line.readable,
                   !.network = line.network, !.station = line.station,
                   !.location = line.location, !.channel = line.channel,
                   !.starttime = line.start, !.endtime = line.end,
                   !.level = level, !.format = format]

(* parseStationV1Post: a level or format line holds for the lines after    *)
(* it.  Other assignments, nodata among them, are ignored.                 *)
ReadLine(line, p) ==
  LET asked == AskedBy(line, p.level, p.format) IN
  CASE ~p.ok -> p
    [] line.kind = "level" ->
         [p EXCEPT !.level = line.value, !.ok = line.value \in Levels \cup {""}]
    [] line.kind = "format" ->
         [p EXCEPT !.format = line.value, !.ok = line.value \in {"xml", "text"}]
    [] line.kind = "other" -> p
    [] line.kind = "query" /\ Accepted(asked) ->
         [p EXCEPT !.params = Append(@, SearchOf(asked))]
    [] OTHER -> [p EXCEPT !.ok = FALSE]
ParsePost(lines) ==
  FoldLeft(LAMBDA p, line : ReadLine(line, p),
           [ok |-> TRUE, level |-> "station", format |-> "xml", params |-> <<>>], lines)

(* The bodies considered are made of lines as above.                       *)
ASSUME PostAssumption ==
  \A lines \in Posts : ParsePost(lines).ok => ParsePost(lines).params \in Seq(Param)

Finished(r, code) ==
  /\ pc' = [pc EXCEPT ![r] = "done"]
  /\ status' = [status EXCEPT ![r] = code]

Parsed(r, ps) ==
  /\ pc' = [pc EXCEPT ![r] = "parsed"]
  /\ params' = [params EXCEPT ![r] = ps]
  /\ UNCHANGED status

Get(r, p) ==
  /\ pc[r] = "idle"
  /\ IF Accepted(p)
     THEN Parsed(r, <<SearchOf(p)>>)
     ELSE Finished(r, 400) /\ UNCHANGED params
  /\ UNCHANGED <<stages, copyVars>>

(* Nothing is parsed of a POST whose body cannot be read (400), or of      *)
(* another method (405).                                                   *)
Refuse(r, code) ==
  /\ pc[r] = "idle"
  /\ Finished(r, code)
  /\ UNCHANGED <<stages, params, copyVars>>

(* Mutant of Post: a body without a parameter set is not refused.          *)
PostUnchecked(r, lines) ==
  LET parsed == ParsePost(lines) IN
  /\ pc[r] = "idle"
  /\ IF ~parsed.ok \/ Unsupported(parsed.level, parsed.format)
     THEN Finished(r, 400) /\ UNCHANGED params
     ELSE Parsed(r, parsed.params)
  /\ UNCHANGED <<stages, copyVars>>

Post(r, lines) ==
  LET parsed == ParsePost(lines) IN
  /\ pc[r] = "idle"
  /\ IF \/ ~parsed.ok \/ Unsupported(parsed.level, parsed.format)
        \/ parsed.params = <<>>
     THEN Finished(r, 400) /\ UNCHANGED params
     ELSE Parsed(r, parsed.params)
  /\ UNCHANGED <<stages, copyVars>>

-----------------------------------------------------------------------------
(* Filtering                                                               *)

Has(pattern, code) == Anything \in pattern \/ code \in pattern

validStart(st, e) ==
  \/ st.time = 0
  \/ st.mode = "onBeforeEnd" /\ (e.end = 0 \/ e.end >= st.time)
  \/ st.mode = "before" /\ (e.start = Never \/ e.start < st.time)
  \/ st.mode = "after" /\ e.start # Never /\ e.start > st.time

validEnd(et, e) ==
  \/ et.time = Never
  \/ et.mode = "onAfterStart" /\ (e.start = Never \/ e.start <= et.time)
  \/ et.mode = "before" /\ e.end # 0 /\ e.end < et.time
  \/ et.mode = "after" /\ (e.end = 0 \/ e.end > et.time)

(* The time filter holds for networks and stations only at their own       *)
(* level, and for channels at every level.                                 *)
validStartEnd(p, node, level) ==
  \/ p.level # level /\ level \in {"network", "station"}
  \/ validStart(p.query.start, Epoch[node]) /\ validEnd(p.query.end, Epoch[node])

validLatLng(a, x) ==
  /\ Given(a.minlatitude) => x.latitude >= a.minlatitude
  /\ Given(a.maxlatitude) => x.latitude <= a.maxlatitude
  /\ Given(a.minlongitude) => x.longitude >= a.minlongitude
  /\ Given(a.maxlongitude) => x.longitude <= a.maxlongitude

(* wgs84.DistanceBearing, squared, in a plane of degrees that closes at    *)
(* the date line.                                                          *)
Square(x) == x * x
Apart(x, y) ==
  LET gap == (x - y) % 360 IN IF gap > 180 THEN 360 - gap ELSE gap
Distance2(a, x) ==
  Square(x.latitude - a.latitude) + Square(Apart(x.longitude, a.longitude))

validBounding(a, x) ==
  \/ ~Given(a.latitude)
  \/ Distance2(a, x) >= Square(a.minradius) /\ Distance2(a, x) <= Square(a.maxradius)

Within(p, node) ==
  validLatLng(p.query.area, Position[node]) /\ validBounding(p.query.area, Position[node])

NetworkMatches(p, n) ==
  validStartEnd(p, n, "network") /\ Has(p.query.networks, Code[n])
StationMatches(p, s) ==
  /\ validStartEnd(p, s, "station") /\ Has(p.query.stations, Code[s])
  /\ Within(p, s)
ChannelMatches(p, c) ==
  /\ validStartEnd(p, c, "channel")
  /\ Has(p.query.channels, Code[c]) /\ Has(p.query.locations, Location[c])
  /\ Within(p, c)

(* Mutant of MatchedByStation: a station that matches one parameter set    *)
(* hands all of them down.                                                 *)
MatchedByAny(ps, s) == {p \in ps : \E x \in ps : StationMatches(x, s)}

(* matchedParams: what a node hands down to its children.                  *)
MatchedByNetwork(ps, n) == {p \in ps : NetworkMatches(p, n)}
MatchedByStation(ps, s) == {p \in ps : StationMatches(p, s)}

(* A node without children goes if one of the sets that it matches asks    *)
(* for particular children.                                                *)
AnyChannel(p) == Anything \in p.query.channels /\ Anything \in p.query.locations
AnyStation(p) == Anything \in p.query.stations /\ AnyChannel(p)

KeepsChannel(ps, c) == \E p \in ps : ChannelMatches(p, c)

KeepsStation(ps, s) ==
  LET matched == MatchedByStation(ps, s) IN
  /\ matched # {}
  /\ IF ChannelsOf[s] = {} THEN \A p \in matched : AnyChannel(p)
     ELSE \E c \in ChannelsOf[s] : KeepsChannel(matched, c)

(* Mutant of KeepsNetwork: stations are not looked at when they are not    *)
(* going to be shown.                                                      *)
KeepsNetworkEarly(ps, n) ==
  LET matched == MatchedByNetwork(ps, n) IN
  /\ matched # {}
  /\ \/ \A p \in ps : p.level = "network"
     \/ StationsOf[n] = {} /\ \A p \in matched : AnyStation(p)
     \/ \E s \in StationsOf[n] : KeepsStation(matched, s)

KeepsNetwork(ps, n) ==
  LET matched == MatchedByNetwork(ps, n) IN
  /\ matched # {}
  /\ IF StationsOf[n] = {} THEN \A p \in matched : AnyStation(p)
     ELSE \E s \in StationsOf[n] : KeepsStation(matched, s)

KeptStations(ps) ==
  UNION {{s \in StationsOf[n] : KeepsStation(MatchedByNetwork(ps, n), s)} :
            n \in {x \in Networks : KeepsNetwork(ps, x)}}
KeptChannels(ps) ==
  UNION {UNION {{c \in ChannelsOf[s] :
                   KeepsChannel(MatchedByStation(MatchedByNetwork(ps, n), s), c)} :
                   s \in StationsOf[n]} :
            n \in {x \in Networks : KeepsNetwork(ps, x)}}

(* The parameter sets of a request; their order does not matter to the     *)
(* filter.                                                                 *)
ParamsOf(r) == ToSet(params[r])

(* FDSNStationXML.doFilter, which only reads the tree: nodes are copied    *)
(* into new slices as they are kept.                                       *)
DoFilter(r) ==
  LET ps == ParamsOf(r)
      kept == {n \in Networks : KeepsNetwork(ps, n)}
  IN
  /\ pc[r] = "parsed"
  /\ networks' = [networks EXCEPT ![r] = kept]
  /\ stations' = [stations EXCEPT ![r] = KeptStations(ps)]
  /\ channels' = [channels EXCEPT ![r] = KeptChannels(ps)]
  /\ IF kept = {}
     THEN Finished(r, params[r][1].noData)
     ELSE pc' = [pc EXCEPT ![r] = "filtered"] /\ UNCHANGED status
  /\ UNCHANGED <<stages, params, own>>

-----------------------------------------------------------------------------
(* Trimming and marshalling                                                *)

(* The level is that of the first parameter set, although a POST may have  *)
(* given others to the rest.                                               *)
Level(r) == LevelValue[params[r][1].level]

(* Mutant of TrimLevel: the stages are taken from the shared Response.     *)
TrimInPlace(r) ==
  /\ pc[r] = "filtered"
  /\ stations' = [stations EXCEPT ![r] = IF Level(r) < 1 THEN {} ELSE @]
  /\ channels' = [channels EXCEPT ![r] = IF Level(r) < 2 THEN {} ELSE @]
  /\ stages' = IF Level(r) = 2 THEN stages \ channels[r] ELSE stages
  /\ pc' = [pc EXCEPT ![r] = "trimmed"]
  /\ UNCHANGED <<params, networks, own, status>>

(* trimLevel cuts children off the copy, and gives the channels that stay  *)
(* a Response without stages instead of the one they share.                *)
TrimLevel(r) ==
  /\ pc[r] = "filtered"
  /\ stations' = [stations EXCEPT ![r] = IF Level(r) < 1 THEN {} ELSE @]
  /\ channels' = [channels EXCEPT ![r] = IF Level(r) < 2 THEN {} ELSE @]
  /\ own' = [own EXCEPT ![r] = IF Level(r) = 2 THEN channels[r] \cap Responding ELSE {}]
  /\ pc' = [pc EXCEPT ![r] = "trimmed"]
  /\ UNCHANGED <<stages, params, networks, status>>

(* xml.Marshal or marshalText: reads the copy and what it shares.          *)
Marshal(r) ==
  /\ pc[r] = "trimmed"
  /\ Finished(r, 200)
  /\ UNCHANGED <<stages, params, copyVars>>

(* An error of xml.Marshal has no status of its own, which makes it a 503. *)
MarshalFails(r) ==
  /\ pc[r] = "trimmed" /\ params[r][1].format = "xml"
  /\ Finished(r, 503)
  /\ UNCHANGED <<stages, params, copyVars>>

NextRequest(r) ==
  /\ pc[r] = "done"
  /\ pc' = [pc EXCEPT ![r] = "idle"]
  /\ params' = [params EXCEPT ![r] = <<>>]
  /\ status' = [status EXCEPT ![r] = 0]
  /\ networks' = [networks EXCEPT ![r] = {}]
  /\ stations' = [stations EXCEPT ![r] = {}]
  /\ channels' = [channels EXCEPT ![r] = {}]
  /\ own' = [own EXCEPT ![r] = {}]
  /\ UNCHANGED stages

-----------------------------------------------------------------------------
Next ==
  \E r \in Requests :
    \/ \E p \in Gets : Get(r, p)
    \/ \E lines \in Posts : Post(r, lines)
    \/ \E code \in {400, 405} : Refuse(r, code)
    \/ DoFilter(r) \/ TrimLevel(r) \/ Marshal(r) \/ MarshalFails(r) \/ NextRequest(r)

Spec == Init /\ [][Next]_vars

-----------------------------------------------------------------------------
(* Properties                                                              *)

Answered(r) == pc[r] = "done" /\ status[r] = 200

(* One parameter set selects a channel on its own if it matches the        *)
(* channel, its station and its network.                                   *)
Selects(p, n, s, c) ==
  NetworkMatches(p, n) /\ StationMatches(p, s) /\ ChannelMatches(p, c)
Selected(ps, n, s, c) ==
  /\ s \in StationsOf[n] /\ c \in ChannelsOf[s]
  /\ \E p \in ps : Selects(p, n, s, c)

(* What is shown of a node without children is left open.                  *)
Childless(n) == StationsOf[n] = {} \/ \E s \in StationsOf[n] : ChannelsOf[s] = {}

(* An answer to several parameter sets is the union of what each of them   *)
(* selects alone: a channel is not shown because one set matches its       *)
(* network, another its station and a third its code, and a node with      *)
(* children is shown exactly when a child of it is selected.               *)
AnswerIsTheUnion ==
  \A r \in Requests : Answered(r) =>
    LET ps == ParamsOf(r) IN
    /\ Level(r) >= 2 =>
         channels[r] = {c \in Channels : \E n \in Networks, s \in Stations : Selected(ps, n, s, c)}
    /\ Level(r) >= 1 =>
         \A s \in Stations : ChannelsOf[s] # {} =>
           (s \in stations[r] <=> \E n \in Networks, c \in Channels : Selected(ps, n, s, c))
    /\ \A n \in Networks :
         LET some == \E s \in StationsOf[n], c \in Channels : Selected(ps, n, s, c) IN
         /\ some => n \in networks[r]
         /\ n \in networks[r] => some \/ Childless(n)

(* What a request reads of a Response is not changed by what others trim:  *)
(* stages are there at response level, and only there.                     *)
HasStages(r, c) == c \in stages /\ c \notin own[r]
ResponsesAreWhole ==
  \A r \in Requests : Answered(r) =>
    \A c \in channels[r] \cap Responding : HasStages(r, c) <=> Level(r) = 3

(* The level says how much is shown of the networks and stations that are  *)
(* found, and not which ones are found, unless there is a time filter.     *)
Timeless(ps) == \A p \in ps : p.query.start.time = 0 /\ p.query.end.time = Never
Queries(r) == [n \in DOMAIN params[r] |-> params[r][n].query]
LevelOnlyTrims ==
  \A r, t \in Requests :
    Answered(r) /\ Answered(t) /\ Queries(r) = Queries(t) /\ Timeless(ParamsOf(r)) =>
      /\ networks[r] = networks[t]
      /\ Level(r) >= 1 /\ Level(t) >= 1 => stations[r] = stations[t]

=============================================================================
