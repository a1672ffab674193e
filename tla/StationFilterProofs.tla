------------------------ MODULE StationFilterProofs ------------------------
(***************************************************************************)
(* Theorems about StationFilter, for any tree, queries and requests.       *)
(***************************************************************************)
EXTENDS StationFilter, TLAPS

LOCAL INSTANCE SequencesExt

-----------------------------------------------------------------------------
(* What the recursion of the filter finds                                  *)

KeptNetworks(ps) == {n \in Networks : KeepsNetwork(ps, n)}

(* A station with channels is kept under a network exactly when one        *)
(* parameter set selects a channel of it there.                            *)
LEMMA StationOfSelected ==
  ASSUME NEW ps, NEW n \in Networks, NEW s \in StationsOf[n], ChannelsOf[s] # {}
  PROVE  KeepsStation(MatchedByNetwork(ps, n), s)
           <=> \E c \in ChannelsOf[s] : Selected(ps, n, s, c)
<1>1. \A c \in ChannelsOf[s] :
        KeepsChannel(MatchedByStation(MatchedByNetwork(ps, n), s), c)
          <=> Selected(ps, n, s, c)
  BY DEF KeepsChannel, MatchedByStation, MatchedByNetwork, Selected, Selects
<1>2. ASSUME NEW c \in ChannelsOf[s], Selected(ps, n, s, c)
      PROVE  MatchedByStation(MatchedByNetwork(ps, n), s) # {}
  BY <1>2 DEF MatchedByStation, MatchedByNetwork, Selected, Selects
<1> QED
  BY <1>1, <1>2 DEF KeepsStation

LEMMA SelectedKeepsNetwork ==
  ASSUME NEW ps, NEW n \in Networks, NEW s, NEW c, Selected(ps, n, s, c)
  PROVE  KeepsNetwork(ps, n)
<1>1. s \in StationsOf[n] /\ ChannelsOf[s] # {}
  BY DEF Selected
<1>2. KeepsStation(MatchedByNetwork(ps, n), s)
  BY <1>1, StationOfSelected DEF Selected
<1>3. MatchedByNetwork(ps, n) # {}
  BY DEF MatchedByNetwork, Selected, Selects
<1> QED
  BY <1>1, <1>2, <1>3 DEF KeepsNetwork

LEMMA KeptNetworkSelects ==
  ASSUME NEW ps, NEW n \in Networks, KeepsNetwork(ps, n), ~Childless(n)
  PROVE  \E s \in StationsOf[n] : \E c \in ChannelsOf[s] : Selected(ps, n, s, c)
<1>1. PICK s \in StationsOf[n] : KeepsStation(MatchedByNetwork(ps, n), s)
  BY DEF KeepsNetwork, Childless
<1>2. ChannelsOf[s] # {}
  BY DEF Childless
<1> QED
  BY <1>1, <1>2, StationOfSelected

(* The channels kept are those that are selected.                          *)
LEMMA ChannelsSelected ==
  ASSUME NEW ps
  PROVE  KeptChannels(ps) =
           {c \in Channels : \E n \in Networks, s \in Stations : Selected(ps, n, s, c)}
<1> DEFINE Under(n, s) ==
      {c \in ChannelsOf[s] :
         KeepsChannel(MatchedByStation(MatchedByNetwork(ps, n), s), c)}
<1>1. \A n \in Networks : \A s \in StationsOf[n] :
        s \in Stations /\ ChannelsOf[s] \subseteq Channels
  BY TreeAssumption
<1>2. \A n \in Networks : \A s \in StationsOf[n] : \A c :
        c \in Under(n, s) <=> Selected(ps, n, s, c)
  BY DEF KeepsChannel, MatchedByStation, MatchedByNetwork, Selected, Selects
<1>3. \A c : c \in KeptChannels(ps) <=>
        \E n \in KeptNetworks(ps) : \E s \in StationsOf[n] : c \in Under(n, s)
  BY DEF KeptChannels, KeptNetworks
<1>4. \A n \in Networks : \A s, c : Selected(ps, n, s, c) =>
        n \in KeptNetworks(ps) /\ s \in StationsOf[n] /\ c \in ChannelsOf[s]
  BY SelectedKeepsNetwork DEF KeptNetworks, Selected
<1>5. KeptNetworks(ps) \subseteq Networks
  BY DEF KeptNetworks
<1> HIDE DEF Under
<1>6. ASSUME NEW c \in KeptChannels(ps)
      PROVE  c \in Channels /\ \E n \in Networks, s \in Stations : Selected(ps, n, s, c)
  BY <1>1, <1>2, <1>3, <1>4, <1>5
<1>7. ASSUME NEW c \in Channels, NEW n \in Networks, NEW s \in Stations,
             Selected(ps, n, s, c)
      PROVE  c \in KeptChannels(ps)
  BY <1>2, <1>3, <1>4, <1>7
<1> QED
  BY <1>6, <1>7

(* Of the stations with channels, those are kept that have a selected one. *)
LEMMA StationsSelected ==
  ASSUME NEW ps, NEW s \in Stations, ChannelsOf[s] # {}
  PROVE  s \in KeptStations(ps)
           <=> \E n \in Networks, c \in Channels : Selected(ps, n, s, c)
<1>1. s \in KeptStations(ps) <=>
        \E n \in KeptNetworks(ps) :
          s \in StationsOf[n] /\ KeepsStation(MatchedByNetwork(ps, n), s)
  BY DEF KeptStations, KeptNetworks
<1>2. \A n \in Networks : s \in StationsOf[n] =>
        (KeepsStation(MatchedByNetwork(ps, n), s)
           <=> \E c \in ChannelsOf[s] : Selected(ps, n, s, c))
  BY StationOfSelected
<1>3. \A n \in Networks : \A c : Selected(ps, n, s, c) =>
        n \in KeptNetworks(ps) /\ s \in StationsOf[n] /\ c \in ChannelsOf[s]
  BY SelectedKeepsNetwork DEF KeptNetworks, Selected
<1>4. KeptNetworks(ps) \subseteq Networks /\ ChannelsOf[s] \subseteq Channels
  BY TreeAssumption DEF KeptNetworks
<1> QED
  BY <1>1, <1>2, <1>3, <1>4

-----------------------------------------------------------------------------
(* Types                                                                   *)

LEMMA LevelType ==
  ASSUME TypeOK, NEW r \in Requests, pc[r] \in {"parsed", "filtered", "trimmed"}
  PROVE  /\ Level(r) \in 0 .. 3
         /\ params[r][1].noData \in {204, 404}
<1>1. params[r] \in Seq(Param) /\ params[r] # <<>>
  BY DEF TypeOK
<1>2. params[r][1] \in Param
  BY <1>1
<1>3. params[r][1].level \in Levels /\ params[r][1].noData \in {204, 404}
  BY <1>2 DEF Param
<1>4. \A level \in Levels : LevelValue[level] \in 0 .. 3
  BY DEF LevelValue, Levels
<1> QED
  BY <1>3, <1>4 DEF Level

(* What parseStationV1 accepts is a search.                                *)
LEMMA SearchType ==
  ASSUME NEW p \in Asked, Accepted(p)
  PROVE  SearchOf(p) \in Param
<1>1. /\ p.network \in Patterns /\ p.station \in Patterns
      /\ p.channel \in Patterns /\ p.location \in Patterns
  BY DEF Accepted, NamesOK, Asked, Names, Patterns
<1>2. StartOf(p) \in [mode: {"onBeforeEnd", "before", "after"}, time: Times]
  BY DEF StartOf, Asked
<1>3. EndOf(p) \in [mode: {"onAfterStart", "before", "after"}, time: Times]
  BY DEF EndOf, Asked
<1>4. p.area \in Area
  BY DEF Asked
<1>5. p.level \in Levels /\ p.format \in {"xml", "text"} /\ p.nodata \in {204, 404}
  BY DEF Accepted, FormatOK, OptionsOK
<1> QED
  BY <1>1, <1>2, <1>3, <1>4, <1>5 DEF SearchOf, Param, Query

LEMMA KeptType ==
  ASSUME NEW ps
  PROVE  KeptStations(ps) \subseteq Stations /\ KeptChannels(ps) \subseteq Channels
  BY TreeAssumption DEF KeptStations, KeptChannels

(* Type correctness: the copy of the tree that a request makes consists of *)
(* nodes of the tree, and no request gets past the parser without a        *)
(* parameter set, whose first decides the level and the nodata status.     *)
THEOREM FilterTypes == Spec => []TypeOK
<1>1. Init => TypeOK
  BY DEF Init, TypeOK
<1>2. TypeOK /\ [Next]_vars => TypeOK'
  <2> SUFFICES ASSUME TypeOK, [Next]_vars
               PROVE  TypeOK'
    OBVIOUS
  <2>1. ASSUME NEW r \in Requests, NEW p \in Gets, Get(r, p)
        PROVE  TypeOK'
    <3>1. CASE ~Accepted(p)
      <4>1. /\ pc' = [pc EXCEPT ![r] = "done"]
            /\ status' = [status EXCEPT ![r] = 400]
            /\ UNCHANGED <<stages, networks, stations, channels, own, params>>
        BY <2>1, <3>1 DEF Get, Finished, copyVars
      <4> QED
        BY <4>1 DEF TypeOK
    <3>2. CASE Accepted(p)
      <4>1. /\ pc' = [pc EXCEPT ![r] = "parsed"]
            /\ params' = [params EXCEPT ![r] = <<SearchOf(p)>>]
            /\ UNCHANGED <<stages, networks, stations, channels, own, status>>
        BY <2>1, <3>2 DEF Get, Parsed, copyVars
      <4>2. SearchOf(p) \in Param
        BY <3>2, SearchType, TreeAssumption
      <4>3. <<SearchOf(p)>> \in Seq(Param) /\ <<SearchOf(p)>> # <<>>
        BY <4>2
      <4> QED
        BY <4>1, <4>3 DEF TypeOK
    <3> QED
      BY <3>1, <3>2
  <2>2. ASSUME NEW r \in Requests, NEW lines \in Posts, Post(r, lines)
        PROVE  TypeOK'
    <3> DEFINE parsed == ParsePost(lines)
    <3>1. parsed.ok => parsed.params \in Seq(Param)
      BY PostAssumption
    <3>2. CASE /\ parsed.ok /\ parsed.params # <<>>
               /\ ~Unsupported(parsed.level, parsed.format)
      <4>1. /\ pc' = [pc EXCEPT ![r] = "parsed"]
            /\ params' = [params EXCEPT ![r] = parsed.params]
            /\ UNCHANGED <<stages, networks, stations, channels, own, status>>
        BY <2>2, <3>2 DEF Post, Parsed, copyVars
      <4> HIDE DEF parsed
      <4> QED
        BY <3>1, <3>2, <4>1 DEF TypeOK
    <3>3. CASE ~(/\ parsed.ok /\ parsed.params # <<>>
                 /\ ~Unsupported(parsed.level, parsed.format))
      <4>1. /\ pc' = [pc EXCEPT ![r] = "done"]
            /\ status' = [status EXCEPT ![r] = 400]
            /\ UNCHANGED <<stages, networks, stations, channels, own, params>>
        BY <2>2, <3>3 DEF Post, Finished, copyVars
      <4> QED
        BY <4>1 DEF TypeOK
    <3> QED
      BY <3>2, <3>3
  <2>3. ASSUME NEW r \in Requests, DoFilter(r)
        PROVE  TypeOK'
    <3>1. params[r][1].noData \in {204, 404}
      BY <2>3, LevelType DEF DoFilter
    <3>2. KeptStations(ParamsOf(r)) \subseteq Stations
          /\ KeptChannels(ParamsOf(r)) \subseteq Channels
      BY KeptType
    <3>3. /\ networks' \in [Requests -> SUBSET Networks]
          /\ stations' \in [Requests -> SUBSET Stations]
          /\ channels' \in [Requests -> SUBSET Channels]
      BY <2>3, <3>2 DEF TypeOK, DoFilter
    <3>4. /\ pc' \in [Requests -> {"idle", "parsed", "filtered", "trimmed", "done"}]
          /\ status' \in [Requests -> {0, 200, 204, 400, 404, 405, 503}]
          /\ \A t \in Requests \ {r} : pc'[t] = pc[t]
      <4>1. PICK code \in {204, 404} :
              \/ /\ pc' = [pc EXCEPT ![r] = "done"]
                 /\ status' = [status EXCEPT ![r] = code]
              \/ pc' = [pc EXCEPT ![r] = "filtered"] /\ UNCHANGED status
        BY <2>3, <3>1 DEF DoFilter, Finished
      <4>2. pc \in [Requests -> {"idle", "parsed", "filtered", "trimmed", "done"}]
            /\ status \in [Requests -> {0, 200, 204, 400, 404, 405, 503}]
        BY DEF TypeOK
      <4> QED
        BY <4>1, <4>2
    <3>5. params[r] # <<>> /\ UNCHANGED <<stages, params, own>>
      BY <2>3 DEF TypeOK, DoFilter
    <3>6. \A t \in Requests :
            pc'[t] \in {"parsed", "filtered", "trimmed"} => params'[t] # <<>>
      BY <3>4, <3>5 DEF TypeOK
    <3>7. /\ stages' \subseteq Responding
          /\ params' \in [Requests -> Seq(Param)]
          /\ own' \in [Requests -> SUBSET Responding]
      BY <3>5 DEF TypeOK
    <3> QED
      BY <3>3, <3>4, <3>6, <3>7 DEF TypeOK
  <2>4. ASSUME NEW r \in Requests, TrimLevel(r)
        PROVE  TypeOK'
    BY <2>4 DEF TypeOK, TrimLevel
  <2>5. ASSUME NEW r \in Requests, Marshal(r)
        PROVE  TypeOK'
    BY <2>5 DEF TypeOK, Marshal, Finished, copyVars
  <2>6. ASSUME NEW r \in Requests, NextRequest(r)
        PROVE  TypeOK'
    BY <2>6 DEF TypeOK, NextRequest
  <2>7. ASSUME NEW r \in Requests, NEW code \in {400, 405}, Refuse(r, code)
        PROVE  TypeOK'
    BY <2>7 DEF TypeOK, Refuse, Finished, copyVars
  <2>8. ASSUME NEW r \in Requests, MarshalFails(r)
        PROVE  TypeOK'
    BY <2>8 DEF TypeOK, MarshalFails, Finished, copyVars
  <2>9. CASE UNCHANGED vars
    BY <2>9 DEF TypeOK, vars, copyVars
  <2> QED
    BY <2>1, <2>2, <2>3, <2>4, <2>5, <2>6, <2>7, <2>8, <2>9 DEF Next
<1> QED
  BY <1>1, <1>2, PTL DEF Spec

-----------------------------------------------------------------------------
(* The copy of the tree that each request holds                            *)

FilteredCopy(r) ==
  /\ networks[r] = KeptNetworks(ParamsOf(r))
  /\ stations[r] = KeptStations(ParamsOf(r))
  /\ channels[r] = KeptChannels(ParamsOf(r))

TrimmedCopy(r) ==
  /\ Level(r) \in 0 .. 3
  /\ networks[r] = KeptNetworks(ParamsOf(r))
  /\ stations[r] = IF Level(r) < 1 THEN {} ELSE KeptStations(ParamsOf(r))
  /\ channels[r] = IF Level(r) < 2 THEN {} ELSE KeptChannels(ParamsOf(r))
  /\ own[r] = IF Level(r) = 2 THEN channels[r] \cap Responding ELSE {}

CopyInv(r) ==
  /\ pc[r] = "filtered" => FilteredCopy(r)
  /\ pc[r] = "trimmed" \/ Answered(r) => TrimmedCopy(r)

FilterInv ==
  /\ stages = Responding
  /\ \A r \in Requests : CopyInv(r)

(* What a request does leaves the others alone.                            *)
LEMMA OthersKeepCopyInv ==
  ASSUME NEW t, CopyInv(t),
         pc'[t] = pc[t], params'[t] = params[t], status'[t] = status[t],
         networks'[t] = networks[t], stations'[t] = stations[t],
         channels'[t] = channels[t], own'[t] = own[t]
  PROVE  CopyInv(t)'
  BY DEF CopyInv, FilteredCopy, TrimmedCopy, Answered, Level, ParamsOf

LEMMA GetKeepsFilterInv ==
  ASSUME TypeOK, FilterInv, NEW r \in Requests, NEW p \in Gets, Get(r, p)
  PROVE  FilterInv'
<1>1. /\ stages' = stages
      /\ pc'[r] = "parsed" \/ (pc'[r] = "done" /\ status'[r] = 400)
      /\ UNCHANGED copyVars
      /\ \A t \in Requests \ {r} :
           pc'[t] = pc[t] /\ params'[t] = params[t] /\ status'[t] = status[t]
  BY DEF TypeOK, Get, Finished, Parsed
<1>2. \A t \in Requests \ {r} : CopyInv(t)'
  BY <1>1, OthersKeepCopyInv DEF FilterInv, copyVars
<1>3. CopyInv(r)'
  BY <1>1 DEF CopyInv, Answered
<1> QED
  BY <1>1, <1>2, <1>3 DEF FilterInv

LEMMA PostKeepsFilterInv ==
  ASSUME TypeOK, FilterInv, NEW r \in Requests, NEW lines \in Posts, Post(r, lines)
  PROVE  FilterInv'
<1>1. /\ stages' = stages
      /\ pc'[r] = "parsed" \/ (pc'[r] = "done" /\ status'[r] = 400)
      /\ UNCHANGED copyVars
      /\ \A t \in Requests \ {r} :
           pc'[t] = pc[t] /\ params'[t] = params[t] /\ status'[t] = status[t]
  BY DEF TypeOK, Post, Finished, Parsed
<1>2. \A t \in Requests \ {r} : CopyInv(t)'
  BY <1>1, OthersKeepCopyInv DEF FilterInv, copyVars
<1>3. CopyInv(r)'
  BY <1>1 DEF CopyInv, Answered
<1> QED
  BY <1>1, <1>2, <1>3 DEF FilterInv

LEMMA DoFilterKeepsFilterInv ==
  ASSUME TypeOK, FilterInv, NEW r \in Requests, DoFilter(r)
  PROVE  FilterInv'
<1>1. /\ params[r][1].noData \in {204, 404}
      /\ UNCHANGED <<stages, params, own>>
  BY LevelType DEF DoFilter
<1>2. \/ /\ pc' = [pc EXCEPT ![r] = "done"]
         /\ status' = [status EXCEPT ![r] = params[r][1].noData]
      \/ pc' = [pc EXCEPT ![r] = "filtered"] /\ UNCHANGED status
  BY DEF DoFilter, Finished
<1>3. /\ networks' = [networks EXCEPT ![r] = KeptNetworks(ParamsOf(r))]
      /\ stations' = [stations EXCEPT ![r] = KeptStations(ParamsOf(r))]
      /\ channels' = [channels EXCEPT ![r] = KeptChannels(ParamsOf(r))]
  BY DEF DoFilter, KeptNetworks
<1>4. \A t \in Requests \ {r} :
        /\ pc'[t] = pc[t] /\ params'[t] = params[t] /\ status'[t] = status[t]
        /\ networks'[t] = networks[t] /\ stations'[t] = stations[t]
        /\ channels'[t] = channels[t] /\ own'[t] = own[t]
  BY <1>1, <1>2, <1>3 DEF TypeOK
<1>5. \A t \in Requests \ {r} : CopyInv(t)'
  BY <1>4, OthersKeepCopyInv DEF FilterInv
<1>6. pc'[r] = "filtered" \/ (pc'[r] = "done" /\ status'[r] \in {204, 404})
  BY <1>1, <1>2 DEF TypeOK
<1>7. FilteredCopy(r)'
  BY <1>1, <1>3 DEF FilteredCopy, ParamsOf, TypeOK
<1>8. CopyInv(r)'
  BY <1>6, <1>7 DEF CopyInv, Answered
<1> QED
  BY <1>1, <1>5, <1>8 DEF FilterInv

LEMMA TrimLevelKeepsFilterInv ==
  ASSUME TypeOK, FilterInv, NEW r \in Requests, TrimLevel(r)
  PROVE  FilterInv'
<1>1. /\ UNCHANGED <<stages, params, networks, status>>
      /\ pc[r] = "filtered"
      /\ Level(r) \in 0 .. 3
  BY LevelType DEF TrimLevel
<1>2. \A t \in Requests \ {r} :
        /\ pc'[t] = pc[t] /\ stations'[t] = stations[t]
        /\ channels'[t] = channels[t] /\ own'[t] = own[t]
  BY DEF TypeOK, TrimLevel
<1>3. \A t \in Requests \ {r} : CopyInv(t)'
  BY <1>1, <1>2, OthersKeepCopyInv DEF FilterInv
<1>4. /\ pc'[r] = "trimmed"
      /\ stations'[r] = IF Level(r) < 1 THEN {} ELSE stations[r]
      /\ channels'[r] = IF Level(r) < 2 THEN {} ELSE channels[r]
      /\ own'[r] = IF Level(r) = 2 THEN channels[r] \cap Responding ELSE {}
  BY DEF TypeOK, TrimLevel
<1>5. FilteredCopy(r)
  BY <1>1 DEF FilterInv, CopyInv
<1>6. Level(r)' = Level(r) /\ ParamsOf(r)' = ParamsOf(r)
  BY <1>1 DEF Level, ParamsOf
<1>7. /\ networks'[r] = KeptNetworks(ParamsOf(r))
      /\ stations'[r] = IF Level(r) < 1 THEN {} ELSE KeptStations(ParamsOf(r))
      /\ channels'[r] = IF Level(r) < 2 THEN {} ELSE KeptChannels(ParamsOf(r))
      /\ own'[r] = IF Level(r) = 2 THEN channels'[r] \cap Responding ELSE {}
  <2>1. ~(2 < 2)
    OBVIOUS
  <2>2. Level(r) = 2 => channels'[r] = channels[r]
    BY <1>4, <2>1, Zenon
  <2> QED
    BY <1>1, <1>4, <1>5, <2>2, Zenon DEF FilteredCopy
<1>8. TrimmedCopy(r)'
  BY <1>1, <1>6, <1>7 DEF TrimmedCopy
<1>9. CopyInv(r)'
  BY <1>4, <1>8 DEF CopyInv
<1> QED
  BY <1>1, <1>3, <1>9 DEF FilterInv

LEMMA MarshalKeepsFilterInv ==
  ASSUME TypeOK, FilterInv, NEW r \in Requests, Marshal(r)
  PROVE  FilterInv'
<1>1. /\ UNCHANGED <<stages, params, copyVars>>
      /\ pc[r] = "trimmed" /\ pc'[r] = "done"
      /\ \A t \in Requests \ {r} : pc'[t] = pc[t] /\ status'[t] = status[t]
  BY DEF TypeOK, Marshal, Finished
<1>2. \A t \in Requests \ {r} : CopyInv(t)'
  BY <1>1, OthersKeepCopyInv DEF FilterInv, copyVars
<1>3. TrimmedCopy(r)
  BY <1>1 DEF FilterInv, CopyInv
<1>4. TrimmedCopy(r)'
  BY <1>1, <1>3 DEF TrimmedCopy, Level, ParamsOf, copyVars
<1>5. CopyInv(r)'
  BY <1>1, <1>4 DEF CopyInv
<1> QED
  BY <1>1, <1>2, <1>5 DEF FilterInv

(* A request that ends without an answer holds nothing that is looked at.  *)
LEMMA FailureKeepsFilterInv ==
  ASSUME TypeOK, FilterInv, NEW r \in Requests, NEW code \in {400, 405, 503},
         Finished(r, code), UNCHANGED <<stages, params, copyVars>>
  PROVE  FilterInv'
<1>1. /\ pc'[r] = "done" /\ status'[r] = code
      /\ \A t \in Requests \ {r} : pc'[t] = pc[t] /\ status'[t] = status[t]
  BY DEF TypeOK, Finished
<1>2. \A t \in Requests \ {r} : CopyInv(t)'
  BY <1>1, OthersKeepCopyInv DEF FilterInv, copyVars
<1>3. CopyInv(r)'
  BY <1>1 DEF CopyInv, Answered
<1> QED
  BY <1>1, <1>2, <1>3 DEF FilterInv

LEMMA NextRequestKeepsFilterInv ==
  ASSUME TypeOK, FilterInv, NEW r \in Requests, NextRequest(r)
  PROVE  FilterInv'
<1>1. /\ UNCHANGED stages
      /\ pc'[r] = "idle"
      /\ \A t \in Requests \ {r} :
           /\ pc'[t] = pc[t] /\ params'[t] = params[t] /\ status'[t] = status[t]
           /\ networks'[t] = networks[t] /\ stations'[t] = stations[t]
           /\ channels'[t] = channels[t] /\ own'[t] = own[t]
  BY DEF TypeOK, NextRequest
<1>2. \A t \in Requests \ {r} : CopyInv(t)'
  BY <1>1, OthersKeepCopyInv DEF FilterInv
<1>3. CopyInv(r)'
  BY <1>1 DEF CopyInv, Answered
<1> QED
  BY <1>1, <1>2, <1>3 DEF FilterInv

(* Between the filter and the answer a request holds exactly what its      *)
(* parameter sets keep, cut to its level, whatever the others do, and the  *)
(* Responses of the tree stay whole.                                       *)
THEOREM FilterInvariant == Spec => []FilterInv
<1>1. Init => FilterInv
  BY DEF Init, FilterInv, CopyInv, Answered
<1>2. TypeOK /\ FilterInv /\ [Next]_vars => FilterInv'
  <2> SUFFICES ASSUME TypeOK, FilterInv, [Next]_vars
               PROVE  FilterInv'
    OBVIOUS
  <2>1. CASE UNCHANGED vars
    BY <2>1, OthersKeepCopyInv DEF vars, copyVars, FilterInv
  <2>2. ASSUME NEW r \in Requests, NEW code \in {400, 405}, Refuse(r, code)
        PROVE  FilterInv'
    BY <2>2, FailureKeepsFilterInv DEF Refuse
  <2>3. ASSUME NEW r \in Requests, MarshalFails(r)
        PROVE  FilterInv'
    BY <2>3, FailureKeepsFilterInv DEF MarshalFails
  <2>4. CASE Next
    BY <2>2, <2>3, <2>4, GetKeepsFilterInv, PostKeepsFilterInv, DoFilterKeepsFilterInv,
       TrimLevelKeepsFilterInv, MarshalKeepsFilterInv, NextRequestKeepsFilterInv
       DEF Next
  <2> QED
    BY <2>1, <2>4
<1> QED
  BY <1>1, <1>2, FilterTypes, PTL DEF Spec

-----------------------------------------------------------------------------
(* What an answer shows                                                    *)

(* An answer to several parameter sets is the union of what each selects   *)
(* alone, although matchedParams hands sets down the tree together.        *)
THEOREM Union == Spec => []AnswerIsTheUnion
<1>1. FilterInv => AnswerIsTheUnion
  <2> SUFFICES ASSUME FilterInv, NEW r \in Requests, Answered(r)
               PROVE
        LET ps == ParamsOf(r) IN
        /\ Level(r) >= 2 =>
             channels[r] =
               {c \in Channels : \E n \in Networks, s \in Stations : Selected(ps, n, s, c)}
        /\ Level(r) >= 1 =>
             \A s \in Stations : ChannelsOf[s] # {} =>
               (s \in stations[r] <=> \E n \in Networks, c \in Channels : Selected(ps, n, s, c))
        /\ \A n \in Networks :
             LET some == \E s \in StationsOf[n], c \in Channels : Selected(ps, n, s, c) IN
             /\ some => n \in networks[r]
             /\ n \in networks[r] => some \/ Childless(n)
    BY DEF AnswerIsTheUnion
  <2> DEFINE ps == ParamsOf(r)
  <2>1. /\ Level(r) \in 0 .. 3
        /\ networks[r] = KeptNetworks(ps)
        /\ Level(r) >= 1 => stations[r] = KeptStations(ps)
        /\ Level(r) >= 2 => channels[r] = KeptChannels(ps)
    <3>1. TrimmedCopy(r)
      BY DEF FilterInv, CopyInv
    <3>2. \A k \in 0 .. 3 : (k >= 1 => ~(k < 1)) /\ (k >= 2 => ~(k < 2))
      OBVIOUS
    <3> QED
      BY <3>1, <3>2, Zenon DEF TrimmedCopy
  <2> HIDE DEF ps
  <2>2. Level(r) >= 2 =>
          channels[r] =
            {c \in Channels : \E n \in Networks, s \in Stations : Selected(ps, n, s, c)}
    BY <2>1, ChannelsSelected
  <2>3. Level(r) >= 1 =>
          \A s \in Stations : ChannelsOf[s] # {} =>
            (s \in stations[r] <=> \E n \in Networks, c \in Channels : Selected(ps, n, s, c))
    BY <2>1, StationsSelected
  <2>4. ASSUME NEW n \in Networks, NEW s \in StationsOf[n], NEW c \in Channels,
               Selected(ps, n, s, c)
        PROVE  n \in networks[r]
    BY <2>1, <2>4, SelectedKeepsNetwork DEF KeptNetworks
  <2>5. ASSUME NEW n \in networks[r], ~Childless(n)
        PROVE  \E s \in StationsOf[n], c \in Channels : Selected(ps, n, s, c)
    <3>1. n \in Networks /\ KeepsNetwork(ps, n)
      BY <2>1 DEF KeptNetworks
    <3>2. PICK s \in StationsOf[n] : \E c \in ChannelsOf[s] : Selected(ps, n, s, c)
      BY <2>5, <3>1, KeptNetworkSelects
    <3>3. ChannelsOf[s] \subseteq Channels
      BY <3>1, TreeAssumption
    <3> QED
      BY <3>2, <3>3
  <2> QED
    BY <2>2, <2>3, <2>4, <2>5 DEF ps
<1> QED
  BY <1>1, FilterInvariant, PTL

(* A request at channel level leaves the stages out of its own answer, and *)
(* out of no other.                                                        *)
THEOREM WholeResponses == Spec => []ResponsesAreWhole
<1>1. FilterInv => ResponsesAreWhole
  <2> SUFFICES ASSUME FilterInv, NEW r \in Requests, Answered(r),
                      NEW c \in channels[r] \cap Responding
               PROVE  HasStages(r, c) <=> Level(r) = 3
    BY DEF ResponsesAreWhole
  <2>1. /\ stages = Responding
        /\ Level(r) \in 0 .. 3
        /\ channels[r] = IF Level(r) < 2 THEN {} ELSE KeptChannels(ParamsOf(r))
        /\ own[r] = IF Level(r) = 2 THEN channels[r] \cap Responding ELSE {}
    BY DEF FilterInv, CopyInv, TrimmedCopy
  <2>2. Level(r) = 2 \/ Level(r) = 3
    BY <2>1
  <2>3. CASE Level(r) = 2
    BY <2>1, <2>3 DEF HasStages
  <2>4. CASE Level(r) = 3
    BY <2>1, <2>4 DEF HasStages
  <2> QED
    BY <2>2, <2>3, <2>4
<1> QED
  BY <1>1, FilterInvariant, PTL

-----------------------------------------------------------------------------
(* The level and what is found                                             *)

(* Parameter sets that differ in their levels, formats and nodata only.    *)
Alike(ps, qs) ==
  /\ Timeless(ps) /\ Timeless(qs)
  /\ \A p \in ps : \E q \in qs : p.query = q.query
  /\ \A q \in qs : \E p \in ps : p.query = q.query

LEMMA TimelessMatches ==
  ASSUME NEW p, NEW q, Timeless({p, q}), p.query = q.query
  PROVE  /\ \A n : NetworkMatches(p, n) <=> NetworkMatches(q, n)
         /\ \A s : StationMatches(p, s) <=> StationMatches(q, s)
         /\ \A c : ChannelMatches(p, c) <=> ChannelMatches(q, c)
<1>1. p.query.start.time = 0 /\ p.query.end.time = Never
  BY DEF Timeless
<1>2. \A node, level : validStartEnd(p, node, level) /\ validStartEnd(q, node, level)
  BY <1>1 DEF validStartEnd, validStart, validEnd
<1> QED
  BY <1>2 DEF NetworkMatches, StationMatches, ChannelMatches, Within

LEMMA AlikeHandDown ==
  ASSUME NEW ps, NEW qs, Alike(ps, qs)
  PROVE  /\ \A n : Alike(MatchedByNetwork(ps, n), MatchedByNetwork(qs, n))
         /\ \A s : Alike(MatchedByStation(ps, s), MatchedByStation(qs, s))
         /\ \A c : KeepsChannel(ps, c) <=> KeepsChannel(qs, c)
<1>1. ASSUME NEW p \in ps, NEW q \in qs, p.query = q.query
      PROVE  /\ \A n : NetworkMatches(p, n) <=> NetworkMatches(q, n)
             /\ \A s : StationMatches(p, s) <=> StationMatches(q, s)
             /\ \A c : ChannelMatches(p, c) <=> ChannelMatches(q, c)
  <2>1. Timeless({p, q})
    BY DEF Alike, Timeless
  <2> QED
    BY <1>1, <2>1, TimelessMatches
<1>2. \A n : Alike(MatchedByNetwork(ps, n), MatchedByNetwork(qs, n))
  BY <1>1 DEF Alike, Timeless, MatchedByNetwork
<1>3. \A s : Alike(MatchedByStation(ps, s), MatchedByStation(qs, s))
  BY <1>1 DEF Alike, Timeless, MatchedByStation
<1>4. \A c : KeepsChannel(ps, c) <=> KeepsChannel(qs, c)
  BY <1>1 DEF Alike, KeepsChannel
<1> QED
  BY <1>2, <1>3, <1>4

LEMMA AlikeKeepStation ==
  ASSUME NEW ps, NEW qs, Alike(ps, qs), NEW s
  PROVE  KeepsStation(ps, s) <=> KeepsStation(qs, s)
<1> DEFINE mp == MatchedByStation(ps, s)
           mq == MatchedByStation(qs, s)
<1>1. Alike(mp, mq)
  BY AlikeHandDown
<1>2. \A c : KeepsChannel(mp, c) <=> KeepsChannel(mq, c)
  BY <1>1, AlikeHandDown
<1>3. mp # {} <=> mq # {}
  BY <1>1 DEF Alike
<1>4. (\A p \in mp : AnyChannel(p)) <=> (\A q \in mq : AnyChannel(q))
  BY <1>1 DEF Alike, AnyChannel
<1> QED
  BY <1>2, <1>3, <1>4 DEF KeepsStation

LEMMA AlikeKeepNetwork ==
  ASSUME NEW ps, NEW qs, Alike(ps, qs), NEW n
  PROVE  KeepsNetwork(ps, n) <=> KeepsNetwork(qs, n)
<1> DEFINE mp == MatchedByNetwork(ps, n)
           mq == MatchedByNetwork(qs, n)
<1>1. Alike(mp, mq)
  BY AlikeHandDown
<1>2. \A s : KeepsStation(mp, s) <=> KeepsStation(mq, s)
  BY <1>1, AlikeKeepStation
<1>3. mp # {} <=> mq # {}
  BY <1>1 DEF Alike
<1>4. (\A p \in mp : AnyStation(p)) <=> (\A q \in mq : AnyStation(q))
  BY <1>1 DEF Alike, AnyStation, AnyChannel
<1> QED
  BY <1>2, <1>3, <1>4 DEF KeepsNetwork

LEMMA AlikeKeepTheSame ==
  ASSUME NEW ps, NEW qs, Alike(ps, qs)
  PROVE  KeptNetworks(ps) = KeptNetworks(qs) /\ KeptStations(ps) = KeptStations(qs)
<1>1. KeptNetworks(ps) = KeptNetworks(qs)
  BY AlikeKeepNetwork DEF KeptNetworks
<1>2. \A n, s : KeepsStation(MatchedByNetwork(ps, n), s)
                  <=> KeepsStation(MatchedByNetwork(qs, n), s)
  BY AlikeHandDown, AlikeKeepStation
<1> QED
  BY <1>1, <1>2 DEF KeptStations, KeptNetworks

LEMMA SameQueriesAreAlike ==
  ASSUME NEW r, NEW t, Queries(r) = Queries(t), Timeless(ParamsOf(r))
  PROVE  Alike(ParamsOf(r), ParamsOf(t))
<1>1. DOMAIN params[r] = DOMAIN params[t]
  BY DEF Queries
<1>2. \A i \in DOMAIN params[r] : params[r][i].query = params[t][i].query
  BY <1>1 DEF Queries
<1> QED
  BY <1>1, <1>2 DEF Alike, Timeless, ParamsOf, ToSet

(* The level of a query, and the others it is sent with, trims what is     *)
(* shown of the same networks and stations, unless there is a time filter. *)
THEOREM LevelTrims == Spec => []LevelOnlyTrims
<1>1. FilterInv => LevelOnlyTrims
  <2> SUFFICES ASSUME FilterInv, NEW r \in Requests, NEW t \in Requests,
                      Answered(r), Answered(t),
                      Queries(r) = Queries(t), Timeless(ParamsOf(r))
               PROVE  /\ networks[r] = networks[t]
                      /\ Level(r) >= 1 /\ Level(t) >= 1 => stations[r] = stations[t]
    BY DEF LevelOnlyTrims
  <2>1. \A x \in {r, t} :
          /\ Level(x) \in 0 .. 3
          /\ networks[x] = KeptNetworks(ParamsOf(x))
          /\ stations[x] = IF Level(x) < 1 THEN {} ELSE KeptStations(ParamsOf(x))
    BY DEF FilterInv, CopyInv, TrimmedCopy
  <2>2. /\ KeptNetworks(ParamsOf(r)) = KeptNetworks(ParamsOf(t))
        /\ KeptStations(ParamsOf(r)) = KeptStations(ParamsOf(t))
    BY SameQueriesAreAlike, AlikeKeepTheSame
  <2> QED
    BY <2>1, <2>2
<1> QED
  BY <1>1, FilterInvariant, PTL

=============================================================================
