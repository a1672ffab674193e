---------------------------- MODULE StationCache ---------------------------
(***************************************************************************)
(* cmd/fdsn-ws: the station metadata in memory (fdsnStations).  A server   *)
(* loads it when it starts, from a file beside it or else from S3, then a  *)
(* goroutine looks at the S3 object at every tick, first at when it was    *)
(* modified and then, in a second call, at what it holds, and replaces     *)
(* what requests are answered from.  Requests copy the struct under the    *)
(* read lock and filter their copy without it.                             *)
(*                                                                         *)
(* Publishing and copying are single steps: both are short sections under  *)
(* the RWMutex.  A tick that changes nothing is a stuttering step.         *)
(***************************************************************************)
EXTENDS Naturals, Sequences

CONSTANTS
  Requests,     (* station queries that may run at the same time           *)
  Networks,     (* the networks of a station XML file                      *)
  Queries,      (* the sets of networks that a query may select            *)
  LocalTimes,   (* modification times of a file in etc/; 0 for no file     *)
  NoStations,   (* nothing loaded: the server is down or starting          *)
  MaxUploads,   (* bound on the uploads of the S3 object                   *)
  MaxTime       (* bound on the clock, in seconds as S3 counts             *)

(* A file loads, or xml.Unmarshal refuses it, or it has no network and     *)
(* loadStationXML panics.                                                  *)
Kinds == {"good", "malformed", "empty"}
File == [kind: Kinds, time: 1 .. MaxTime]

(* The struct behind fdsnStations: the file that was parsed (0 for the     *)
(* local one, otherwise its place in uploads), the Network field of the    *)
(* tree, and the time it is stamped with.                                  *)
Version == 0 .. MaxUploads
Stations ==
  [version: Version, networks: SUBSET Networks, modified: 0 .. MaxTime]
Loaded(v, t) == [version |-> v, networks |-> Networks, modified |-> t]

ASSUME CacheAssumption ==
  /\ MaxUploads \in Nat /\ MaxTime \in Nat
  /\ LocalTimes \subseteq 0 .. MaxTime
  /\ Queries \subseteq SUBSET Networks
  /\ NoStations \notin Stations \cup Version

VARIABLES
  uploads,      (* what was uploaded to the S3 object, the last is current *)
  local,        (* the modification time of the local file                 *)
  fdsnStations, (* what requests are answered from                         *)
  pc,           (* where the initial load, and then the updater, is        *)
  stamp,        (* the time it read for the object                         *)
  got,          (* the version it downloaded                               *)
  stage,        (* where each request is                                   *)
  query,        (* what it selects                                         *)
  c             (* its copy of the struct                                  *)

bucketVars == <<uploads, local>>
updaterVars == <<fdsnStations, pc, stamp, got>>
requestVars == <<stage, query, c>>
vars == <<bucketVars, updaterVars, requestVars>>

TypeOK ==
  /\ uploads \in Seq(File) /\ Len(uploads) <= MaxUploads
  /\ local \in LocalTimes
  /\ fdsnStations \in Stations \cup {NoStations}
  /\ pc \in {"down", "wait", "get", "load"}
  /\ stamp \in 0 .. MaxTime
  /\ got \in Version
  /\ stage \in [Requests -> {"idle", "copied", "filtered"}]
  /\ query \in [Requests -> SUBSET Networks]
  /\ c \in [Requests -> Stations]

Idle == /\ stage' = [r \in Requests |-> "idle"]
        /\ query' = [r \in Requests |-> {}]
        /\ c' = [r \in Requests |-> Loaded(0, 0)]

Init ==
  /\ uploads = <<>>
  /\ local \in LocalTimes
  /\ fdsnStations = NoStations
  /\ pc = "down"
  /\ stamp = 0 /\ got = 0
  /\ stage = [r \in Requests |-> "idle"]
  /\ query = [r \in Requests |-> {}]
  /\ c = [r \in Requests |-> Loaded(0, 0)]

-----------------------------------------------------------------------------
(* The S3 object                                                           *)

TimeOf(v) == IF v = 0 THEN local ELSE uploads[v].time
Current == Len(uploads)
ObjectTime == IF uploads = <<>> THEN 1 ELSE uploads[Current].time

Upload(f) ==
  /\ Current < MaxUploads
  /\ f.time >= ObjectTime
  /\ uploads' = Append(uploads, f)
  /\ UNCHANGED <<local, updaterVars, requestVars>>

-----------------------------------------------------------------------------
(* Loading: initStationXML and the updater                                 *)

Up == fdsnStations # NoStations

(* initStationXML takes the local file if there is one, whatever S3 has.   *)
StartLocal ==
  /\ pc = "down" /\ local # 0
  /\ fdsnStations' = Loaded(0, local)
  /\ pc' = "wait"
  /\ UNCHANGED <<bucketVars, stamp, got, requestVars>>

(* downloadStationXML, first call: the modification time of the object.    *)
(* Without a local file the server starts with a download, since time 0.   *)
Since == IF Up THEN fdsnStations.modified ELSE 0

LastModified ==
  /\ pc = "wait" \/ (pc = "down" /\ local = 0)
  /\ uploads # <<>>
  /\ ObjectTime > Since
  /\ stamp' = ObjectTime
  /\ pc' = "get"
  /\ UNCHANGED <<bucketVars, fdsnStations, got, requestVars>>

(* Second call: whatever the object holds by now.                          *)
Get ==
  /\ pc = "get"
  /\ got' = Current
  /\ pc' = "load"
  /\ UNCHANGED <<bucketVars, fdsnStations, stamp, requestVars>>

(* An error ends a tick and, in a server that is starting, the process.    *)
GiveUp ==
  /\ pc' = IF Up THEN "wait" ELSE "down"
  /\ UNCHANGED <<bucketVars, fdsnStations, stamp, got, requestVars>>

GetFails ==
  /\ pc = "get"
  /\ GiveUp

(* Mutants of Publish: stamped with the object's time when the download    *)
(* has ended; the local file again when the new one cannot be parsed.      *)
PublishLateStamp ==
  /\ pc = "load" /\ uploads[got].kind = "good"
  /\ fdsnStations' = Loaded(got, ObjectTime)
  /\ pc' = "wait"
  /\ UNCHANGED <<bucketVars, stamp, got, requestVars>>
PublishOrFallBack ==
  /\ pc = "load"
  /\ fdsnStations' = IF uploads[got].kind = "good"
                     THEN Loaded(got, stamp) ELSE Loaded(0, local)
  /\ pc' = "wait"
  /\ UNCHANGED <<bucketVars, stamp, got, requestVars>>

(* Mutant of Publish: the error of loadStationXML is not returned.         *)
PublishUnparsed ==
  /\ pc = "load" /\ uploads[got].kind # "empty"
  /\ fdsnStations' = Loaded(got, stamp)
  /\ pc' = "wait"
  /\ UNCHANGED <<bucketVars, stamp, got, requestVars>>

Publish ==
  /\ pc = "load" /\ uploads[got].kind = "good"
  /\ fdsnStations' = Loaded(got, stamp)
  /\ pc' = "wait"
  /\ UNCHANGED <<bucketVars, stamp, got, requestVars>>

ParseFails ==
  /\ pc = "load" /\ uploads[got].kind = "malformed"
  /\ GiveUp

(* The process ends, requests and all.                                     *)
Stop ==
  /\ fdsnStations' = NoStations
  /\ pc' = "down"
  /\ stamp' = 0 /\ got' = 0
  /\ Idle
  /\ UNCHANGED bucketVars

(* loadStationXML looks at f.Network[0] of a file without networks.        *)
LoadPanics ==
  /\ pc = "load" /\ uploads[got].kind = "empty"
  /\ Stop

Crash == Up /\ Stop

-----------------------------------------------------------------------------
(* A station query: fdsnStationV1Handler                                   *)

(* Mutant of Ask: the server listens before initStationXML has returned.   *)
AskEarly(r, q) ==
  /\ stage[r] = "idle"
  /\ stage' = [stage EXCEPT ![r] = "copied"]
  /\ query' = [query EXCEPT ![r] = q]
  /\ c' = [c EXCEPT ![r] = fdsnStations]
  /\ UNCHANGED <<bucketVars, updaterVars>>

Ask(r, q) ==
  /\ Up
  /\ stage[r] = "idle"
  /\ stage' = [stage EXCEPT ![r] = "copied"]
  /\ query' = [query EXCEPT ![r] = q]
  /\ c' = [c EXCEPT ![r] = fdsnStations]
  /\ UNCHANGED <<bucketVars, updaterVars>>

(* Mutant of DoFilter: the handler works on the struct itself.             *)
DoFilterInPlace(r) ==
  /\ stage[r] = "copied"
  /\ stage' = [stage EXCEPT ![r] = "filtered"]
  /\ c' = [c EXCEPT ![r].networks = fdsnStations.networks \cap query[r]]
  /\ fdsnStations' = [fdsnStations EXCEPT !.networks = @ \cap query[r]]
  /\ UNCHANGED <<bucketVars, pc, stamp, got, query>>

(* doFilter assigns the networks that remain to the copy's Network field   *)
(* and trims nodes of its own.                                             *)
DoFilter(r) ==
  /\ stage[r] = "copied"
  /\ stage' = [stage EXCEPT ![r] = "filtered"]
  /\ c' = [c EXCEPT ![r].networks = @ \cap query[r]]
  /\ UNCHANGED <<bucketVars, updaterVars, query>>

Reply(r) ==
  /\ stage[r] = "filtered"
  /\ stage' = [stage EXCEPT ![r] = "idle"]
  /\ query' = [query EXCEPT ![r] = {}]
  /\ c' = [c EXCEPT ![r] = Loaded(0, 0)]
  /\ UNCHANGED <<bucketVars, updaterVars>>

-----------------------------------------------------------------------------
Load == Publish \/ ParseFails \/ LoadPanics

Next ==
  \/ \E f \in File : Upload(f)
  \/ StartLocal \/ LastModified \/ Get \/ GetFails \/ Load \/ Crash
  \/ \E r \in Requests : (\E q \in Queries : Ask(r, q)) \/ DoFilter(r) \/ Reply(r)

Spec == Init /\ [][Next]_vars

(* A server that ends is started again, ticks go on, and the calls to S3   *)
(* do not fail, nor the server crash, every time for ever.                 *)
Fairness ==
  /\ WF_vars(StartLocal) /\ WF_vars(LastModified)
  /\ SF_vars(Get) /\ SF_vars(Load)

FairSpec == Spec /\ Fairness

-----------------------------------------------------------------------------
(* Properties                                                              *)

(* What is served is at least as recent as its stamp, although the stamp   *)
(* was read before the file and the object may be replaced in between: an  *)
(* upload can be fetched twice but is not taken for one that was seen.     *)
StampNotAhead ==
  /\ Up => fdsnStations.modified <= TimeOf(fdsnStations.version)
  /\ pc = "load" => stamp <= TimeOf(got)

(* A running server never goes back to older metadata.                     *)
ServedNeverGoesBack ==
  [][Up /\ Up' => fdsnStations'.version >= fdsnStations.version]_vars

(* A request answers from the whole of the version it copied, whatever     *)
(* other requests filter and the updater replaces meanwhile.               *)
AnswersAreWhole ==
  \A r \in Requests : stage[r] = "filtered" =>
    c[r].networks = Networks \cap query[r]

(* The service "checks if the data source xml in the S3 bucket has been    *)
(* updated" (cmd/fdsn-ws/README.md): when uploads have ended with a good   *)
(* file, a server that stays up ends up serving it, unless the file is of  *)
(* the same second as the one before it or not newer than a local file.    *)
LastIsNoticeable ==
  /\ uploads # <<>> /\ uploads[Current].kind = "good"
  /\ \A v \in 0 .. Current - 1 : TimeOf(v) < uploads[Current].time
UploadIsServed ==
  <>[](LastIsNoticeable /\ Up) => <>[](Up /\ fdsnStations.version = Current)

(* Every request is answered as if at one moment, from the whole of one    *)
(* well-formed version, which is not older than any that the server has    *)
(* answered from since it is up: uploads between the calls of a tick,      *)
(* failing ticks, and filtering without the lock do not show.              *)
Offered ==
  {v \in 0 .. Current :
     IF v = 0 THEN local # 0 ELSE uploads[v].kind = "good"}
Answered(r) ==
  IF stage[r] = "idle" THEN NoStations
  ELSE [version |-> c[r].version, networks |-> c[r].networks \cap query[r]]
Service == INSTANCE ServedMetadata WITH
  Versions <- Version,
  Nothing <- NoStations,
  offered <- Offered,
  served <- IF Up THEN fdsnStations.version ELSE NoStations,
  answer <- [r \in Requests |-> Answered(r)]
ImplementsServedMetadata == Service!Spec

=============================================================================
