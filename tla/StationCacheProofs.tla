------------------------- MODULE StationCacheProofs ------------------------
(***************************************************************************)
(* Theorems about StationCache for any requests, networks, queries and     *)
(* local files and any number of uploads.                                  *)
(***************************************************************************)
EXTENDS StationCache, TLAPS

-----------------------------------------------------------------------------
(* The inductive invariant                                                 *)

(* S3 counts forwards: a later upload does not have an earlier time.       *)
UploadInv ==
  \A u, v \in 1 .. Current : u <= v => uploads[u].time <= uploads[v].time

(* A server that is down serves nothing.  What is served, and what has     *)
(* been downloaded, is an upload that has happened, and no later one is    *)
(* served than was downloaded.  The stamp is the time of an upload that is *)
(* not later than the one downloaded with it.                              *)
UpdaterInv ==
  /\ pc = "down" => ~Up
  /\ Up => fdsnStations.version <= Current
  /\ pc = "get" => uploads # <<>> /\ stamp <= uploads[Current].time
  /\ pc = "load" => /\ got \in 1 .. Current
                    /\ Up => fdsnStations.version <= got

(* Nothing a request does reaches the tree that the next one will copy.    *)
TreeInv ==
  /\ Up => fdsnStations.networks = Networks
  /\ \A r \in Requests : stage[r] = "copied" => c[r].networks = Networks

CacheInv ==
  TypeOK /\ UploadInv /\ UpdaterInv /\ StampNotAhead /\ TreeInv /\ AnswersAreWhole

LEMMA LoadedIsStations ==
  ASSUME NEW v \in Version, NEW t \in 0 .. MaxTime
  PROVE  Loaded(v, t) \in Stations
BY DEF Loaded, Stations

LEMMA UploadsAreFiles ==
  ASSUME TypeOK
  PROVE  \A v \in 1 .. Current : /\ uploads[v] \in File
                                 /\ uploads[v].time \in Nat
                                 /\ uploads[v].time \in 1 .. MaxTime
<1>1. \A v \in 1 .. Current : uploads[v] \in File
  BY DEF TypeOK, Current
<1>2. \A f \in File : f.time \in 1 .. MaxTime
  BY DEF File
<1> QED
  BY <1>1, <1>2, CacheAssumption

LEMMA InitCacheInv == Init => CacheInv
<1> SUFFICES ASSUME Init PROVE CacheInv
  OBVIOUS
<1>1. 0 \in Version /\ 0 \in 0 .. MaxTime
  BY CacheAssumption DEF Version
<1>2. Loaded(0, 0) \in Stations
  BY <1>1, LoadedIsStations
<1>3. TypeOK
  BY <1>1, <1>2, CacheAssumption DEF Init, TypeOK, File
<1> QED
  BY <1>3 DEF Init, CacheInv, UploadInv, UpdaterInv, StampNotAhead, TreeInv,
              AnswersAreWhole, Up, Current

-----------------------------------------------------------------------------
(* One lemma for each conjunct that the actions of a part can disturb      *)

LEMMA UploadStep ==
  ASSUME CacheInv, NEW f \in File, Upload(f)
  PROVE  CacheInv'
<1> USE DEF CacheInv
<1>1. /\ uploads \in Seq(File) /\ Current \in Nat /\ Current < MaxUploads
      /\ uploads' = Append(uploads, f) /\ f.time >= ObjectTime
  BY DEF Upload, TypeOK, Current
<1>2. /\ uploads' \in Seq(File) /\ Current' = Current + 1
      /\ uploads'[Current + 1] = f
      /\ \A v \in 1 .. Current : uploads'[v] = uploads[v]
  BY <1>1 DEF Current
<1>3. /\ f.time \in 1 .. MaxTime
      /\ \A v \in 1 .. Current : uploads[v].time \in 1 .. MaxTime
  <2>1. f.time \in 1 .. MaxTime
    BY DEF File
  <2> QED
    BY <2>1, UploadsAreFiles
<1>4. \A v \in 1 .. Current : uploads[v].time <= f.time
  <2> SUFFICES ASSUME NEW v \in 1 .. Current PROVE uploads[v].time <= f.time
    OBVIOUS
  <2>1. uploads # <<>> /\ Current \in 1 .. Current
    BY <1>1 DEF Current
  <2>2. uploads[v].time <= uploads[Current].time
    BY <2>1, <1>1 DEF UploadInv
  <2> QED
    BY <2>1, <2>2, <1>1, <1>3, CacheAssumption DEF ObjectTime
<1>5. TypeOK'
  <2>1. Len(uploads') <= MaxUploads
    BY <1>1, <1>2, CacheAssumption DEF Current
  <2> QED
    BY <1>2, <2>1 DEF TypeOK, Upload, updaterVars, requestVars
<1>6. UploadInv'
  <2> SUFFICES ASSUME NEW u \in 1 .. Current + 1, NEW v \in 1 .. Current + 1, u <= v
               PROVE  uploads'[u].time <= uploads'[v].time
    BY <1>2 DEF UploadInv
  <2>1. CASE u \in 1 .. Current /\ v \in 1 .. Current
    BY <2>1, <1>1, <1>2 DEF UploadInv
  <2>2. CASE v = Current + 1 /\ u \in 1 .. Current
    BY <2>2, <1>2, <1>4
  <2>3. CASE v = Current + 1 /\ u = Current + 1
    BY <2>3, <1>2, <1>3, CacheAssumption
  <2> QED
    <3>1. Current \in Nat
      BY <1>1
    <3>2. \/ u \in 1 .. Current /\ v \in 1 .. Current
          \/ v = Current + 1 /\ u \in 1 .. Current
          \/ v = Current + 1 /\ u = Current + 1
      BY <3>1
    <3> QED
      BY <3>2, <2>1, <2>2, <2>3
<1>7. UpdaterInv'
  <2>1. Up => fdsnStations.version \in Nat
    BY CacheAssumption DEF TypeOK, Up, Stations, Version
  <2>2. pc = "get" => /\ uploads' # <<>> /\ Current \in 1 .. Current
                      /\ stamp <= uploads[Current].time
    BY <1>1, <1>2 DEF UpdaterInv, Current
  <2>3. pc = "get" => stamp <= uploads'[Current'].time
    BY <2>2, <1>1, <1>2, <1>3, <1>4, CacheAssumption DEF TypeOK
  <2> QED
    BY <1>1, <1>2, <2>1, <2>2, <2>3 DEF UpdaterInv, Upload, updaterVars, Up
<1>8. StampNotAhead'
  <2>1. Up => fdsnStations.version \in Nat /\ fdsnStations.version <= Current
    BY CacheAssumption DEF TypeOK, Up, Stations, Version, UpdaterInv
  <2>2. Up => TimeOf(fdsnStations.version)' = TimeOf(fdsnStations.version)
    <3> SUFFICES ASSUME Up
                 PROVE  TimeOf(fdsnStations.version)' = TimeOf(fdsnStations.version)
      OBVIOUS
    <3>1. fdsnStations' = fdsnStations /\ local' = local
      BY DEF Upload, updaterVars
    <3>2. CASE fdsnStations.version = 0
      BY <3>1, <3>2 DEF TimeOf
    <3>3. CASE fdsnStations.version \in 1 .. Current
      BY <3>1, <3>3, <1>2 DEF TimeOf
    <3> QED
      BY <2>1, <3>2, <3>3, <1>1
  <2>3. pc = "load" => TimeOf(got)' = TimeOf(got)
    BY <1>1, <1>2 DEF TimeOf, Upload, updaterVars, UpdaterInv
  <2> QED
    BY <2>2, <2>3 DEF StampNotAhead, Upload, updaterVars, Up
<1>9. TreeInv' /\ AnswersAreWhole'
  BY DEF TreeInv, AnswersAreWhole, Upload, updaterVars, requestVars, Up
<1> QED
  BY <1>5, <1>6, <1>7, <1>8, <1>9

(* The process ends.                                                       *)
LEMMA StopStep ==
  ASSUME CacheInv, Stop
  PROVE  CacheInv'
<1> USE DEF CacheInv
<1>1. 0 \in Version /\ 0 \in 0 .. MaxTime
  BY CacheAssumption DEF Version
<1>2. TypeOK'
  BY <1>1, LoadedIsStations DEF TypeOK, Stop, Idle, bucketVars
<1>3. UploadInv' /\ UpdaterInv' /\ StampNotAhead'
  BY DEF Stop, bucketVars, UploadInv, UpdaterInv, StampNotAhead, Up, Current
<1>4. TreeInv' /\ AnswersAreWhole'
  BY DEF Stop, Idle, TreeInv, AnswersAreWhole, Up
<1> QED
  BY <1>2, <1>3, <1>4

(* A file is parsed and published: the local one, or the one downloaded.   *)
LEMMA PublishStep ==
  ASSUME CacheInv, NEW v \in Version, NEW t \in 0 .. MaxTime,
         fdsnStations' = Loaded(v, t), v <= Current, t <= TimeOf(v),
         pc' = "wait",
         UNCHANGED <<bucketVars, stamp, got, requestVars>>
  PROVE  CacheInv'
<1> USE DEF CacheInv
<1>1. TypeOK'
  BY LoadedIsStations DEF TypeOK, bucketVars, requestVars
<1>2. UploadInv' /\ UpdaterInv'
  BY DEF UploadInv, UpdaterInv, bucketVars, Loaded, Current
<1>3. StampNotAhead'
  BY DEF StampNotAhead, Loaded, TimeOf, bucketVars
<1>4. TreeInv' /\ AnswersAreWhole'
  BY DEF TreeInv, AnswersAreWhole, Loaded, requestVars
<1> QED
  BY <1>1, <1>2, <1>3, <1>4

LEMMA UpdaterStep ==
  ASSUME CacheInv, StartLocal \/ LastModified \/ Get \/ GetFails \/ Load \/ Crash
  PROVE  CacheInv'
<1> USE DEF CacheInv
<1>1. CASE StartLocal
  <2>1. 0 \in Version /\ local \in 0 .. MaxTime /\ 0 <= Current
    BY CacheAssumption DEF Version, TypeOK, Current
  <2>2. local <= TimeOf(0)
    BY <2>1, CacheAssumption DEF TimeOf
  <2> QED
    BY <1>1, <2>1, <2>2, PublishStep DEF StartLocal
<1>2. CASE LastModified
  <2>1. uploads # <<>> /\ Current \in 1 .. Current
    BY <1>2 DEF LastModified, TypeOK, Current
  <2>2. stamp' = uploads[Current].time /\ stamp' \in 0 .. MaxTime
    BY <1>2, <2>1, UploadsAreFiles, CacheAssumption DEF LastModified, ObjectTime
  <2>3. TypeOK'
    BY <1>2, <2>2 DEF LastModified, TypeOK, bucketVars, requestVars
  <2>4. UploadInv' /\ UpdaterInv' /\ StampNotAhead'
    BY <1>2, <2>1, <2>2, CacheAssumption
       DEF LastModified, bucketVars, UploadInv, UpdaterInv, StampNotAhead, Up,
           Current, TimeOf
  <2> QED
    BY <1>2, <2>3, <2>4
       DEF LastModified, requestVars, TreeInv, AnswersAreWhole, Up
<1>3. CASE Get
  <2>1. /\ Current \in 1 .. Current /\ Current \in Version
        /\ stamp <= uploads[Current].time
    BY <1>3, CacheAssumption DEF Get, UpdaterInv, TypeOK, Current, Version
  <2>2. TypeOK'
    BY <1>3, <2>1 DEF Get, TypeOK, bucketVars, requestVars
  <2>3. UploadInv' /\ UpdaterInv'
    BY <1>3, <2>1 DEF Get, bucketVars, UploadInv, UpdaterInv, Up, Current
  <2>4. StampNotAhead'
    BY <1>3, <2>1 DEF Get, bucketVars, StampNotAhead, Up, TimeOf
  <2> QED
    BY <1>3, <2>2, <2>3, <2>4 DEF Get, requestVars, TreeInv, AnswersAreWhole, Up
<1>4. CASE GetFails \/ ParseFails
  <2>1. GiveUp
    BY <1>4 DEF GetFails, ParseFails
  <2>2. TypeOK'
    BY <2>1 DEF GiveUp, TypeOK, bucketVars, requestVars
  <2>3. UploadInv' /\ UpdaterInv' /\ StampNotAhead'
    BY <2>1 DEF GiveUp, bucketVars, UploadInv, UpdaterInv, StampNotAhead, Up,
                Current, TimeOf
  <2> QED
    BY <2>1, <2>2, <2>3 DEF GiveUp, requestVars, TreeInv, AnswersAreWhole, Up
<1>5. CASE Publish
  <2>1. got \in Version /\ stamp \in 0 .. MaxTime /\ got <= Current /\ stamp <= TimeOf(got)
    BY <1>5 DEF Publish, UpdaterInv, StampNotAhead, TypeOK, Current
  <2> QED
    BY <1>5, <2>1, PublishStep DEF Publish
<1>6. CASE LoadPanics \/ Crash
  BY <1>6, StopStep DEF LoadPanics, Crash
<1> QED
  BY <1>1, <1>2, <1>3, <1>4, <1>5, <1>6 DEF Load

LEMMA RequestStep ==
  ASSUME CacheInv, NEW r \in Requests,
         (\E q \in Queries : Ask(r, q)) \/ DoFilter(r) \/ Reply(r)
  PROVE  CacheInv'
<1> USE DEF CacheInv
<1>1. UNCHANGED <<bucketVars, updaterVars>>
  BY DEF Ask, DoFilter, Reply
<1>2. UploadInv' /\ UpdaterInv' /\ StampNotAhead'
  BY <1>1 DEF bucketVars, updaterVars, UploadInv, UpdaterInv, StampNotAhead, Up,
              Current, TimeOf
<1>3. CASE \E q \in Queries : Ask(r, q)
  <2>1. PICK q \in Queries : Ask(r, q)
    BY <1>3
  <2>2. fdsnStations \in Stations /\ q \in SUBSET Networks
    BY <2>1, CacheAssumption DEF Ask, Up, TypeOK
  <2>3. TypeOK'
    BY <1>1, <2>1, <2>2 DEF Ask, TypeOK, bucketVars, updaterVars
  <2>4. TreeInv' /\ AnswersAreWhole'
    BY <1>1, <2>1 DEF Ask, TypeOK, TreeInv, AnswersAreWhole, updaterVars, Up
  <2> QED
    BY <1>2, <2>3, <2>4
<1>4. CASE DoFilter(r)
  <2>1. c[r] \in Stations /\ c[r].networks = Networks
    BY <1>4 DEF DoFilter, TypeOK, TreeInv
  <2>2. /\ c' = [c EXCEPT ![r] = [c[r] EXCEPT !.networks = Networks \cap query[r]]]
        /\ [c[r] EXCEPT !.networks = Networks \cap query[r]] \in Stations
    BY <1>4, <2>1 DEF DoFilter, Stations
  <2>3. TypeOK'
    BY <1>1, <1>4, <2>2 DEF DoFilter, TypeOK, bucketVars, updaterVars
  <2>4. c'[r].networks = Networks \cap query[r]
    BY <2>1, <2>2 DEF TypeOK, Stations
  <2>5. TreeInv' /\ AnswersAreWhole'
    BY <1>1, <1>4, <2>2, <2>4
       DEF DoFilter, TypeOK, TreeInv, AnswersAreWhole, updaterVars, Up
  <2> QED
    BY <1>2, <2>3, <2>5
<1>5. CASE Reply(r)
  <2>1. Loaded(0, 0) \in Stations
    BY LoadedIsStations, CacheAssumption DEF Version
  <2>2. TypeOK'
    BY <1>1, <1>5, <2>1 DEF Reply, TypeOK, bucketVars, updaterVars
  <2>3. TreeInv' /\ AnswersAreWhole'
    BY <1>1, <1>5 DEF Reply, TypeOK, TreeInv, AnswersAreWhole, updaterVars, Up
  <2> QED
    BY <1>2, <2>2, <2>3
<1> QED
  BY <1>3, <1>4, <1>5

-----------------------------------------------------------------------------
LEMMA NextCacheInv == CacheInv /\ [Next]_vars => CacheInv'
<1> SUFFICES ASSUME CacheInv, [Next]_vars PROVE CacheInv'
  OBVIOUS
<1>1. CASE UNCHANGED vars
  BY <1>1 DEF CacheInv, vars, bucketVars, updaterVars, requestVars, TypeOK,
              UploadInv, UpdaterInv, StampNotAhead, TreeInv, AnswersAreWhole,
              Up, Current, TimeOf
<1>2. CASE Next
  BY <1>2, UploadStep, UpdaterStep, RequestStep DEF Next
<1> QED
  BY <1>1, <1>2

(* The invariant that the other theorems rest on.                          *)
THEOREM CacheInvariant == Spec => []CacheInv
<1> QED
  BY InitCacheInv, NextCacheInv, PTL DEF Spec

(* Every variable keeps its type; no request ever copies a missing tree.   *)
THEOREM TypeCorrect == Spec => []TypeOK
<1>1. CacheInv => TypeOK
  BY DEF CacheInv
<1> QED
  BY <1>1, CacheInvariant, PTL

(* The stamp that downloadStationXML reads before it downloads is never    *)
(* ahead of what is served, so that a later upload is not skipped.         *)
THEOREM StampsAreSafe == Spec => []StampNotAhead
<1>1. CacheInv => StampNotAhead
  BY DEF CacheInv
<1> QED
  BY <1>1, CacheInvariant, PTL

(* Requests do not see each other's filtering, nor the updater's replacing *)
(* the struct that they copied.                                            *)
THEOREM AnswersAreIsolated == Spec => []AnswersAreWhole
<1>1. CacheInv => AnswersAreWhole
  BY DEF CacheInv
<1> QED
  BY <1>1, CacheInvariant, PTL

(* A server that stays up does not replace metadata by older metadata.     *)
THEOREM NeverGoesBack == Spec => ServedNeverGoesBack
<1>1. ASSUME CacheInv, [Next]_vars
      PROVE  [Up /\ Up' => fdsnStations'.version >= fdsnStations.version]_vars
  <2> SUFFICES ASSUME Next, Up, Up'
               PROVE  fdsnStations'.version >= fdsnStations.version
    BY <1>1
  <2>1. fdsnStations.version \in Nat
    BY <1>1, CacheAssumption DEF CacheInv, TypeOK, Up, Stations, Version
  <2>2. CASE fdsnStations' = fdsnStations
    BY <2>1, <2>2
  <2>3. CASE Publish
    BY <1>1, <2>1, <2>3 DEF CacheInv, UpdaterInv, Publish, Loaded, Current, TypeOK
  <2>4. ~StartLocal /\ ~LoadPanics /\ ~Crash
    BY <1>1 DEF CacheInv, UpdaterInv, StartLocal, LoadPanics, Crash, Stop, Up
  <2>5. fdsnStations' = fdsnStations \/ Publish
    BY <2>4 DEF Next, Load, Upload, LastModified, Get, GetFails, ParseFails, GiveUp,
                Ask, DoFilter, Reply, updaterVars
  <2> QED
    BY <2>2, <2>3, <2>5
<1> QED
  BY <1>1, CacheInvariant, PTL DEF Spec, ServedNeverGoesBack

-----------------------------------------------------------------------------
(* Refinement of ServedMetadata                                            *)

Served == IF Up THEN fdsnStations.version ELSE NoStations
Answers == [r \in Requests |-> Answered(r)]

(* An upload offers a version, or nothing that can be served.              *)
LEMMA UploadOffers ==
  ASSUME CacheInv, NEW f \in File, Upload(f)
  PROVE  [Service!Next]_(Service!vars)
<1>1. /\ Current \in Nat /\ Current + 1 \in Version
      /\ Current' = Current + 1 /\ local' = local
      /\ uploads'[Current + 1] = f
      /\ \A v \in 1 .. Current : uploads'[v] = uploads[v]
  BY CacheAssumption DEF CacheInv, TypeOK, Upload, Current, Version
<1>2. Served' = Served /\ Answers' = Answers
  BY DEF Upload, updaterVars, requestVars, Served, Answers, Answered, Up
<1>3. Offered' = Offered \cup (IF f.kind = "good" THEN {Current + 1} ELSE {})
  BY <1>1 DEF Offered
<1>4. CASE f.kind = "good"
  <2>1. Service!Offer(Current + 1)
    BY <1>2, <1>3, <1>4 DEF Service!Offer, Served, Answers
  <2> QED
    BY <1>1, <2>1 DEF Service!Next
<1>5. CASE f.kind # "good"
  BY <1>2, <1>3, <1>5 DEF Service!vars, Served, Answers
<1> QED
  BY <1>4, <1>5

(* What is published was offered and is not older than what it replaces.   *)
LEMMA PublishServes ==
  ASSUME CacheInv, NEW v \in Offered, NEW t,
         fdsnStations' = Loaded(v, t), Loaded(v, t) # NoStations,
         Up => fdsnStations.version <= v,
         UNCHANGED <<bucketVars, requestVars>>
  PROVE  [Service!Next]_(Service!vars)
<1>1. v \in Version
  BY CacheAssumption DEF Offered, Version, CacheInv, TypeOK, Current
<1>2. Offered' = Offered /\ Answers' = Answers
  BY DEF bucketVars, requestVars, Offered, Current, Answers, Answered
<1>3. Served' = v
  BY DEF Served, Up, Loaded
<1>4. Service!Serve(v)
  BY <1>2, <1>3 DEF Service!Serve, Served, Answers
<1> QED
  BY <1>1, <1>4 DEF Service!Next

LEMMA StopFails ==
  ASSUME Stop
  PROVE  [Service!Next]_(Service!vars)
<1>1. Offered' = Offered
  BY DEF Stop, bucketVars, Offered, Current
<1>2. Served' = NoStations /\ Answers' = [r \in Requests |-> NoStations]
  BY DEF Stop, Idle, Served, Up, Answers, Answered
<1>3. Service!Fail
  BY <1>1, <1>2 DEF Service!Fail, Served, Answers
<1> QED
  BY <1>3 DEF Service!Next

LEMMA UpdaterServes ==
  ASSUME CacheInv, StartLocal \/ LastModified \/ Get \/ GetFails \/ Load \/ Crash
  PROVE  [Service!Next]_(Service!vars)
<1>1. CASE UNCHANGED <<bucketVars, fdsnStations, requestVars>>
  <2>1. Offered' = Offered /\ Served' = Served /\ Answers' = Answers
    BY <1>1 DEF bucketVars, requestVars, Offered, Current, Served, Up, Answers, Answered
  <2> QED
    BY <2>1 DEF Service!vars, Served, Answers
<1>2. CASE StartLocal
  <2>1. 0 \in Offered /\ ~Up
    BY <1>2 DEF StartLocal, Offered, CacheInv, TypeOK, UpdaterInv, Current
  <2>2. Loaded(0, local) # NoStations
    <3>1. local \in 0 .. MaxTime /\ 0 \in Version
      BY CacheAssumption DEF CacheInv, TypeOK, Version
    <3> QED
      BY <3>1, LoadedIsStations, CacheAssumption
  <2> QED
    BY <1>2, <2>1, <2>2, PublishServes DEF StartLocal
<1>3. CASE Publish
  <2>1. got \in Offered /\ (Up => fdsnStations.version <= got)
    BY <1>3 DEF Publish, Offered, CacheInv, TypeOK, UpdaterInv, Current
  <2>2. Loaded(got, stamp) # NoStations
    BY LoadedIsStations, CacheAssumption DEF CacheInv, TypeOK
  <2> QED
    BY <1>3, <2>1, <2>2, PublishServes DEF Publish
<1>4. CASE LoadPanics \/ Crash
  BY <1>4, StopFails DEF LoadPanics, Crash
<1> QED
  BY <1>1, <1>2, <1>3, <1>4 DEF Load, LastModified, Get, GetFails, ParseFails, GiveUp

(* The moment of a request's answer is when it copies the struct.          *)
LEMMA RequestIsAnswered ==
  ASSUME CacheInv, NEW r \in Requests,
         (\E q \in Queries : Ask(r, q)) \/ DoFilter(r) \/ Reply(r)
  PROVE  [Service!Next]_(Service!vars)
<1>1. Offered' = Offered /\ Served' = Served
  BY DEF Ask, DoFilter, Reply, bucketVars, updaterVars, Offered, Current, Served, Up
<1>2. ASSUME NEW q \in Queries, Ask(r, q)
      PROVE  Service!Answer(r, q)
  <2>1. Answered(r) = NoStations /\ Served = fdsnStations.version /\ Up
    BY <1>2 DEF Ask, Answered, Served
  <2>2. c'[r] = fdsnStations /\ query'[r] = q /\ stage'[r] = "copied"
    BY <1>2 DEF Ask, CacheInv, TypeOK
  <2>3. fdsnStations.networks \cap q = q
    BY <2>1, CacheAssumption DEF CacheInv, TreeInv
  <2>4. Answered(r)' = [version |-> fdsnStations.version, networks |-> q]
    BY <2>2, <2>3 DEF Answered
  <2>5. ASSUME NEW x \in Requests \ {r}
        PROVE  Answered(x)' = Answered(x)
    BY <1>2, <2>5 DEF Ask, Answered, CacheInv, TypeOK
  <2>6. Answers' = [Answers EXCEPT ![r] = [version |-> Served, networks |-> q]]
    BY <2>1, <2>4, <2>5 DEF Answers
  <2>7. Served # NoStations
    BY <2>1, CacheAssumption DEF CacheInv, TypeOK, Up, Stations, Version
  <2>8. Answers[r] = NoStations
    BY <2>1 DEF Answers
  <2> QED
    BY <1>1, <2>6, <2>7, <2>8 DEF Service!Answer, Served, Answers
<1>3. ASSUME DoFilter(r)
      PROVE  Answers' = Answers
  <2>1. /\ c'[r] = [c[r] EXCEPT !.networks = c[r].networks \cap query[r]]
        /\ stage[r] = "copied" /\ stage'[r] = "filtered" /\ query' = query
        /\ c[r] \in Stations
    BY <1>3 DEF DoFilter, CacheInv, TypeOK
  <2>2. /\ c'[r].networks \cap query[r] = c[r].networks \cap query[r]
        /\ c'[r].version = c[r].version
    BY <2>1 DEF Stations
  <2>3. Answered(r)' = Answered(r)
    BY <2>1, <2>2 DEF Answered
  <2>4. ASSUME NEW x \in Requests \ {r}
        PROVE  Answered(x)' = Answered(x)
    BY <1>3, <2>4 DEF DoFilter, Answered, CacheInv, TypeOK
  <2> QED
    BY <2>3, <2>4 DEF Answers
<1>4. ASSUME Reply(r)
      PROVE  Service!Finish(r)
  <2>1. Answered(r)' = NoStations
    BY <1>4 DEF Reply, Answered, CacheInv, TypeOK
  <2>2. ASSUME NEW x \in Requests \ {r}
        PROVE  Answered(x)' = Answered(x)
    BY <1>4, <2>2 DEF Reply, Answered, CacheInv, TypeOK
  <2>3. Answers' = [Answers EXCEPT ![r] = NoStations]
    BY <2>1, <2>2 DEF Answers
  <2> QED
    BY <1>1, <2>3 DEF Service!Finish, Served, Answers
<1>5. CASE DoFilter(r)
  BY <1>1, <1>3, <1>5 DEF Service!vars, Served, Answers
<1> QED
  BY <1>2, <1>4, <1>5 DEF Service!Next

(* The cache is a register of whole well-formed versions to its requests:  *)
(* a request takes its answer at one moment, and what it takes only moves  *)
(* forwards while the server is up.                                        *)
THEOREM CacheImplementation == Spec => ImplementsServedMetadata
<1>1. CacheInv /\ Init => Service!Init
  <2> SUFFICES ASSUME CacheInv, Init PROVE Service!Init
    OBVIOUS
  <2>1. Offered \in SUBSET Version
    BY CacheAssumption DEF Offered, Version, CacheInv, TypeOK, Current
  <2>2. Served = NoStations /\ Answers = [r \in Requests |-> NoStations]
    BY DEF Init, Served, Up, Answers, Answered
  <2> QED
    BY <2>1, <2>2 DEF Service!Init, Served, Answers
<1>2. CacheInv /\ [Next]_vars => [Service!Next]_(Service!vars)
  <2> SUFFICES ASSUME CacheInv, [Next]_vars
               PROVE  [Service!Next]_(Service!vars)
    OBVIOUS
  <2>1. CASE UNCHANGED vars
    <3>1. Offered' = Offered /\ Served' = Served /\ Answers' = Answers
      BY <2>1 DEF vars, bucketVars, updaterVars, requestVars, Offered, Current, Served,
                  Up, Answers, Answered
    <3> QED
      BY <3>1 DEF Service!vars, Served, Answers
  <2>2. CASE Next
    BY <2>2, UploadOffers, UpdaterServes, RequestIsAnswered DEF Next
  <2> QED
    BY <2>1, <2>2
<1> QED
  BY <1>1, <1>2, InitCacheInv, CacheInvariant, PTL
     DEF Spec, Service!Spec, ImplementsServedMetadata

=============================================================================
