------------------------- MODULE HoldingsConsumer --------------------------
(***************************************************************************)
(* cmd/fdsn-holdings-consumer: workers that receive notifications of the   *)
(* creation and removal of miniSEED objects and keep the index of them,    *)
(* the tables fdsn.stream and fdsn.holdings.  Every statement commits by   *)
(* itself.  The bucket changes while notifications are on their way: what  *)
(* a worker reads is what the bucket holds at the time of the read.        *)
(***************************************************************************)
EXTENDS NotificationQueue, Sequences

CONSTANTS
  Workers,      (* running instances of the program                        *)
  Keys,         (* S3 object keys                                          *)
  Contents,     (* what a miniSEED object may hold                         *)
  Corrupt,      (* the contents in which holdings.SingleStream finds a     *)
                (* short or bad record                                     *)
  Streams,      (* network, station, channel and location codes            *)
  NoStream,     (* the stream with four empty codes                        *)
  StreamOf,     (* the stream of a content's first record; NoStream for an *)
                (* empty object                                            *)
  Absent,       (* no object; also no content                              *)
  NoRow,        (* no row in fdsn.holdings                                 *)
  NoMessage,    (* a worker that holds no message                          *)
  ReadsFail,    (* whether S3 may fail to return an object that is there   *)
  MaxRecords    (* bound on the records of a message                       *)

AllStreams == Streams \cup {NoStream}

(* A record of a notification: the prefix of its EventName and its key.    *)
EventNames == {"ObjectCreated", "ObjectRemoved", "unknown"}
Record == [name: EventNames, key: Keys]

(* The text of a message, of the kinds of QuakeConsumer.                   *)
Text == [kind: {"malformed", "other", "records"}, records: Seq(Record)]

(* A holding: its stream, what was read, and whether it is flagged as an   *)
(* error (error_data).  A row is stored under its stream and key.          *)
Holding == [stream: AllStreams, content: Contents \cup {Absent}, error: BOOLEAN]
Row == [content: Contents \cup {Absent}, error: BOOLEAN]
ErrorHolding == [stream |-> NoStream, content |-> Absent, error |-> TRUE]

ASSUME HoldingsAssumption ==
  /\ Corrupt \subseteq Contents
  /\ StreamOf \in [Contents -> AllStreams]
  /\ NoStream \notin Streams
  /\ Absent \notin Contents
  /\ NoRow \notin Row
  /\ NoMessage \notin Messages
  /\ ReadsFail \in BOOLEAN
  /\ MaxRecords \in Nat \ {0, 1}

VARIABLES
  text,         (* the text of each message sent                           *)
  object,       (* the bucket                                              *)
  settled,      (* history, read by properties only: the keys whose object *)
                (* was uploaded when no removal of them was left           *)
  stream,       (* the rows of fdsn.stream                                 *)
  holdings,     (* the rows of fdsn.holdings, by stream and key            *)
  pc,           (* where each worker is in its loop                        *)
  job,          (* the message it has received                             *)
  e,            (* the Records of its event struct, reused                 *)
  rec,          (* the record it is at                                     *)
  h             (* the holding it saves                                    *)

bucketVars == <<queueVars, text, object, settled>>
dbVars == <<stream, holdings>>
workerVars == <<pc, job, e, rec, h>>
vars == <<bucketVars, dbVars, workerVars>>

Stages == {"receive", "record", "save", "stream", "again", "ack"}

TypeOK ==
  /\ QueueTypeOK
  /\ text \in [Messages -> Text]
  /\ object \in [Keys -> Contents \cup {Absent}]
  /\ settled \subseteq Keys
  /\ stream \subseteq AllStreams
  /\ holdings \in [AllStreams -> [Keys -> Row \cup {NoRow}]]
  /\ pc \in [Workers -> Stages]
  /\ job \in [Workers -> Messages \cup {NoMessage}]
  /\ e \in [Workers -> Seq(Record)]
  /\ \A w \in Workers : Len(e[w]) <= MaxRecords
  /\ rec \in [Workers -> 1 .. MaxRecords]
  /\ h \in [Workers -> Holding]

NoRecords(kind) == [kind |-> kind, records |-> <<>>]

Init ==
  /\ QueueInit
  /\ text = [m \in Messages |-> NoRecords("other")]
  /\ object = [k \in Keys |-> Absent]
  /\ settled = {}
  /\ stream = {}
  /\ holdings = [s \in AllStreams |-> [k \in Keys |-> NoRow]]
  /\ pc = [w \in Workers |-> "receive"]
  /\ job = [w \in Workers |-> NoMessage]
  /\ e = [w \in Workers |-> <<>>]
  /\ rec = [w \in Workers |-> 1]
  /\ h = [w \in Workers |-> ErrorHolding]

-----------------------------------------------------------------------------
(* The bucket and the senders of notifications                             *)

SendText(m, t) ==
  /\ Send(m)
  /\ text' = [text EXCEPT ![m] = t]
  /\ UNCHANGED <<dbVars, workerVars>>
SendRecords(m, records) ==
  SendText(m, [kind |-> "records", records |-> records])

Creation(k) == [name |-> "ObjectCreated", key |-> k]
Removal(k) == [name |-> "ObjectRemoved", key |-> k]

(* A message with record r may still have an effect, or is in the DLQ.     *)
Outstanding(r) ==
  \E m \in Messages :
    /\ queue[m] \in {"visible", "inflight", "dlq"}
    /\ \E i \in 1 .. Len(text[m].records) : text[m].records[i] = r

(* A removal of k may still be processed: its message is outstanding, or   *)
(* the record is left in a worker's event struct, which JSON without       *)
(* Records has it process again.                                           *)
RemovalLeft(k) ==
  \/ Outstanding(Removal(k))
  \/ \E w \in Workers : \E i \in 1 .. Len(e[w]) : e[w][i] = Removal(k)

(* An object is uploaded, or replaced by a corrected one.                  *)
Put(m, k, c) ==
  /\ object' = [object EXCEPT ![k] = c]
  /\ settled' = IF RemovalLeft(k) THEN settled ELSE settled \cup {k}
  /\ SendRecords(m, <<Creation(k)>>)

Take(m, k) ==
  /\ object[k] # Absent
  /\ object' = [object EXCEPT ![k] = Absent]
  /\ settled' = settled \ {k}
  /\ SendRecords(m, <<Removal(k)>>)

(* s3-notify, or another sender of messages in the notification format,    *)
(* asks for one or two objects of the bucket to be indexed again.          *)
Reindex(m, ks) ==
  /\ \A i \in 1 .. Len(ks) : object[ks[i]] # Absent
  /\ SendRecords(m, [i \in 1 .. Len(ks) |-> Creation(ks[i])])
  /\ UNCHANGED <<object, settled>>

(* Other senders: a record of an event the consumer does not know, after   *)
(* one that it knows, JSON without Records (an S3 test event), and text    *)
(* that is not JSON.                                                       *)
Misconfigured(m, k) ==
  /\ SendRecords(m, <<Creation(k), [name |-> "unknown", key |-> k]>>)
  /\ UNCHANGED <<object, settled>>
Unusable(m) ==
  /\ \E kind \in {"other", "malformed"} : SendText(m, NoRecords(kind))
  /\ UNCHANGED <<object, settled>>

-----------------------------------------------------------------------------
(* The loop of main                                                        *)

Decode(t, old) == IF t.kind = "records" THEN t.records ELSE old

BackToReceive(w) ==
  /\ pc' = [pc EXCEPT ![w] = "receive"]
  /\ job' = [job EXCEPT ![w] = NoMessage]
  /\ rec' = [rec EXCEPT ![w] = 1]
  /\ h' = [h EXCEPT ![w] = ErrorHolding]

(* Receive and decode m; without Records Process returns an error and the  *)
(* message is left for redelivery.                                         *)
Receive(w, m) ==
  /\ pc[w] = "receive"
  /\ Deliver(m)
  /\ e' = [e EXCEPT ![w] = Decode(text[m], e[w])]
  /\ IF text[m].kind # "malformed" /\ e'[w] # <<>>
     THEN /\ pc' = [pc EXCEPT ![w] = "record"]
          /\ job' = [job EXCEPT ![w] = m]
     ELSE UNCHANGED <<pc, job>>
  /\ UNCHANGED <<text, object, settled, dbVars, rec, h>>

(* Process returns an error: the message stays in flight.                  *)
Reject(w) ==
  /\ BackToReceive(w)
  /\ UNCHANGED <<bucketVars, dbVars, e>>

Current(w) == e[w][rec[w]]
AfterRecord(w) == IF rec[w] < Len(e[w]) THEN "record" ELSE "ack"

(* Mutant of NextRecord: the counter runs past the last record.            *)
NextRecordUnchecked(w) ==
  /\ pc' = [pc EXCEPT ![w] = AfterRecord(w)]
  /\ rec' = [rec EXCEPT ![w] = @ + 1]
  /\ h' = [h EXCEPT ![w] = ErrorHolding]
  /\ UNCHANGED <<bucketVars, job, e>>

NextRecord(w) ==
  /\ pc' = [pc EXCEPT ![w] = AfterRecord(w)]
  /\ rec' = [rec EXCEPT ![w] = IF @ < Len(e[w]) THEN @ + 1 ELSE @]
  /\ h' = [h EXCEPT ![w] = ErrorHolding]
  /\ UNCHANGED <<bucketVars, job, e>>

-----------------------------------------------------------------------------
(* A record: Process and holding.save                                      *)

(* Mutant of ReadResults: an error keeps what the first record gave.       *)
ReadResultsKeepHeader(k) ==
  {[stream |-> StreamOf[c], content |-> c, error |-> failed] :
     c \in {object[k]} \cap Contents,
     failed \in {object[k] \in Corrupt, ReadsFail}}
  \cup (IF object[k] = Absent THEN {ErrorHolding} ELSE {})

(* holdingS3: what can come of reading the object now.                     *)
ReadResults(k) ==
  {[stream |-> StreamOf[c], content |-> c, error |-> FALSE] :
     c \in {object[k]} \cap (Contents \ Corrupt)}
  \cup (IF ReadsFail \/ object[k] \in Corrupt \cup {Absent}
        THEN {ErrorHolding} ELSE {})

Read(w) ==
  /\ pc[w] = "record"
  /\ Current(w).name = "ObjectCreated"
  /\ \E r \in ReadResults(Current(w).key) : h' = [h EXCEPT ![w] = r]
  /\ pc' = [pc EXCEPT ![w] = "save"]
  /\ UNCHANGED <<bucketVars, dbVars, job, e, rec>>

(* saveHoldings: INSERT ... SELECT from fdsn.stream ... ON CONFLICT        *)
(* (streamPK, key) DO UPDATE.  Without the stream it writes no row.        *)
SaveHoldings(w) ==
  /\ holdings' =
       IF h[w].stream \in stream
       THEN [holdings EXCEPT ![h[w].stream][Current(w).key] =
               [content |-> h[w].content, error |-> h[w].error]]
       ELSE holdings
  /\ UNCHANGED stream

(* Mutant of Save: the number of rows is not looked at.                    *)
SaveUnchecked(w) ==
  /\ pc[w] = "save"
  /\ SaveHoldings(w)
  /\ NextRecord(w)

Save(w) ==
  /\ pc[w] = "save"
  /\ SaveHoldings(w)
  /\ IF h[w].stream \in stream
     THEN NextRecord(w)
     ELSE /\ pc' = [pc EXCEPT ![w] = "stream"]
          /\ UNCHANGED <<bucketVars, job, e, rec, h>>

(* saveStream: a unique_violation means another worker was first.          *)
InsertStream(w) ==
  /\ stream' = stream \cup {h[w].stream}
  /\ UNCHANGED holdings

SaveStream(w) ==
  /\ pc[w] = "stream"
  /\ InsertStream(w)
  /\ pc' = [pc EXCEPT ![w] = "again"]
  /\ UNCHANGED <<bucketVars, job, e, rec, h>>

(* The second saveHoldings, whose row count is not looked at.              *)
SaveAgain(w) ==
  /\ pc[w] = "again"
  /\ SaveHoldings(w)
  /\ NextRecord(w)

(* Mutant of DeleteRows: of several rows of the key one is deleted.        *)
DeleteOneRow(w) ==
  /\ \E s \in AllStreams :
       holdings' = [holdings EXCEPT ![s][Current(w).key] = NoRow]
  /\ UNCHANGED stream

(* holding.delete: the rows of the key in every stream.                    *)
DeleteRows(w) ==
  /\ holdings' = [s \in AllStreams |->
                    [holdings[s] EXCEPT ![Current(w).key] = NoRow]]
  /\ UNCHANGED stream

AtRemoval(w) == pc[w] = "record" /\ Current(w).name = "ObjectRemoved"

DeleteHoldings(w) ==
  /\ AtRemoval(w)
  /\ DeleteRows(w)
  /\ NextRecord(w)

UnknownEvent(w) ==
  /\ pc[w] = "record"
  /\ Current(w).name \notin {"ObjectCreated", "ObjectRemoved"}
  /\ Reject(w)

AtStatement(w) == pc[w] \in {"save", "stream", "again"} \/ AtRemoval(w)

(* Mutant of StatementFails: the error is logged and not returned.         *)
StatementFailsUnnoticed(w) ==
  /\ AtStatement(w)
  /\ NextRecord(w)
  /\ UNCHANGED dbVars

(* A statement fails.                                                      *)
StatementFails(w) ==
  /\ AtStatement(w)
  /\ Reject(w)

(* A statement takes effect but its answer is lost, also an error.         *)
StatementUnanswered(w) ==
  /\ \/ pc[w] \in {"save", "again"} /\ SaveHoldings(w)
     \/ pc[w] = "stream" /\ InsertStream(w)
     \/ AtRemoval(w) /\ DeleteRows(w)
  /\ BackToReceive(w)
  /\ UNCHANGED <<bucketVars, e>>

-----------------------------------------------------------------------------
(* The end of the loop's body                                              *)

Delete(w) ==
  /\ pc[w] = "ack"
  /\ Remove(job[w])
  /\ BackToReceive(w)
  /\ UNCHANGED <<text, object, settled, dbVars, e>>

DeleteFails(w) ==
  /\ pc[w] = "ack"
  /\ Reject(w)

(* The process stops or crashes and is started again.                      *)
Restart(w) ==
  /\ BackToReceive(w)
  /\ e' = [e EXCEPT ![w] = <<>>]
  /\ UNCHANGED <<bucketVars, dbVars>>

-----------------------------------------------------------------------------
Step(w) ==
  \/ \E m \in Messages : Receive(w, m)
  \/ Read(w) \/ Save(w) \/ SaveStream(w) \/ SaveAgain(w)
  \/ DeleteHoldings(w) \/ UnknownEvent(w)
  \/ StatementFails(w) \/ StatementUnanswered(w)
  \/ Delete(w) \/ DeleteFails(w)

Sends(m) ==
  \/ \E k \in Keys : \/ \E c \in Contents : Put(m, k, c)
                     \/ Take(m, k) \/ Misconfigured(m, k)
                     \/ Reindex(m, <<k>>)
                     \/ \E j \in Keys : Reindex(m, <<k, j>>)
  \/ Unusable(m)

Expires(m) ==
  /\ Expire(m)
  /\ UNCHANGED <<text, object, settled, dbVars, workerVars>>

Next ==
  \/ \E m \in Messages : Sends(m) \/ Expires(m)
  \/ \E w \in Workers : Step(w) \/ Restart(w)

Spec == Init /\ [][Next]_vars

-----------------------------------------------------------------------------
(* Properties                                                              *)

Searchable(s, k) == holdings[s][k] # NoRow /\ ~holdings[s][k].error

(* A removed object is not left in what the searches see                   *)
(* (error_data = false) once its removal has been processed, whatever      *)
(* notifications of it are late or delivered again.  With a single worker; *)
(* a second one may read the object before and save it after the removal.  *)
NoGhostHoldings ==
  \A k \in Keys, s \in AllStreams :
    Searchable(s, k) /\ object[k] = Absent => Outstanding(Removal(k))

(* An object is indexed as it is now in the bucket, or a notification of   *)
(* it is outstanding, whatever was replaced, failed, restarted or came out *)
(* of order, also where the key was removed and uploaded again after the   *)
(* removal had been processed.  Before, nothing tells in which order the   *)
(* two are processed.  With a single worker and reads that do not fail: a  *)
(* failing read is recorded as a broken file.                              *)
Indexed(k) ==
  IF object[k] \in Corrupt
  THEN holdings[NoStream][k] = [content |-> Absent, error |-> TRUE]
  ELSE holdings[StreamOf[object[k]]][k] = [content |-> object[k], error |-> FALSE]
ObjectsAreIndexed ==
  \A k \in settled : Indexed(k) \/ Outstanding(Creation(k))

(* With any number of workers, and although reads may fail, such an object *)
(* has a row, if only one that flags an error, or its notification is      *)
(* outstanding: none is passed over without a trace.                       *)
ObjectsAreKnown ==
  \A k \in settled :
    \/ \E s \in AllStreams : holdings[s][k] # NoRow
    \/ Outstanding(Creation(k))

(* The searchable row of the file that is in the bucket now stays so: a    *)
(* later read of it that fails has its error row elsewhere, and a worker   *)
(* that has read an earlier, perhaps broken file of the key and saves it   *)
(* late does not take the row away.  Nothing is said of the row of a file  *)
(* that was replaced: after a replacement that is broken or of another     *)
(* stream it should go, and does not (CorrectedErrorsMove).                *)
UnchangedStaySearchable ==
  [][\A k \in settled, s \in Streams :
       Searchable(s, k) /\ holdings[s][k].content = object[k] =>
         Searchable(s, k)']_vars

(* Rows flagged as errors are under the stream of empty codes (main.go,    *)
(* comment at saveHoldings), any other row under the stream that its file  *)
(* contains: no worker saves under what another file or record left.       *)
RowsAreInTheirStream ==
  \A s \in AllStreams, k \in Keys : holdings[s][k] # NoRow =>
    IF holdings[s][k].error THEN s = NoStream
                            ELSE s = StreamOf[holdings[s][k].content]

(* The second saveHoldings finds the stream, whoever stored it: a created  *)
(* record is never passed over without a row.                              *)
CreatedRecordHasRow ==
  [][\A w \in Workers :
       pc[w] \in {"save", "stream", "again"} /\ pc'[w] \in {"record", "ack"} =>
         holdings'[h[w].stream][Current(w).key] # NoRow]_vars

(* main.go, comment at saveHoldings: "if the error is corrected the stream *)
(* will change to some valid nscl. To handle this the streamPK is updated  *)
(* on conflict": the save that gives a file with an error row its row      *)
(* under a proper stream leaves no error row behind.                       *)
ErrorRow(k) == holdings[NoStream][k] # NoRow /\ holdings[NoStream][k].error
CorrectedErrorsMove ==
  [][\A k \in Keys, s \in Streams :
       ErrorRow(k) /\ holdings[s][k] = NoRow /\ holdings'[s][k] # NoRow =>
         ~ErrorRow(k)']_vars

=============================================================================
