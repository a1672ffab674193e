--------------------------- MODULE QuakeConsumer ---------------------------
(***************************************************************************)
(* cmd/fdsn-quake-consumer: workers that receive notifications of          *)
(* SeisComPML objects from SQS, fetch the objects from S3 and save them in *)
(* the table fdsn.event, one transaction per object, a DELETE of what is   *)
(* not newer followed by an INSERT.                                        *)
(*                                                                         *)
(* The transaction is modelled as PostgreSQL runs it at its default READ   *)
(* COMMITTED level: each statement sees what was committed when it         *)
(* started, a DELETE waits for another transaction that has already        *)
(* deleted the row and finds nothing if that one commits, and an INSERT    *)
(* waits for another transaction that has written the primary key.         *)
(***************************************************************************)
EXTENDS NotificationQueue, Sequences

CONSTANTS
  Workers,      (* running instances of the program                        *)
  Keys,         (* S3 object keys                                          *)
  Events,       (* public ids                                              *)
  Versions,     (* versions of the objects in the bucket                   *)
  NoVersion,    (* a record without a versionId; also no version in hand   *)
  NoRow,        (* an event that is not in fdsn.event                      *)
  NoMessage,    (* a worker that holds no message                          *)
  Upload,       (* what each version holds                                 *)
  Body,         (* what each message's text decodes to                     *)
  MaxRecords    (* bound on the records of a message                       *)

(* An object version belongs to a key and describes one event as of a      *)
(* modification time; one that is not valid fails unmarshal (no event or   *)
(* several, no XSLT for its version, a failing transform).                 *)
Content == [key: Keys, event: Events, mod: Nat, valid: BOOLEAN]

(* A record of a notification: the object's key and, if S3 or the sender   *)
(* gave one, its version (s3-notify gives none).                           *)
Ref == [key: Keys, version: Versions \cup {NoVersion}]

(* "malformed" text is refused by json.Unmarshal before anything is        *)
(* stored; "other" JSON has no Records key (an S3 test event, an SNS       *)
(* envelope); null, [] and an array all assign Records.                    *)
Text == [kind: {"malformed", "other", "records"}, records: Seq(Ref)]

ASSUME QuakeAssumption ==
  /\ Upload \in [Versions -> Content]
  /\ Body \in [Messages -> Text]
  /\ \A m \in Messages :
       /\ Len(Body[m].records) <= MaxRecords
       /\ Body[m].kind # "records" => Body[m].records = <<>>
  /\ MaxRecords \in Nat \ {0}
  /\ NoVersion \notin Versions
  /\ NoRow \notin Versions
  /\ NoMessage \notin Messages

VARIABLES
  table,        (* fdsn.event as committed                                 *)
  pc,           (* where each worker is in its loop                        *)
  job,          (* the message it has received                             *)
  n,            (* its notification struct, reused for every message       *)
  rec,          (* the record it is at                                     *)
  cur,          (* the version it has fetched                              *)
  removed       (* its open transaction has deleted the event's row        *)

workerVars == <<pc, job, n, rec, cur, removed>>
vars == <<queueVars, table, workerVars>>

Stages == {"receive", "get", "delete", "wait", "insert", "commit", "ack"}

(* Records of n: the first len elements of a backing array, whose elements *)
(* json.Unmarshal decodes into without clearing them.                      *)
NoRef == [key |-> NoVersion, version |-> NoVersion]
Notification ==
  [len: 0 .. MaxRecords, buf: [1 .. MaxRecords -> Ref \cup {NoRef}]]
EmptyNotification == [len |-> 0, buf |-> [i \in 1 .. MaxRecords |-> NoRef]]

TypeOK ==
  /\ QueueTypeOK
  /\ table \in [Events -> Versions \cup {NoRow}]
  /\ pc \in [Workers -> Stages]
  /\ job \in [Workers -> Messages \cup {NoMessage}]
  /\ n \in [Workers -> Notification]
  /\ rec \in [Workers -> 1 .. MaxRecords]
  /\ cur \in [Workers -> Versions \cup {NoVersion}]
  /\ removed \in [Workers -> BOOLEAN]

EventOf(v) == Upload[v].event
ModOf(v) == Upload[v].mod

Init ==
  /\ QueueInit
  /\ table = [e \in Events |-> NoRow]
  /\ pc = [w \in Workers |-> "receive"]
  /\ job = [w \in Workers |-> NoMessage]
  /\ n = [w \in Workers |-> EmptyNotification]
  /\ rec = [w \in Workers |-> 1]
  /\ cur = [w \in Workers |-> NoVersion]
  /\ removed = [w \in Workers |-> FALSE]

-----------------------------------------------------------------------------
(* Receiving and decoding                                                  *)

(* json.Unmarshal of a record into an element of the backing array: a      *)
(* field the text leaves out keeps its old value.                          *)
MergeRef(ref, old) ==
  [key |-> ref.key,
   version |-> IF ref.version = NoVersion THEN old.version ELSE ref.version]

(* json.Unmarshal of text into the struct s.                               *)
Decode(text, s) ==
  IF text.kind # "records" THEN s
  ELSE IF text.records = <<>> THEN EmptyNotification
  ELSE [len |-> Len(text.records),
        buf |-> [i \in 1 .. MaxRecords |->
                   IF i <= Len(text.records)
                   THEN MergeRef(text.records[i], s.buf[i])
                   ELSE s.buf[i]]]

(* What Process looks at before it touches a record.                       *)
Accepts(text, s) == text.kind # "malformed" /\ s.len > 0

(* The worker drops what it holds and goes back to the receive call.       *)
BackToReceive(w) ==
  /\ pc' = [pc EXCEPT ![w] = "receive"]
  /\ job' = [job EXCEPT ![w] = NoMessage]
  /\ rec' = [rec EXCEPT ![w] = 1]
  /\ cur' = [cur EXCEPT ![w] = NoVersion]
  /\ removed' = [removed EXCEPT ![w] = FALSE]

(* Mutant of Receive: the message is deleted when it is received.          *)
ReceiveDeletes(w, m) ==
  /\ pc[w] = "receive"
  /\ queue[m] = "visible"
  /\ queue' = [queue EXCEPT ![m] = "deleted"]
  /\ receives' = [receives EXCEPT ![m] = @ + 1]
  /\ n' = [n EXCEPT ![w] = Decode(Body[m], n[w])]
  /\ IF Accepts(Body[m], n'[w])
     THEN /\ pc' = [pc EXCEPT ![w] = "get"]
          /\ job' = [job EXCEPT ![w] = m]
          /\ UNCHANGED <<rec, cur, removed>>
     ELSE UNCHANGED <<pc, job, rec, cur, removed>>
  /\ UNCHANGED table

(* Receive m and decode it.  Process returns an error, and the loop leaves *)
(* the message to be redelivered, when the text is malformed or the struct *)
(* has no records.                                                         *)
Receive(w, m) ==
  /\ pc[w] = "receive"
  /\ Deliver(m)
  /\ n' = [n EXCEPT ![w] = Decode(Body[m], n[w])]
  /\ IF Accepts(Body[m], n'[w])
     THEN /\ pc' = [pc EXCEPT ![w] = "get"]
          /\ job' = [job EXCEPT ![w] = m]
          /\ UNCHANGED <<rec, cur, removed>>
     ELSE UNCHANGED <<pc, job, rec, cur, removed>>
  /\ UNCHANGED table

(* Process returns an error: no delete, the message stays in flight.       *)
Reject(w) ==
  /\ BackToReceive(w)
  /\ UNCHANGED <<queueVars, n>>

-----------------------------------------------------------------------------
(* Fetching                                                                *)

(* What s3.Get may return for a record: the version asked for if it is one *)
(* of the key's, and for no version whatever is current at the time.       *)
Stored(ref) ==
  {v \in Versions : /\ Upload[v].key = ref.key
                    /\ ref.version \in {v, NoVersion}}

(* What the worker can get, and unmarshal, for the record it is at.        *)
Usable(w) == {v \in Stored(n[w].buf[rec[w]]) : Upload[v].valid}

Get(w) ==
  /\ pc[w] = "get"
  /\ \E v \in Usable(w) : cur' = [cur EXCEPT ![w] = v]
  /\ pc' = [pc EXCEPT ![w] = "delete"]
  /\ UNCHANGED <<queueVars, table, job, n, rec, removed>>

(* Mutant of GetFails: tried again for ever instead of giving up.          *)
GetRetries(w) ==
  /\ pc[w] = "get"
  /\ UNCHANGED vars

(* The object is not there or not valid, or S3 or xsltproc fails.          *)
GetFails(w) ==
  /\ pc[w] = "get"
  /\ Reject(w)
  /\ UNCHANGED table

-----------------------------------------------------------------------------
(* Saving: event.save                                                      *)

(* The row of the worker's event, as committed.                            *)
Row(w) == table[EventOf(cur[w])]

(* Mutants of Matches: no condition on the time; a strict one.             *)
MatchesAny(w) == Row(w) # NoRow
MatchesStrictly(w) == Row(w) # NoRow /\ ModOf(Row(w)) < ModOf(cur[w])

(* The DELETE's condition on the committed row.                            *)
Matches(w) == Row(w) # NoRow /\ ModOf(Row(w)) <= ModOf(cur[w])

SameEvent(w, x) ==
  cur[w] # NoVersion /\ cur[x] # NoVersion /\ EventOf(cur[w]) = EventOf(cur[x])

(* Mutant of RowLocked: only a transaction that has inserted holds locks.  *)
RowLockedLate(w) == \E x \in Workers \ {w} : SameEvent(w, x) /\ pc[x] = "commit"

(* Another open transaction has deleted the row, or written the key.       *)
RowLocked(w) == \E x \in Workers \ {w} : SameEvent(w, x) /\ removed[x]

(* Mutant of KeyLocked: a transaction that has only inserted is not seen.  *)
KeyLockedLate(w) == \E x \in Workers \ {w} : SameEvent(w, x) /\ removed[x]
KeyLocked(w) ==
  \E x \in Workers \ {w} : SameEvent(w, x) /\ (removed[x] \/ pc[x] = "commit")

(* Mutant of DeleteOld: not tried again after waiting.                     *)
DeleteOldOnce(w) ==
  /\ pc[w] = "delete" /\ Matches(w)
  /\ ~RowLocked(w)
  /\ removed' = [removed EXCEPT ![w] = TRUE]
  /\ pc' = [pc EXCEPT ![w] = "insert"]
  /\ UNCHANGED <<queueVars, table, job, n, rec, cur>>

(* The DELETE finds a row that is not newer, now or when the transaction   *)
(* it waited for has rolled back.                                          *)
DeleteOld(w) ==
  /\ \/ pc[w] = "delete" /\ Matches(w)
     \/ pc[w] = "wait"
  /\ ~RowLocked(w)
  /\ removed' = [removed EXCEPT ![w] = TRUE]
  /\ pc' = [pc EXCEPT ![w] = "insert"]
  /\ UNCHANGED <<queueVars, table, job, n, rec, cur>>

DeleteNothing(w) ==
  /\ pc[w] = "delete"
  /\ ~Matches(w)
  /\ pc' = [pc EXCEPT ![w] = "insert"]
  /\ UNCHANGED <<queueVars, table, job, n, rec, cur, removed>>

DeleteWaits(w) ==
  /\ pc[w] = "delete"
  /\ Matches(w)
  /\ RowLocked(w)
  /\ pc' = [pc EXCEPT ![w] = "wait"]
  /\ UNCHANGED <<queueVars, table, job, n, rec, cur, removed>>

Insert(w) ==
  /\ pc[w] = "insert"
  /\ ~KeyLocked(w)
  /\ Row(w) = NoRow \/ removed[w]
  /\ pc' = [pc EXCEPT ![w] = "commit"]
  /\ UNCHANGED <<queueVars, table, job, n, rec, cur, removed>>

(* After a record: the next one, or the end of Process.                    *)
AfterRecord(w) == IF rec[w] < n[w].len THEN "get" ELSE "ack"

(* Mutant of NextRecord: the counter runs past the last record.            *)
NextRecordUnchecked(w) ==
  /\ rec' = [rec EXCEPT ![w] = @ + 1]
  /\ cur' = [cur EXCEPT ![w] = NoVersion]
  /\ removed' = [removed EXCEPT ![w] = FALSE]

NextRecord(w) ==
  /\ rec' = [rec EXCEPT ![w] = IF @ < n[w].len THEN @ + 1 ELSE @]
  /\ cur' = [cur EXCEPT ![w] = NoVersion]
  /\ removed' = [removed EXCEPT ![w] = FALSE]

(* The INSERT hits a unique_violation: rolled back and no error.           *)
DropAsOlder(w) ==
  /\ pc[w] = "insert"
  /\ ~KeyLocked(w)
  /\ Row(w) # NoRow
  /\ ~removed[w]
  /\ NextRecord(w)
  /\ pc' = [pc EXCEPT ![w] = AfterRecord(w)]
  /\ UNCHANGED <<queueVars, table, job, n>>

(* The commit takes effect.  A DELETE that waited for this transaction     *)
(* finds its row gone.                                                     *)
CommitRow(w) == table' = [table EXCEPT ![EventOf(cur[w])] = cur[w]]
WaitersFindNothing(w) ==
  [x \in Workers |->
     IF pc[x] = "wait" /\ SameEvent(w, x) /\ removed[w] THEN "insert" ELSE pc[x]]

Commit(w) ==
  /\ pc[w] = "commit"
  /\ CommitRow(w)
  /\ NextRecord(w)
  /\ pc' = [WaitersFindNothing(w) EXCEPT ![w] = AfterRecord(w)]
  /\ UNCHANGED <<queueVars, job, n>>

(* The commit takes effect but its answer is lost.                         *)
CommitUnanswered(w) ==
  /\ pc[w] = "commit"
  /\ CommitRow(w)
  /\ pc' = [WaitersFindNothing(w) EXCEPT ![w] = "receive"]
  /\ job' = [job EXCEPT ![w] = NoMessage]
  /\ rec' = [rec EXCEPT ![w] = 1]
  /\ cur' = [cur EXCEPT ![w] = NoVersion]
  /\ removed' = [removed EXCEPT ![w] = FALSE]
  /\ UNCHANGED <<queueVars, n>>

(* Mutant of SaveFails: the error of save is not returned.                 *)
SaveFailsUnnoticed(w) ==
  /\ pc[w] \in {"delete", "wait", "insert", "commit"}
  /\ NextRecord(w)
  /\ pc' = [pc EXCEPT ![w] = AfterRecord(w)]
  /\ UNCHANGED <<queueVars, table, job, n>>

(* Begin, a statement or the commit fails for any other reason; what the   *)
(* transaction did is rolled back.                                         *)
SaveFails(w) ==
  /\ pc[w] \in {"delete", "wait", "insert", "commit"}
  /\ Reject(w)
  /\ UNCHANGED table

-----------------------------------------------------------------------------
(* The end of the loop's body                                              *)

(* Process returned nil.  A failing delete is logged and ignored.          *)
Delete(w) ==
  /\ pc[w] = "ack"
  /\ Remove(job[w])
  /\ BackToReceive(w)
  /\ UNCHANGED <<table, n>>

DeleteFails(w) ==
  /\ pc[w] = "ack"
  /\ Reject(w)
  /\ UNCHANGED table

(* The process ends, stopped at its receive call or crashing anywhere      *)
(* else, and is started again with a fresh struct.                         *)
Restart(w) ==
  /\ BackToReceive(w)
  /\ n' = [n EXCEPT ![w] = EmptyNotification]
  /\ UNCHANGED <<queueVars, table>>

-----------------------------------------------------------------------------
Step(w) ==
  \/ \E m \in Messages : Receive(w, m)
  \/ Get(w) \/ GetFails(w)
  \/ DeleteOld(w) \/ DeleteNothing(w) \/ DeleteWaits(w)
  \/ Insert(w) \/ DropAsOlder(w)
  \/ Commit(w) \/ CommitUnanswered(w) \/ SaveFails(w)
  \/ Delete(w) \/ DeleteFails(w)

(* What the queue does by itself.                                          *)
Sends(m) == Send(m) /\ UNCHANGED <<table, workerVars>>
Expires(m) == Expire(m) /\ UNCHANGED <<table, workerVars>>

Next ==
  \/ \E m \in Messages : Sends(m) \/ Expires(m)
  \/ \E w \in Workers : Step(w) \/ Restart(w)

Spec == Init /\ [][Next]_vars

(* A worker that is running goes on: it polls for messages, and each call  *)
(* it makes returns.  Only the steps in which a call fails although it     *)
(* need not are left to chance, and so is a restart.  S3 sends each        *)
(* notification and the visibility timeout of a delivery ends.             *)
Progress(w) ==
  \/ \E m \in Messages : Receive(w, m)
  \/ Get(w) \/ (Usable(w) = {} /\ GetFails(w))
  \/ DeleteOld(w) \/ DeleteNothing(w) \/ DeleteWaits(w)
  \/ Insert(w) \/ DropAsOlder(w) \/ Commit(w) \/ Delete(w)

Fairness ==
  /\ \A m \in Messages : WF_vars(Sends(m)) /\ WF_vars(Expires(m))
  /\ \A w \in Workers : WF_vars(Progress(w))

FairSpec == Spec /\ Fairness

-----------------------------------------------------------------------------
(* Properties                                                              *)

(* The table holds information as recent as some stored version of what    *)
(* the record names, the very one if it names a version.                   *)
Reflected(ref) ==
  \E v \in Stored(ref) :
    /\ Upload[v].valid
    /\ table[EventOf(v)] # NoRow
    /\ ModOf(table[EventOf(v)]) >= ModOf(v)

(* A message is only deleted from the queue when the table reflects each   *)
(* of its records: whatever fails, crashes, is delivered twice or out of   *)
(* order, no update is acknowledged and lost.  With a single worker; two   *)
(* can lose one, see UniqueViolationMeansOlder.                            *)
AckedMeansSaved ==
  \A m \in Messages : queue[m] = "deleted" =>
    \A i \in 1 .. Len(Body[m].records) : Reflected(Body[m].records[i])

(* With any number of workers an acknowledged event is in the table, in a  *)
(* version or in another one: a race can lose an update, never an event.   *)
Known(ref) ==
  \E v \in Stored(ref) : Upload[v].valid /\ table[EventOf(v)] # NoRow
AckedEventsAreKnown ==
  \A m \in Messages : queue[m] = "deleted" =>
    \A i \in 1 .. Len(Body[m].records) : Known(Body[m].records[i])

(* save: "a unique_violation means the new event info is older than in the *)
(* table already" (sc3ml.go): an INSERT is dropped without an error only   *)
(* for an object that is older than the stored one.                        *)
UniqueViolationMeansOlder ==
  [][\A w \in Workers : DropAsOlder(w) => ModOf(cur[w]) < ModOf(Row(w))]_vars

(* Whatever the workers interleave, fdsn.event never goes back to older    *)
(* information about an event and never loses the event: a tombstone       *)
(* (Deleted) cannot be undone by a late message either.                    *)
RowNeverGoesBack ==
  [][\A e \in Events : table[e] # NoRow =>
       table'[e] # NoRow /\ ModOf(table'[e]) >= ModOf(table[e])]_vars

(* Two open transactions never both hold writes on one event's key: the    *)
(* reason why a commit cannot overwrite another worker's row.              *)
Holds(w) == removed[w] \/ pc[w] = "commit"
OneWriterPerEvent ==
  \A w, x \in Workers : w # x /\ Holds(w) /\ Holds(x) => ~SameEvent(w, x)

(* A statement that waits for another transaction waits for one that does  *)
(* not wait itself: no cycle of waits, and no chain of them either.        *)
Blocked(w) ==
  \/ pc[w] = "wait" /\ RowLocked(w)
  \/ pc[w] = "insert" /\ KeyLocked(w)
BlockersGoOn ==
  \A w \in Workers : Blocked(w) =>
    \E x \in Workers : /\ SameEvent(w, x) /\ Holds(x)
                       /\ pc[x] \in {"insert", "commit"} /\ ~Blocked(x)

(* A worker that saves gets past its DELETE and INSERT: no two open        *)
(* transactions wait for each other and no lock outlives its transaction.  *)
SavesFinish ==
  \A w \in Workers :
    pc[w] \in {"wait", "insert"} ~> pc[w] \notin {"wait", "insert"}

(* Every message leaves the queue, deleted or to the DLQ, although any     *)
(* call may fail and workers may crash at any time.                        *)
EveryMessageSettles == \A m \in Messages : <>[]Settled(m)

(* Process: a message that fails its tests "should go to the DLQ for       *)
(* further inspection" (main.go): it is never deleted as processed.        *)
UnusableMessagesAreKept ==
  \A m \in Messages : Body[m].records = <<>> => queue[m] # "deleted"

(* The consumer implements LatestEvent.                                    *)
Announces(m) ==
  {v \in Versions : \E i \in 1 .. Len(Body[m].records) :
                      Body[m].records[i].version = v}
Latest == INSTANCE LatestEvent WITH
  Notices <- Messages,
  acknowledged <- {m \in Messages : queue[m] = "deleted"}
ImplementsLatestEvent == Latest!Spec

(* Several workers still implement what LatestEvent says of the table, the *)
(* part of it that the web service relies on: fdsn.event changes one event *)
(* at a time, to a version of that event that is not older.                *)
Nothing(m) == {}
EventTable == INSTANCE LatestEvent WITH
  Notices <- {}, Announces <- Nothing, acknowledged <- {}
ImplementsEventTable == EventTable!Spec

=============================================================================
