------------------------ MODULE QuakeConsumerProofs ------------------------
(***************************************************************************)
(* Theorems about QuakeConsumer for any number of workers, messages,       *)
(* events and versions, and any limit on deliveries and records.           *)
(***************************************************************************)
EXTENDS QuakeConsumer, TLAPS

-----------------------------------------------------------------------------
(* Type correctness                                                        *)

LEMMA RefTypes ==
  ASSUME NEW ref \in Ref, NEW old \in Ref \cup {NoRef}
  PROVE  MergeRef(ref, old) \in Ref
BY DEF MergeRef, Ref, NoRef

(* Decoding any text into a struct gives a struct.                         *)
LEMMA DecodeType ==
  ASSUME NEW m \in Messages, NEW s \in Notification
  PROVE  Decode(Body[m], s) \in Notification
<1> DEFINE rs == Body[m].records
<1>1. /\ rs \in Seq(Ref)
      /\ Len(rs) \in 0 .. MaxRecords
  BY QuakeAssumption DEF Text
<1>2. EmptyNotification \in Notification
  BY QuakeAssumption DEF EmptyNotification, Notification
<1>3. ASSUME NEW i \in 1 .. MaxRecords
      PROVE  (IF i <= Len(rs) THEN MergeRef(rs[i], s.buf[i]) ELSE s.buf[i])
               \in Ref \cup {NoRef}
  <2>1. s.buf[i] \in Ref \cup {NoRef}
    BY DEF Notification
  <2>2. CASE i <= Len(rs)
    <3>1. rs[i] \in Ref
      BY <1>1, <2>2
    <3> QED
      BY <2>1, <2>2, <3>1, RefTypes
  <2>3. CASE ~(i <= Len(rs))
    BY <2>1, <2>3
  <2> QED
    BY <2>2, <2>3
<1> QED
  BY <1>1, <1>2, <1>3 DEF Decode, Notification

(* The queue's own steps keep its type.                                    *)
LEMMA QueueTypes ==
  ASSUME QueueTypeOK, NEW m \in Messages,
         Send(m) \/ Deliver(m) \/ Expire(m) \/ Remove(m)
  PROVE  QueueTypeOK'
BY QueueAssumption DEF QueueTypeOK, Places, Send, Deliver, Expire, Remove

LEMMA ContentTypes ==
  ASSUME NEW v \in Versions
  PROVE  /\ EventOf(v) \in Events
         /\ ModOf(v) \in Nat
BY QuakeAssumption DEF EventOf, ModOf, Content

-----------------------------------------------------------------------------
(* The inductive invariant                                                 *)

(* TypeOK is not inductive alone: a commit writes the version in hand.     *)
(* A worker has a version exactly while it saves, a message exactly while  *)
(* it processes; what an open transaction has deleted or waits for is the  *)
(* committed row, not newer than its own; a transaction that has inserted  *)
(* without deleting had no row to delete.                                  *)
Saving == {"delete", "wait", "insert", "commit"}

HandInv ==
  \A w \in Workers :
    /\ cur[w] \in Versions <=> pc[w] \in Saving
    /\ job[w] \in Messages <=> pc[w] # "receive"
    /\ removed[w] => pc[w] \in {"insert", "commit"}

RowInv ==
  \A w \in Workers :
    /\ pc[w] = "wait" \/ removed[w] => Matches(w)
    /\ pc[w] = "commit" /\ ~removed[w] => Row(w) = NoRow

SaveInv == TypeOK /\ HandInv /\ RowInv /\ OneWriterPerEvent

LEMMA InitSaveInv == Init => SaveInv
<1> SUFFICES ASSUME Init PROVE SaveInv
  OBVIOUS
<1>1. QueueTypeOK
  BY QuakeAssumption, QueueAssumption DEF Init, QueueInit, QueueTypeOK, Places
<1>2. EmptyNotification \in Notification
  BY QuakeAssumption DEF EmptyNotification, Notification
<1>3. TypeOK
  BY <1>1, <1>2, QuakeAssumption DEF Init, TypeOK, Stages
<1>4. HandInv /\ RowInv /\ OneWriterPerEvent
  BY QuakeAssumption
     DEF Init, HandInv, RowInv, OneWriterPerEvent, Saving, Holds
<1> QED
  BY <1>3, <1>4 DEF SaveInv

(* A worker that goes back to its receive call keeps the invariant.        *)
LEMMA BackToReceiveKeeps ==
  ASSUME SaveInv, NEW w \in Workers, BackToReceive(w),
         QueueTypeOK', table' = table, n' \in [Workers -> Notification]
  PROVE  SaveInv'
<1> USE DEF SaveInv
<1>1. TypeOK'
  <2>1. 1 \in 1 .. MaxRecords
    BY QuakeAssumption
  <2>2. table' \in [Events -> Versions \cup {NoRow}]
    BY DEF TypeOK
  <2> QED
    BY <2>1, <2>2 DEF TypeOK, BackToReceive, Stages
<1>2. /\ \A x \in Workers \ {w} : /\ pc'[x] = pc[x] /\ job'[x] = job[x]
                                  /\ cur'[x] = cur[x] /\ removed'[x] = removed[x]
      /\ pc'[w] = "receive" /\ job'[w] = NoMessage
      /\ cur'[w] = NoVersion /\ removed'[w] = FALSE
  BY DEF TypeOK, BackToReceive
<1>3. HandInv'
  BY <1>2, QuakeAssumption DEF HandInv, Saving
<1>4. RowInv'
  BY <1>2 DEF RowInv, Row, Matches
<1>5. OneWriterPerEvent'
  BY <1>2 DEF OneWriterPerEvent, Holds, SameEvent
<1> QED
  BY <1>1, <1>3, <1>4, <1>5

(* The record counter stays within the message.                            *)
LEMMA NextRecordTypes ==
  ASSUME TypeOK, NEW w \in Workers, NextRecord(w)
  PROVE  /\ rec' \in [Workers -> 1 .. MaxRecords]
         /\ cur' \in [Workers -> Versions \cup {NoVersion}]
         /\ removed' \in [Workers -> BOOLEAN]
         /\ AfterRecord(w) \in {"get", "ack"}
<1>1. n[w].len \in 0 .. MaxRecords /\ rec[w] \in 1 .. MaxRecords
  BY DEF TypeOK, Notification
<1>2. (IF rec[w] < n[w].len THEN rec[w] + 1 ELSE rec[w]) \in 1 .. MaxRecords
  BY <1>1, QuakeAssumption
<1> QED
  BY <1>2 DEF TypeOK, NextRecord, AfterRecord

(* A commit keeps the invariant, whatever the worker does next.            *)
LEMMA CommitKeeps ==
  ASSUME SaveInv, NEW w \in Workers, pc[w] = "commit", CommitRow(w),
         NEW stage \in {"get", "ack", "receive"},
         pc' = [WaitersFindNothing(w) EXCEPT ![w] = stage],
         cur' = [cur EXCEPT ![w] = NoVersion],
         removed' = [removed EXCEPT ![w] = FALSE],
         rec' \in [Workers -> 1 .. MaxRecords],
         job' = IF stage = "receive" THEN [job EXCEPT ![w] = NoMessage] ELSE job,
         UNCHANGED <<queueVars, n>>
  PROVE  SaveInv'
<1> USE DEF SaveInv
<1>1. cur[w] \in Versions /\ EventOf(cur[w]) \in Events
  BY ContentTypes DEF HandInv, Saving
<1>2. WaitersFindNothing(w) \in [Workers -> Stages]
  BY DEF TypeOK, WaitersFindNothing, Stages
<1>3. TypeOK'
  <2>1. table' \in [Events -> Versions \cup {NoRow}]
    BY <1>1 DEF TypeOK, CommitRow
  <2>2. pc' \in [Workers -> Stages]
    BY <1>2 DEF Stages
  <2>3. job' \in [Workers -> Messages \cup {NoMessage}]
    BY DEF TypeOK
  <2>4. QueueTypeOK'
    BY DEF TypeOK, QueueTypeOK, queueVars
  <2> QED
    BY <2>1, <2>2, <2>3, <2>4 DEF TypeOK
<1>4. /\ pc'[w] = stage /\ cur'[w] = NoVersion /\ removed'[w] = FALSE
      /\ \A x \in Workers \ {w} :
           /\ cur'[x] = cur[x] /\ removed'[x] = removed[x] /\ job'[x] = job[x]
           /\ pc'[x] = IF pc[x] = "wait" /\ SameEvent(w, x) /\ removed[w]
                         THEN "insert" ELSE pc[x]
  BY <1>2 DEF TypeOK, WaitersFindNothing
<1>5. job'[w] = IF stage = "receive" THEN NoMessage ELSE job[w]
  BY DEF TypeOK
<1>6. HandInv'
  BY <1>4, <1>5, QuakeAssumption DEF HandInv, Saving
<1>7. \A x \in Workers \ {w} : SameEvent(w, x) => ~Holds(x)
  BY DEF OneWriterPerEvent, Holds
<1>8. ASSUME NEW x \in Workers \ {w}, pc'[x] = "wait" \/ Holds(x)'
      PROVE  ~SameEvent(w, x) /\ Row(x)' = Row(x) /\ cur[x] \in Versions
  <2>1. pc[x] = "wait" \/ Holds(x)
    BY <1>4, <1>8 DEF Holds
  <2>2. cur[x] \in Versions
    BY <2>1 DEF HandInv, Saving, Holds
  <2>3. ~SameEvent(w, x)
    <3>1. CASE Holds(x)
      BY <3>1, <1>7
    <3>2. CASE pc[x] = "wait" /\ ~Holds(x)
      <4>1. ~(SameEvent(w, x) /\ removed[w])
        BY <1>4, <1>8, <3>2 DEF Holds
      <4>2. SameEvent(w, x) => Row(x) = Row(w)
        BY DEF SameEvent, Row
      <4>3. Matches(x)
        BY <3>2 DEF RowInv
      <4> QED
        BY <4>1, <4>2, <4>3 DEF RowInv, Matches
    <3> QED
      BY <2>1, <3>1, <3>2
  <2>4. EventOf(cur[x]) # EventOf(cur[w])
    BY <1>1, <2>2, <2>3, QuakeAssumption DEF SameEvent
  <2> QED
    BY <1>4, <2>2, <2>3, <2>4, ContentTypes DEF TypeOK, CommitRow, Row
<1>9. RowInv'
  <2> SUFFICES ASSUME NEW x \in Workers
               PROVE  /\ (pc[x] = "wait" \/ removed[x] => Matches(x))'
                      /\ (pc[x] = "commit" /\ ~removed[x] => Row(x) = NoRow)'
    BY DEF RowInv
  <2>1. CASE x = w
    BY <2>1, <1>4
  <2>2. CASE x # w
    BY <2>2, <1>4, <1>8 DEF RowInv, Matches, Holds
  <2> QED
    BY <2>1, <2>2
<1>10. OneWriterPerEvent'
  BY <1>4 DEF OneWriterPerEvent, Holds, SameEvent
<1> QED
  BY <1>3, <1>6, <1>9, <1>10

(* The invariant is inductive.                                             *)
LEMMA SaveInvStep == SaveInv /\ [Next]_vars => SaveInv'
<1> SUFFICES ASSUME SaveInv, [Next]_vars
             PROVE  SaveInv'
  OBVIOUS
<1> USE DEF SaveInv
<1>1. ASSUME NEW m \in Messages, Sends(m) \/ Expires(m)
      PROVE  SaveInv'
  <2>1. QueueTypeOK'
    BY <1>1, QueueTypes DEF Sends, Expires, TypeOK
  <2>2. UNCHANGED <<table, workerVars>>
    BY <1>1 DEF Sends, Expires
  <2> QED
    BY <2>1, <2>2 DEF TypeOK, HandInv, RowInv, OneWriterPerEvent, Holds,
                      SameEvent, Matches, Row, workerVars
<1>2. ASSUME NEW w \in Workers, NEW m \in Messages, Receive(w, m)
      PROVE  SaveInv'
  <2>1. TypeOK'
    <3>1. QueueTypeOK'
      BY <1>2, QueueTypes DEF Receive, TypeOK
    <3>2. n' \in [Workers -> Notification]
      BY <1>2, DecodeType DEF Receive, TypeOK
    <3>3. pc' \in [Workers -> Stages] /\ job' \in [Workers -> Messages \cup {NoMessage}]
      BY <1>2 DEF Receive, TypeOK, Stages
    <3> QED
      BY <1>2, <3>1, <3>2, <3>3 DEF Receive, TypeOK
  <2>2. /\ pc[w] = "receive" /\ pc'[w] \in {"receive", "get"}
        /\ pc'[w] = "receive" => job'[w] = job[w]
        /\ pc'[w] = "get" => job'[w] = m
        /\ \A x \in Workers \ {w} : pc'[x] = pc[x] /\ job'[x] = job[x]
        /\ UNCHANGED <<table, cur, removed>>
    BY <1>2 DEF Receive, TypeOK
  <2>3. HandInv'
    BY <2>2 DEF HandInv, Saving
  <2>4. RowInv' /\ OneWriterPerEvent'
    BY <2>2 DEF RowInv, Row, Matches, OneWriterPerEvent, Holds, SameEvent
  <2> QED
    BY <2>1, <2>3, <2>4
<1>3. ASSUME NEW w \in Workers, Get(w)
      PROVE  SaveInv'
  <2>1. PICK v \in Versions : cur' = [cur EXCEPT ![w] = v]
    BY <1>3 DEF Get, Usable, Stored
  <2>2. TypeOK'
    BY <1>3, <2>1 DEF Get, TypeOK, QueueTypeOK, queueVars, Stages
  <2>3. HandInv'
    BY <1>3, <2>1 DEF Get, HandInv, Saving, TypeOK
  <2>4. RowInv' /\ OneWriterPerEvent'
    BY <1>3, <2>1 DEF Get, RowInv, Row, Matches, OneWriterPerEvent, Holds,
                      SameEvent, TypeOK, HandInv
  <2> QED
    BY <2>2, <2>3, <2>4
<1>4. ASSUME NEW w \in Workers, GetFails(w) \/ SaveFails(w) \/ DeleteFails(w)
      PROVE  SaveInv'
  <2>1. BackToReceive(w) /\ UNCHANGED <<queueVars, n, table>>
    BY <1>4 DEF GetFails, SaveFails, DeleteFails, Reject
  <2> QED
    BY <2>1, BackToReceiveKeeps DEF TypeOK, QueueTypeOK, queueVars
<1>5. ASSUME NEW w \in Workers, DeleteOld(w)
      PROVE  SaveInv'
  <2>1. TypeOK'
    BY <1>5 DEF DeleteOld, TypeOK, QueueTypeOK, queueVars, Stages
  <2>2. HandInv'
    BY <1>5 DEF DeleteOld, HandInv, Saving, TypeOK
  <2>3. Matches(w)
    BY <1>5 DEF DeleteOld, RowInv
  <2>4. RowInv'
    BY <1>5, <2>3 DEF DeleteOld, RowInv, Row, Matches, TypeOK
  <2>5. \A x \in Workers \ {w} : SameEvent(w, x) => ~Holds(x)
    <3> SUFFICES ASSUME NEW x \in Workers \ {w}, SameEvent(w, x), Holds(x)
                 PROVE  FALSE
      OBVIOUS
    <3>1. pc[x] = "commit" /\ ~removed[x]
      BY <1>5 DEF DeleteOld, RowLocked, Holds
    <3>2. Row(x) = Row(w)
      BY DEF SameEvent, Row
    <3> QED
      BY <2>3, <3>1, <3>2 DEF RowInv, Matches
  <2>6. OneWriterPerEvent'
    BY <1>5, <2>5 DEF DeleteOld, OneWriterPerEvent, Holds, SameEvent, TypeOK
  <2> QED
    BY <2>1, <2>2, <2>4, <2>6
<1>6. ASSUME NEW w \in Workers, DeleteNothing(w) \/ DeleteWaits(w)
      PROVE  SaveInv'
  <2>1. TypeOK'
    BY <1>6 DEF DeleteNothing, DeleteWaits, TypeOK, QueueTypeOK, queueVars, Stages
  <2>2. HandInv' /\ RowInv' /\ OneWriterPerEvent'
    BY <1>6 DEF DeleteNothing, DeleteWaits, HandInv, Saving, TypeOK, RowInv, Row,
                Matches, OneWriterPerEvent, Holds, SameEvent
  <2> QED
    BY <2>1, <2>2
<1>7. ASSUME NEW w \in Workers, Insert(w)
      PROVE  SaveInv'
  <2>1. TypeOK'
    BY <1>7 DEF Insert, TypeOK, QueueTypeOK, queueVars, Stages
  <2>2. HandInv' /\ RowInv'
    BY <1>7 DEF Insert, HandInv, Saving, TypeOK, RowInv, Row, Matches
  <2>3. \A x \in Workers \ {w} : SameEvent(w, x) => ~Holds(x)
    BY <1>7 DEF Insert, KeyLocked, Holds
  <2>4. OneWriterPerEvent'
    BY <1>7, <2>3 DEF Insert, OneWriterPerEvent, Holds, SameEvent, TypeOK
  <2> QED
    BY <2>1, <2>2, <2>4
<1>8. ASSUME NEW w \in Workers, DropAsOlder(w)
      PROVE  SaveInv'
  <2>1. TypeOK'
    BY <1>8, NextRecordTypes
       DEF DropAsOlder, TypeOK, QueueTypeOK, queueVars, Stages
  <2>2. /\ pc'[w] \in {"get", "ack"} /\ cur'[w] = NoVersion /\ removed'[w] = FALSE
        /\ \A x \in Workers \ {w} : /\ pc'[x] = pc[x] /\ cur'[x] = cur[x]
                                    /\ removed'[x] = removed[x]
        /\ UNCHANGED <<table, job>>
    BY <1>8, NextRecordTypes DEF DropAsOlder, NextRecord, TypeOK
  <2>3. HandInv'
    BY <1>8, <2>2, QuakeAssumption DEF DropAsOlder, HandInv, Saving
  <2>4. RowInv' /\ OneWriterPerEvent'
    BY <2>2 DEF RowInv, Row, Matches, OneWriterPerEvent, Holds, SameEvent
  <2> QED
    BY <2>1, <2>3, <2>4
<1>9. ASSUME NEW w \in Workers, Commit(w)
      PROVE  SaveInv'
  <2>1. AfterRecord(w) \in {"get", "ack"} /\ rec' \in [Workers -> 1 .. MaxRecords]
    BY <1>9, NextRecordTypes DEF Commit
  <2> QED
    BY <1>9, <2>1, CommitKeeps DEF Commit, NextRecord
<1>10. ASSUME NEW w \in Workers, CommitUnanswered(w)
       PROVE  SaveInv'
  <2>1. rec' \in [Workers -> 1 .. MaxRecords]
    <3>1. 1 \in 1 .. MaxRecords
      BY QuakeAssumption
    <3> QED
      BY <1>10, <3>1 DEF CommitUnanswered, TypeOK
  <2> QED
    BY <1>10, <2>1, CommitKeeps DEF CommitUnanswered
<1>11. ASSUME NEW w \in Workers, Delete(w)
       PROVE  SaveInv'
  <2>1. job[w] \in Messages
    BY <1>11 DEF Delete, HandInv
  <2>2. QueueTypeOK'
    BY <1>11, <2>1, QueueTypes DEF Delete, TypeOK
  <2> QED
    BY <1>11, <2>2, BackToReceiveKeeps DEF Delete, TypeOK
<1>12. ASSUME NEW w \in Workers, Restart(w)
       PROVE  SaveInv'
  <2>1. EmptyNotification \in Notification
    BY QuakeAssumption DEF EmptyNotification, Notification
  <2>2. QueueTypeOK' /\ n' \in [Workers -> Notification]
    BY <1>12, <2>1 DEF Restart, TypeOK, QueueTypeOK, queueVars
  <2> QED
    BY <1>12, <2>2, BackToReceiveKeeps DEF Restart
<1>13. CASE UNCHANGED vars
  BY <1>13 DEF vars, queueVars, workerVars, TypeOK, QueueTypeOK, HandInv, RowInv,
               OneWriterPerEvent, Holds, SameEvent, Matches, Row
<1> QED
  BY <1>1, <1>2, <1>3, <1>4, <1>5, <1>6, <1>7, <1>8, <1>9, <1>10, <1>11, <1>12,
     <1>13 DEF Next, Step

(* The invariant holds in every reachable state.                           *)
THEOREM SaveInvariant == Spec => []SaveInv
<1> QED
  BY InitSaveInv, SaveInvStep, PTL DEF Spec

(* Every variable keeps its type: the loop, the struct it reuses and the   *)
(* table, for every mix of messages and any number of workers.             *)
THEOREM TypeCorrect == Spec => []TypeOK
<1>1. SaveInv => TypeOK
  BY DEF SaveInv
<1> QED
  BY <1>1, SaveInvariant, PTL

(* No two open transactions hold writes on one event, for any number of    *)
(* workers: PostgreSQL's row and key locks, and save's order of DELETE and *)
(* INSERT, exclude it.                                                     *)
THEOREM OneWriter == Spec => []OneWriterPerEvent
<1>1. SaveInv => OneWriterPerEvent
  BY DEF SaveInv
<1> QED
  BY <1>1, SaveInvariant, PTL

-----------------------------------------------------------------------------
(* The table never goes back                                               *)

(* Whatever a DELETE or an INSERT waits for is a transaction that holds    *)
(* its event's key, and the only one, so that nothing blocks it in turn.   *)
THEOREM NoWaitCycle == Spec => []BlockersGoOn
<1>1. SaveInv => BlockersGoOn
  <2> SUFFICES ASSUME SaveInv, NEW w \in Workers, Blocked(w)
               PROVE  \E x \in Workers : /\ SameEvent(w, x) /\ Holds(x)
                                         /\ pc[x] \in {"insert", "commit"} /\ ~Blocked(x)
    BY DEF BlockersGoOn
  <2>1. PICK x \in Workers : x # w /\ SameEvent(w, x) /\ Holds(x)
    BY DEF Blocked, RowLocked, KeyLocked, Holds
  <2>2. pc[x] \in {"insert", "commit"}
    BY <2>1 DEF Holds, SaveInv, HandInv
  <2>3. \A y \in Workers \ {x} : ~(SameEvent(x, y) /\ Holds(y))
    BY <2>1 DEF SaveInv, OneWriterPerEvent
  <2>4. ~Blocked(x)
    BY <2>2, <2>3 DEF Blocked, KeyLocked, Holds
  <2> QED
    BY <2>1, <2>2, <2>4
<1> QED
  BY <1>1, SaveInvariant, PTL

(* Only a commit changes the table, from a row that is not newer or none.  *)
LEMMA TableStep ==
  ASSUME SaveInv, [Next]_vars
  PROVE  \/ UNCHANGED table
         \/ \E w \in Workers :
              /\ pc[w] = "commit" /\ cur[w] \in Versions
              /\ Row(w) = NoRow \/ Matches(w)
              /\ CommitRow(w)
              /\ UNCHANGED queueVars
<1>1. ASSUME NEW w \in Workers, Commit(w) \/ CommitUnanswered(w)
      PROVE  /\ pc[w] = "commit" /\ cur[w] \in Versions
             /\ Row(w) = NoRow \/ Matches(w)
             /\ CommitRow(w)
             /\ UNCHANGED queueVars
  BY <1>1 DEF Commit, CommitUnanswered, SaveInv, HandInv, RowInv, Saving
<1>2. ASSUME NEW w \in Workers, Step(w) \/ Restart(w),
             ~(Commit(w) \/ CommitUnanswered(w))
      PROVE  UNCHANGED table
  BY <1>2 DEF Step, Restart, Receive, Get, GetFails, SaveFails, DeleteFails,
              DeleteOld, DeleteNothing, DeleteWaits, Insert, DropAsOlder, Delete
<1>3. ASSUME NEW m \in Messages, Sends(m) \/ Expires(m)
      PROVE  UNCHANGED table
  BY <1>3 DEF Sends, Expires
<1> QED
  BY <1>1, <1>2, <1>3 DEF Next, vars

LEMMA RowStep ==
  ASSUME SaveInv, [Next]_vars, NEW e \in Events, table[e] # NoRow
  PROVE  table'[e] # NoRow /\ ModOf(table'[e]) >= ModOf(table[e])
<1>1. table \in [Events -> Versions \cup {NoRow}] /\ table[e] \in Versions
  BY DEF SaveInv, TypeOK
<1>2. ModOf(table[e]) \in Nat
  BY <1>1, ContentTypes
<1>3. CASE UNCHANGED table
  BY <1>2, <1>3
<1>4. ASSUME NEW w \in Workers, cur[w] \in Versions, CommitRow(w),
             Row(w) = NoRow \/ Matches(w)
      PROVE  table'[e] # NoRow /\ ModOf(table'[e]) >= ModOf(table[e])
  <2>1. CASE EventOf(cur[w]) = e
    BY <1>1, <1>4, <2>1, QuakeAssumption DEF CommitRow, Row, Matches
  <2>2. CASE EventOf(cur[w]) # e
    BY <1>1, <1>2, <1>4, <2>2 DEF CommitRow
  <2> QED
    BY <2>1, <2>2
<1> QED
  BY <1>3, <1>4, TableStep

(* fdsn.event never returns to older information about an event and never  *)
(* loses an event, for any number of workers and any interleaving.         *)
THEOREM NeverGoesBack == Spec => RowNeverGoesBack
<1>1. SaveInv /\ [Next]_vars =>
        [\A e \in Events : table[e] # NoRow =>
           table'[e] # NoRow /\ ModOf(table'[e]) >= ModOf(table[e])]_vars
  BY RowStep
<1> QED
  BY <1>1, SaveInvariant, PTL DEF Spec, RowNeverGoesBack

(* Any number of workers change the table as LatestEvent allows: a commit  *)
(* records the version in hand, no other step touches the table.           *)
THEOREM TableImplementation == Spec => ImplementsEventTable
<1>1. Init => EventTable!Init
  BY DEF Init, EventTable!Init
<1>2. SaveInv /\ [Next]_vars => [EventTable!Next]_(EventTable!vars)
  <2> SUFFICES ASSUME SaveInv, [Next]_vars
               PROVE  [EventTable!Next]_(EventTable!vars)
    OBVIOUS
  <2>1. CASE UNCHANGED table
    BY <2>1 DEF EventTable!vars
  <2>2. ASSUME NEW w \in Workers, cur[w] \in Versions, CommitRow(w),
               Row(w) = NoRow \/ Matches(w)
        PROVE  EventTable!Next
    <3>1. EventTable!Record(cur[w])
      BY <2>2 DEF EventTable!Record, CommitRow, Row, Matches
    <3> QED
      BY <2>2, <3>1 DEF EventTable!Next
  <2> QED
    BY <2>1, <2>2, TableStep
<1> QED
  BY <1>1, <1>2, SaveInvariant, PTL
     DEF Spec, EventTable!Spec, ImplementsEventTable

-----------------------------------------------------------------------------
(* The loop over the records of a message                                  *)

(* While a message is processed the struct has its records, each with the  *)
(* message's key, and its version if it gives one.                         *)
Decoded(w) ==
  LET rs == Body[job[w]].records IN
  /\ rec[w] <= n[w].len
  /\ rs # <<>> => n[w].len = Len(rs)
  /\ \A i \in 1 .. Len(rs) :
       /\ n[w].buf[i].key = rs[i].key
       /\ rs[i].version \in {NoVersion, n[w].buf[i].version}

(* A worker in its loop is at a record of what it has decoded, and saves   *)
(* only what is stored under that record.                                  *)
WorkerInv(w) ==
  /\ pc[w] = "receive" => rec[w] = 1
  /\ pc[w] # "receive" => Decoded(w)
  /\ pc[w] \in Saving => cur[w] \in Usable(w)
LoopInv == \A w \in Workers : WorkerInv(w)

(* The records of its message that a worker has got past, by a commit or   *)
(* by a unique_violation.                                                  *)
DoneRecords(w) ==
  {i \in 1 .. Len(Body[job[w]].records) : i < rec[w] \/ pc[w] = "ack"}
Ends(w) == DropAsOlder(w) \/ Commit(w)

(* What is fetched for a decoded record is stored under that record.       *)
LEMMA StoredOfDecoded ==
  ASSUME NEW ref, NEW old, old.key = ref.key,
         ref.version \in {NoVersion, old.version}
  PROVE  Stored(old) \subseteq Stored(ref)
BY QuakeAssumption DEF Stored

LEMMA BodyTypes ==
  ASSUME NEW m \in Messages
  PROVE  /\ Body[m].records \in Seq(Ref)
         /\ Len(Body[m].records) \in 0 .. MaxRecords
         /\ \A i \in 1 .. Len(Body[m].records) : Body[m].records[i] \in Ref
         /\ Body[m].kind # "records" => Body[m].records = <<>>
<1>1. Body[m].records \in Seq(Ref)
  BY QuakeAssumption DEF Text
<1> QED
  BY <1>1, QuakeAssumption

(* A message that passes Process's tests is decoded as Decoded says.       *)
LEMMA ReceiveDecodes ==
  ASSUME SaveInv, NEW w \in Workers, rec[w] = 1,
         NEW m \in Messages, Receive(w, m), pc'[w] # "receive"
  PROVE  Decoded(w)' /\ rec'[w] = 1 /\ pc'[w] = "get" /\ job'[w] = m
<1> DEFINE rs == Body[m].records
<1>1. /\ n'[w] = Decode(Body[m], n[w])
      /\ n'[w].len > 0
      /\ pc'[w] = "get" /\ job'[w] = m /\ rec'[w] = 1
  BY DEF Receive, Accepts, SaveInv, TypeOK
<1>2. n'[w].len \in 0 .. MaxRecords
  BY <1>1, DecodeType DEF SaveInv, TypeOK, Notification
<1>3. CASE rs = <<>>
  <2>1. \A i \in 1 .. Len(rs) : FALSE
    BY <1>3
  <2> QED
    BY <1>1, <1>2, <1>3, <2>1 DEF Decoded
<1>4. CASE rs # <<>>
  <2>1. Body[m].kind = "records"
    BY <1>4, BodyTypes
  <2>2. n'[w] = [len |-> Len(rs),
                 buf |-> [i \in 1 .. MaxRecords |->
                            IF i <= Len(rs) THEN MergeRef(rs[i], n[w].buf[i])
                                            ELSE n[w].buf[i]]]
    BY <1>1, <1>4, <2>1 DEF Decode
  <2>3. ASSUME NEW i \in 1 .. Len(rs)
        PROVE  /\ n'[w].buf[i].key = rs[i].key
               /\ rs[i].version \in {NoVersion, n'[w].buf[i].version}
    <3>1. i \in 1 .. MaxRecords /\ i <= Len(rs)
      BY BodyTypes, QuakeAssumption
    <3>2. n'[w].buf[i] = MergeRef(rs[i], n[w].buf[i])
      BY <2>2, <3>1
    <3> QED
      BY <3>2 DEF MergeRef
  <2>4. n'[w].len = Len(rs)
    BY <2>2
  <2> QED
    BY <1>1, <1>2, <2>3, <2>4 DEF Decoded
<1> QED
  BY <1>3, <1>4

(* The record that the worker is at.                                       *)
AtRecord(w, ref) ==
  /\ rec[w] <= Len(Body[job[w]].records)
  /\ ref = Body[job[w]].records[rec[w]]

(* What a worker saves is stored under its current record.                 *)
LEMMA HandStored ==
  ASSUME SaveInv, LoopInv, NEW w \in Workers, pc[w] \in Saving,
         NEW ref, AtRecord(w, ref)
  PROVE  cur[w] \in Stored(ref) /\ Upload[cur[w]].valid
<1>1. job[w] \in Messages /\ Decoded(w) /\ cur[w] \in Usable(w)
  BY DEF SaveInv, HandInv, LoopInv, WorkerInv, Saving
<1>2. rec[w] \in 1 .. Len(Body[job[w]].records)
  BY <1>1, BodyTypes, QuakeAssumption DEF SaveInv, TypeOK, AtRecord
<1>3. /\ n[w].buf[rec[w]].key = ref.key
      /\ ref.version \in {NoVersion, n[w].buf[rec[w]].version}
  BY <1>1, <1>2 DEF Decoded, AtRecord
<1> QED
  BY <1>1, <1>3, StoredOfDecoded DEF Usable

(* A step of one worker leaves the others where they are, but that a       *)
(* DELETE which waited for its transaction goes on.                        *)
LEMMA OtherWorkers ==
  ASSUME SaveInv, NEW w \in Workers, Step(w) \/ Restart(w), NEW x \in Workers \ {w}
  PROVE  /\ job'[x] = job[x] /\ n'[x] = n[x] /\ rec'[x] = rec[x] /\ cur'[x] = cur[x]
         /\ pc'[x] = pc[x] \/ (pc[x] = "wait" /\ pc'[x] = "insert")
<1>1. CASE Commit(w) \/ CommitUnanswered(w)
  BY <1>1 DEF Commit, CommitUnanswered, NextRecord, WaitersFindNothing, SaveInv, TypeOK
<1>2. CASE ~(Commit(w) \/ CommitUnanswered(w))
  BY <1>2 DEF Step, Restart, Receive, Get, GetFails, SaveFails, DeleteFails, DeleteOld,
              DeleteNothing, DeleteWaits, Insert, DropAsOlder, Delete, Reject,
              BackToReceive, NextRecord, SaveInv, TypeOK
<1> QED
  BY <1>1, <1>2

(* What a step means for the records that worker x has got past: they are  *)
(* forgotten, or as before, or the current one is added.                   *)
Passed(x) ==
  \/ pc'[x] = "receive"
  \/ DoneRecords(x)' = {}
  \/ /\ pc[x] # "receive" /\ job'[x] = job[x]
     /\ DoneRecords(x)' \subseteq DoneRecords(x)
  \/ /\ Ends(x) /\ job'[x] = job[x]
     /\ DoneRecords(x)' \subseteq DoneRecords(x) \cup {rec[x]}

(* As long as a worker stays at its record, so does what it can get.       *)
LEMMA SameRecord ==
  ASSUME NEW x \in Workers, job'[x] = job[x], n'[x] = n[x], rec'[x] = rec[x]
  PROVE  Usable(x)' = Usable(x) /\ (Decoded(x) => Decoded(x)')
<1>1. Usable(x)' = Usable(x)
  BY DEF Usable, Stored
<1>2. Decoded(x) => Decoded(x)'
  BY DEF Decoded
<1> QED
  BY <1>1, <1>2

LEMMA WorkerStep ==
  ASSUME SaveInv, LoopInv, [Next]_vars, NEW x \in Workers
  PROVE  WorkerInv(x)' /\ Passed(x)
<1> USE DEF LoopInv
<1>1. ASSUME job'[x] = job[x], n'[x] = n[x], rec'[x] = rec[x], cur'[x] = cur[x],
             pc'[x] = pc[x] \/ (pc[x] \in Saving /\ pc'[x] \in Saving)
      PROVE  WorkerInv(x)' /\ Passed(x)
  <2>1. WorkerInv(x)'
    BY <1>1, SameRecord DEF WorkerInv, Saving
  <2>2. Passed(x)
    BY <1>1 DEF Passed, DoneRecords, Saving
  <2> QED
    BY <2>1, <2>2
<1>2. ASSUME pc'[x] = "receive", rec'[x] = 1
      PROVE  WorkerInv(x)' /\ Passed(x)
  BY <1>2 DEF WorkerInv, Passed, Saving
<1>3. ASSUME NEW m \in Messages, Receive(x, m)
      PROVE  WorkerInv(x)' /\ Passed(x)
  <2>1. /\ pc[x] = "receive" /\ rec[x] = 1 /\ rec'[x] = 1
        /\ pc'[x] \in {"receive", "get"}
    BY <1>3 DEF Receive, WorkerInv, SaveInv, TypeOK
  <2>2. CASE pc'[x] = "receive"
    BY <1>2, <2>1, <2>2
  <2>3. CASE pc'[x] # "receive"
    <3>1. Decoded(x)' /\ pc'[x] = "get"
      BY <1>3, <2>1, <2>3, ReceiveDecodes
    <3>2. DoneRecords(x)' = {}
      BY <2>1, <3>1 DEF DoneRecords
    <3> QED
      BY <2>1, <3>1, <3>2 DEF WorkerInv, Passed, Saving
  <2> QED
    BY <2>2, <2>3
<1>4. ASSUME Get(x)
      PROVE  WorkerInv(x)' /\ Passed(x)
  <2>1. /\ job'[x] = job[x] /\ n'[x] = n[x] /\ rec'[x] = rec[x]
        /\ pc[x] = "get" /\ pc'[x] = "delete" /\ cur'[x] \in Usable(x)
    BY <1>4 DEF Get, SaveInv, TypeOK
  <2>2. WorkerInv(x)'
    BY <2>1, SameRecord DEF WorkerInv, Saving
  <2>3. Passed(x)
    BY <2>1 DEF Passed, DoneRecords
  <2> QED
    BY <2>2, <2>3
<1>5. ASSUME DeleteOld(x) \/ DeleteNothing(x) \/ DeleteWaits(x) \/ Insert(x)
      PROVE  WorkerInv(x)' /\ Passed(x)
  BY <1>1, <1>5 DEF DeleteOld, DeleteNothing, DeleteWaits, Insert, Saving, SaveInv, TypeOK
<1>6. ASSUME Ends(x)
      PROVE  WorkerInv(x)' /\ Passed(x)
  <2> DEFINE rs == Body[job[x]].records
  <2>1. /\ job'[x] = job[x] /\ n'[x] = n[x] /\ pc[x] \in Saving
        /\ n[x].len \in 0 .. MaxRecords /\ rec[x] \in 1 .. MaxRecords
        /\ rec'[x] = IF rec[x] < n[x].len THEN rec[x] + 1 ELSE rec[x]
        /\ pc'[x] = IF rec[x] < n[x].len THEN "get" ELSE "ack"
    BY <1>6 DEF Ends, DropAsOlder, Commit, NextRecord, AfterRecord, WaitersFindNothing,
                Saving, SaveInv, TypeOK, Notification
  <2>2. job[x] \in Messages /\ Decoded(x)
    BY <2>1 DEF WorkerInv, Saving, SaveInv, HandInv
  <2>3. Len(rs) \in Nat /\ (rs = <<>> => Len(rs) = 0)
    BY <2>2, BodyTypes
  <2>4. rs # <<>> => n[x].len = Len(rs)
    BY <2>2 DEF Decoded
  <2>5. WorkerInv(x)'
    <3>1. rec'[x] <= n'[x].len
      BY <2>1, <2>2, QuakeAssumption DEF Decoded
    <3>2. Decoded(x)'
      BY <2>1, <2>2, <3>1 DEF Decoded
    <3> QED
      BY <2>1, <3>2 DEF WorkerInv, Saving
  <2>6. ASSUME NEW i \in 1 .. Len(rs), i < rec'[x] \/ pc'[x] = "ack"
        PROVE  i < rec[x] \/ i = rec[x]
    BY <2>1, <2>3, <2>4, <2>6, QuakeAssumption
  <2>7. DoneRecords(x)' \subseteq DoneRecords(x) \cup {rec[x]}
    BY <2>1, <2>6 DEF DoneRecords
  <2> QED
    BY <1>6, <2>1, <2>5, <2>7 DEF Passed
<1>7. ASSUME \/ GetFails(x) \/ SaveFails(x) \/ DeleteFails(x) \/ Delete(x)
             \/ CommitUnanswered(x) \/ Restart(x)
      PROVE  WorkerInv(x)' /\ Passed(x)
  <2>1. pc'[x] = "receive" /\ rec'[x] = 1
    BY <1>7 DEF GetFails, SaveFails, DeleteFails, Delete, CommitUnanswered, Restart,
                Reject, BackToReceive, WaitersFindNothing, SaveInv, TypeOK
  <2> QED
    BY <1>2, <2>1
<1>8. ASSUME NEW w \in Workers \ {x}, Step(w) \/ Restart(w)
      PROVE  WorkerInv(x)' /\ Passed(x)
  BY <1>1, <1>8, OtherWorkers DEF Saving
<1>9. CASE UNCHANGED workerVars
  BY <1>1, <1>9 DEF workerVars
<1>10. ASSUME NEW m \in Messages, Sends(m) \/ Expires(m)
       PROVE  UNCHANGED workerVars
  BY <1>10 DEF Sends, Expires
<1>11. ASSUME Step(x) \/ Restart(x)
       PROVE  WorkerInv(x)' /\ Passed(x)
  BY <1>3, <1>4, <1>5, <1>6, <1>7, <1>11 DEF Step, Ends
<1>12. CASE UNCHANGED vars
  BY <1>9, <1>12 DEF vars
<1> QED
  BY <1>8, <1>9, <1>10, <1>11, <1>12 DEF Next

LEMMA LoopStep == SaveInv /\ LoopInv /\ [Next]_vars => LoopInv'
BY WorkerStep DEF LoopInv

(* A message is deleted by a worker that has got past all its records.     *)
LEMMA DeletedStep ==
  ASSUME SaveInv, [Next]_vars, NEW m \in Messages, queue'[m] = "deleted"
  PROVE  \/ queue[m] = "deleted"
         \/ \E w \in Workers :
              job[w] = m /\ DoneRecords(w) = 1 .. Len(Body[m].records)
              /\ pc[w] # "receive" /\ UNCHANGED table
<1>1. ASSUME NEW w \in Workers, Delete(w)
      PROVE  queue[m] = "deleted" \/ (job[w] = m /\ pc[w] = "ack" /\ UNCHANGED table)
  <2>1. job[w] \in Messages
    BY <1>1 DEF Delete, SaveInv, HandInv
  <2> QED
    BY <1>1, <2>1 DEF Delete, Remove, SaveInv, TypeOK, QueueTypeOK
<1>2. ASSUME NEW x \in Messages, Deliver(x) \/ Send(x) \/ Expire(x)
      PROVE  queue[m] = "deleted"
  BY <1>2 DEF Deliver, Send, Expire, SaveInv, TypeOK, QueueTypeOK
<1>3. ASSUME NEW w \in Workers, Step(w) \/ Restart(w), ~Delete(w)
      PROVE  UNCHANGED queue \/ \E x \in Messages : Deliver(x)
  BY <1>3 DEF Step, Restart, Receive, Get, GetFails, SaveFails, Reject, DeleteFails,
              DeleteOld, DeleteNothing, DeleteWaits, Insert, DropAsOlder, Commit,
              CommitUnanswered, queueVars
<1>4. ASSUME NEW x \in Messages, Sends(x) \/ Expires(x)
      PROVE  Send(x) \/ Expire(x)
  BY <1>4 DEF Sends, Expires
<1>5. CASE UNCHANGED queue
  BY <1>5
<1>6. CASE UNCHANGED vars
  BY <1>5, <1>6 DEF vars, queueVars
<1>7. ASSUME NEW w \in Workers, job[w] = m, pc[w] = "ack"
      PROVE  DoneRecords(w) = 1 .. Len(Body[m].records)
  BY <1>7 DEF DoneRecords
<1> QED
  BY <1>1, <1>2, <1>3, <1>4, <1>5, <1>6, <1>7 DEF Next

-----------------------------------------------------------------------------
(* Acknowledged events are known                                           *)

KnownInv ==
  /\ \A w \in Workers : pc[w] # "receive" =>
       \A i \in DoneRecords(w) : Known(Body[job[w]].records[i])
  /\ AckedEventsAreKnown

LEMMA KnownStays ==
  ASSUME SaveInv, [Next]_vars, NEW ref, Known(ref)
  PROVE  Known(ref)'
BY RowStep, ContentTypes DEF Known, Stored

(* A worker ends a record when its event has a row, its own or another's.  *)
LEMMA EndsKnown ==
  ASSUME SaveInv, LoopInv, NEW w \in Workers, Ends(w), NEW ref, AtRecord(w, ref)
  PROVE  Known(ref)'
<1>1. pc[w] \in Saving /\ cur[w] \in Versions
  BY DEF Ends, DropAsOlder, Commit, SaveInv, HandInv, Saving
<1>2. PICK v \in Stored(ref) : v = cur[w] /\ Upload[v].valid
  BY <1>1, HandStored
<1>3. EventOf(v) \in Events
  BY <1>1, <1>2, ContentTypes
<1>4. table'[EventOf(v)] # NoRow
  <2>1. CASE DropAsOlder(w)
    BY <1>2, <2>1 DEF DropAsOlder, Row
  <2>2. CASE Commit(w)
    BY <1>1, <1>2, <1>3, <2>2, QuakeAssumption DEF Commit, CommitRow, SaveInv, TypeOK
  <2> QED
    BY <2>1, <2>2 DEF Ends
<1> QED
  BY <1>2, <1>4 DEF Known

LEMMA KnownStep ==
  ASSUME SaveInv, LoopInv, KnownInv, [Next]_vars
  PROVE  KnownInv'
<1>1. ASSUME NEW w \in Workers, pc'[w] # "receive", NEW i \in DoneRecords(w)',
             NEW ref, ref = Body[job'[w]].records[i]
      PROVE  Known(ref)'
  <2>1. Passed(w)
    BY WorkerStep
  <2>2. CASE i \in DoneRecords(w) /\ pc[w] # "receive" /\ job'[w] = job[w]
    BY <1>1, <2>2, KnownStays DEF KnownInv
  <2>3. CASE i = rec[w] /\ Ends(w) /\ job'[w] = job[w]
    <3>1. AtRecord(w, ref)
      BY <1>1, <2>3 DEF AtRecord, DoneRecords
    <3> QED
      BY <2>3, <3>1, EndsKnown
  <2>4. Ends(w) => pc[w] # "receive"
    BY DEF Ends, DropAsOlder, Commit
  <2> QED
    BY <1>1, <2>1, <2>2, <2>3, <2>4 DEF Passed
<1>2. ASSUME NEW m \in Messages, queue'[m] = "deleted",
             NEW i \in 1 .. Len(Body[m].records), NEW ref, ref = Body[m].records[i]
      PROVE  Known(ref)'
  <2>1. Known(ref)
    BY <1>2, DeletedStep DEF KnownInv, AckedEventsAreKnown
  <2> QED
    BY <2>1, KnownStays
<1> QED
  BY <1>1, <1>2 DEF KnownInv, AckedEventsAreKnown, Known, Stored

LEMMA LoopInvariant == Spec => []LoopInv
<1>1. Init => LoopInv
  BY DEF Init, LoopInv, WorkerInv, Saving
<1> QED
  BY <1>1, LoopStep, SaveInvariant, PTL DEF Spec

(* However many workers interleave, and whatever fails, no event of a      *)
(* message that was acknowledged is missing from fdsn.event: a dropped     *)
(* update leaves an older row, never none.                                 *)
THEOREM AckedIsKnown == Spec => []AckedEventsAreKnown
<1>1. Init => KnownInv
  BY DEF Init, QueueInit, KnownInv, AckedEventsAreKnown
<1>2. KnownInv => AckedEventsAreKnown
  BY DEF KnownInv
<1>3. SaveInv /\ LoopInv /\ KnownInv /\ [Next]_vars => KnownInv'
  BY KnownStep
<1> QED
  BY <1>1, <1>2, <1>3, SaveInvariant, LoopInvariant, PTL DEF Spec

-----------------------------------------------------------------------------
(* A single worker                                                         *)

SingleWorker == \A w, x \in Workers : w = x

(* The records that the worker has got past are reflected.  Nothing makes  *)
(* its DELETE wait, and an INSERT that follows a DELETE of nothing still   *)
(* faces the row that the DELETE did not match.                            *)
HeadInv ==
  \A w \in Workers :
    /\ pc[w] # "receive" =>
         \A i \in DoneRecords(w) : Reflected(Body[job[w]].records[i])
    /\ pc[w] = "insert" /\ ~removed[w] => ~Matches(w)
    /\ pc[w] # "wait"

AckInv == HeadInv /\ AckedMeansSaved

(* What the table reflects it goes on reflecting.                          *)
LEMMA ReflectedStays ==
  ASSUME SaveInv, [Next]_vars, NEW ref, Reflected(ref)
  PROVE  Reflected(ref)'
<1>1. PICK v \in Stored(ref) :
        /\ Upload[v].valid
        /\ table[EventOf(v)] # NoRow
        /\ ModOf(table[EventOf(v)]) >= ModOf(v)
  BY DEF Reflected
<1>2. v \in Versions /\ EventOf(v) \in Events /\ ModOf(v) \in Nat
  BY ContentTypes DEF Stored
<1>3. /\ table'[EventOf(v)] # NoRow
      /\ ModOf(table'[EventOf(v)]) >= ModOf(table[EventOf(v)])
  BY <1>1, <1>2, RowStep
<1>4. table \in [Events -> Versions \cup {NoRow}]
      /\ table' \in [Events -> Versions \cup {NoRow}]
  BY SaveInvStep DEF SaveInv, TypeOK
<1>5. ModOf(table[EventOf(v)]) \in Nat /\ ModOf(table'[EventOf(v)]) \in Nat
  BY <1>1, <1>2, <1>3, <1>4, ContentTypes
<1>6. ModOf(table'[EventOf(v)]) >= ModOf(v)
  BY <1>1, <1>2, <1>3, <1>5
<1> QED
  BY <1>1, <1>3, <1>6 DEF Reflected, Stored

(* With one worker the INSERT that is dropped is older than the row.       *)
LEMMA DropStep ==
  ASSUME SaveInv, AckInv, NEW w \in Workers, DropAsOlder(w)
  PROVE  ModOf(cur[w]) < ModOf(Row(w))
<1>1. Row(w) # NoRow /\ ~Matches(w)
  BY DEF DropAsOlder, AckInv, HeadInv
<1>2. cur[w] \in Versions /\ Row(w) \in Versions
  BY <1>1, ContentTypes DEF DropAsOlder, SaveInv, HandInv, Saving, TypeOK, Row
<1>3. ModOf(cur[w]) \in Nat /\ ModOf(Row(w)) \in Nat
  BY <1>2, ContentTypes
<1> QED
  BY <1>1, <1>3 DEF Matches

(* It ends a record when the table has its version or a newer one.         *)
LEMMA EndsReflected ==
  ASSUME SaveInv, LoopInv, AckInv, NEW w \in Workers, Ends(w),
         NEW ref, AtRecord(w, ref)
  PROVE  Reflected(ref)'
<1>1. pc[w] \in Saving /\ cur[w] \in Versions
  BY DEF Ends, DropAsOlder, Commit, SaveInv, HandInv, Saving
<1>2. PICK v \in Stored(ref) : v = cur[w] /\ Upload[v].valid
  BY <1>1, HandStored
<1>3. v \in Versions /\ EventOf(v) \in Events /\ ModOf(v) \in Nat
  BY <1>1, <1>2, ContentTypes
<1>4. table'[EventOf(v)] # NoRow /\ ModOf(table'[EventOf(v)]) >= ModOf(v)
  <2>1. CASE DropAsOlder(w)
    <3>1. ModOf(v) < ModOf(table[EventOf(v)]) /\ table[EventOf(v)] # NoRow
      BY <1>2, <2>1, DropStep DEF DropAsOlder, Row
    <3>2. table[EventOf(v)] \in Versions
      BY <1>3, <3>1 DEF SaveInv, TypeOK
    <3> QED
      BY <1>3, <2>1, <3>1, <3>2, ContentTypes DEF DropAsOlder
  <2>2. CASE Commit(w)
    <3>1. table'[EventOf(v)] = v
      BY <1>2, <1>3, <2>2 DEF Commit, CommitRow, SaveInv, TypeOK
    <3> QED
      BY <1>3, <3>1, QuakeAssumption
  <2> QED
    BY <2>1, <2>2 DEF Ends
<1> QED
  BY <1>2, <1>4 DEF Reflected, Stored

(* Between its DELETE and its INSERT nobody else writes.                   *)
LEMMA AloneStep ==
  ASSUME SingleWorker, SaveInv, HeadInv, [Next]_vars, NEW w \in Workers
  PROVE  /\ (pc[w] = "insert" /\ ~removed[w] => ~Matches(w))'
         /\ pc'[w] # "wait"
<1>1. CASE UNCHANGED <<table, workerVars>>
  BY <1>1 DEF workerVars, HeadInv, Matches, Row
<1>2. CASE Step(w) \/ Restart(w)
  <2>1. ~DeleteWaits(w)
    BY DEF DeleteWaits, RowLocked, SingleWorker
  <2>2. CASE DeleteNothing(w)
    BY <2>2 DEF DeleteNothing, Matches, Row, SaveInv, TypeOK
  <2>3. CASE DeleteOld(w)
    BY <2>3 DEF DeleteOld, SaveInv, TypeOK
  <2>4. CASE Commit(w) \/ DropAsOlder(w)
    <3>1. pc'[w] \in {"get", "ack"}
      BY <2>4, NextRecordTypes
         DEF Commit, DropAsOlder, WaitersFindNothing, SaveInv, TypeOK
    <3> QED
      BY <3>1
  <2>5. CASE ~(DeleteNothing(w) \/ DeleteOld(w) \/ Commit(w) \/ DropAsOlder(w))
    <3>1. pc'[w] \in {"receive", "get", "delete", "commit"}
      BY <1>2, <2>1, <2>5
         DEF Step, Restart, Receive, Get, GetFails, Insert, CommitUnanswered, SaveFails,
             Delete, DeleteFails, Reject, BackToReceive, WaitersFindNothing, SaveInv, TypeOK
    <3> QED
      BY <3>1
  <2> QED
    BY <2>2, <2>3, <2>4, <2>5
<1> QED
  BY <1>1, <1>2 DEF Next, Sends, Expires, vars, SingleWorker

LEMMA AckInvStep ==
  ASSUME SingleWorker, SaveInv, LoopInv, AckInv, [Next]_vars
  PROVE  AckInv'
<1>1. ASSUME NEW w \in Workers, pc'[w] # "receive", NEW i \in DoneRecords(w)',
             NEW ref, ref = Body[job'[w]].records[i]
      PROVE  Reflected(ref)'
  <2>1. Passed(w)
    BY WorkerStep
  <2>2. CASE i \in DoneRecords(w) /\ pc[w] # "receive" /\ job'[w] = job[w]
    BY <1>1, <2>2, ReflectedStays DEF AckInv, HeadInv
  <2>3. CASE i = rec[w] /\ Ends(w) /\ job'[w] = job[w]
    <3>1. AtRecord(w, ref)
      BY <1>1, <2>3 DEF AtRecord, DoneRecords
    <3> QED
      BY <2>3, <3>1, EndsReflected
  <2>4. Ends(w) => pc[w] # "receive"
    BY DEF Ends, DropAsOlder, Commit
  <2> QED
    BY <1>1, <2>1, <2>2, <2>3, <2>4 DEF Passed
<1>2. ASSUME NEW m \in Messages, queue'[m] = "deleted",
             NEW i \in 1 .. Len(Body[m].records), NEW ref, ref = Body[m].records[i]
      PROVE  Reflected(ref)'
  <2>1. Reflected(ref)
    BY <1>2, DeletedStep DEF AckInv, HeadInv, AckedMeansSaved
  <2> QED
    BY <2>1, ReflectedStays
<1>3. HeadInv'
  BY <1>1, AloneStep DEF AckInv, HeadInv, Reflected, Stored
<1>4. AckedMeansSaved'
  BY <1>2 DEF AckedMeansSaved, Reflected, Stored
<1> QED
  BY <1>3, <1>4 DEF AckInv

LEMMA AckInvariant ==
  ASSUME SingleWorker
  PROVE  Spec => []AckInv
<1>1. Init => AckInv
  BY DEF Init, QueueInit, AckInv, HeadInv, AckedMeansSaved
<1>2. SaveInv /\ LoopInv /\ AckInv /\ [Next]_vars => AckInv'
  BY AckInvStep
<1> QED
  BY <1>1, <1>2, SaveInvariant, LoopInvariant, PTL DEF Spec

(* A single worker deletes a message from the queue only when the table    *)
(* reflects all its records, whatever fails and in whatever order and      *)
(* however often the messages are delivered.                               *)
THEOREM NothingAckedIsLost ==
  ASSUME SingleWorker
  PROVE  Spec => []AckedMeansSaved
<1>1. AckInv => AckedMeansSaved
  BY DEF AckInv
<1> QED
  BY <1>1, AckInvariant, PTL

(* With a single worker a unique_violation does mean what save's comment   *)
(* says it means.                                                          *)
THEOREM ViolationMeansOlder ==
  ASSUME SingleWorker
  PROVE  Spec => UniqueViolationMeansOlder
<1>1. SaveInv /\ AckInv /\ [Next]_vars =>
        [\A w \in Workers : DropAsOlder(w) => ModOf(cur[w]) < ModOf(Row(w))]_vars
  BY DropStep
<1> QED
  BY <1>1, SaveInvariant, AckInvariant, PTL DEF Spec, UniqueViolationMeansOlder

-----------------------------------------------------------------------------
(* Refinement of LatestEvent                                               *)

Acknowledged == {m \in Messages : queue[m] = "deleted"}

LEMMA RefinementStep ==
  ASSUME SingleWorker, SaveInv, AckInv, [Next]_vars
  PROVE  [Latest!Next]_(Latest!vars)
<1> USE DEF Latest!vars
<1>1. CASE \E w \in Workers : Commit(w) \/ CommitUnanswered(w)
  <2>1. PICK w \in Workers :
          /\ cur[w] \in Versions
          /\ Row(w) = NoRow \/ Matches(w)
          /\ CommitRow(w)
          /\ UNCHANGED queueVars
    BY <1>1 DEF Commit, CommitUnanswered, SaveInv, HandInv, RowInv, Saving
  <2>2. Latest!Record(cur[w])
    BY <2>1 DEF Latest!Record, CommitRow, Row, Matches, queueVars
  <2> QED
    BY <2>1, <2>2 DEF Latest!Next
<1>2. CASE \E w \in Workers : Delete(w)
  <2>1. PICK w \in Workers : Delete(w)
    BY <1>2
  <2>2. job[w] \in Messages /\ pc[w] = "ack" /\ UNCHANGED table
    BY <2>1 DEF Delete, SaveInv, HandInv
  <2>3. \A v \in Announces(job[w]) : Latest!Reflects(v)
    <3> SUFFICES ASSUME NEW v \in Announces(job[w])
                 PROVE  Latest!Reflects(v)
      OBVIOUS
    <3>1. PICK i \in 1 .. Len(Body[job[w]].records) :
            Body[job[w]].records[i].version = v
      BY DEF Announces
    <3>2. v \in Versions
      BY DEF Announces
    <3>3. Reflected(Body[job[w]].records[i])
      BY <2>2 DEF AckInv, HeadInv, DoneRecords
    <3> QED
      BY <3>1, <3>2, <3>3, QuakeAssumption DEF Reflected, Stored, Latest!Reflects
  <2>4. CASE queue[job[w]] \in {"visible", "inflight"}
    <3>1. Acknowledged' = Acknowledged \cup {job[w]}
      BY <2>1, <2>2, <2>4 DEF Delete, Remove, Acknowledged, SaveInv, TypeOK, QueueTypeOK
    <3> QED
      BY <2>2, <2>3, <3>1 DEF Latest!Next, Latest!Acknowledge, Acknowledged
  <2>5. CASE queue[job[w]] \notin {"visible", "inflight"}
    <3>1. Acknowledged' = Acknowledged
      BY <2>1, <2>2, <2>5 DEF Delete, Remove, Acknowledged, SaveInv, TypeOK, QueueTypeOK
    <3> QED
      BY <2>2, <3>1 DEF Acknowledged
  <2> QED
    BY <2>4, <2>5
<1>3. CASE ~(\E w \in Workers : Commit(w) \/ CommitUnanswered(w) \/ Delete(w))
  <2>1. UNCHANGED table
    <3>1. ASSUME NEW w \in Workers, Step(w) \/ Restart(w)
          PROVE  UNCHANGED table
      BY <1>3, <3>1 DEF Step, Restart, Receive, Get, GetFails, SaveFails,
           DeleteFails, DeleteOld, DeleteNothing, DeleteWaits, Insert, DropAsOlder
    <3> QED
      BY <3>1 DEF Next, Sends, Expires, vars
  <2>2. \A m \in Messages : queue'[m] = "deleted" <=> queue[m] = "deleted"
    <3>1. ASSUME NEW w \in Workers, Step(w) \/ Restart(w)
          PROVE  UNCHANGED queue \/ \E m \in Messages : Deliver(m)
      BY <1>3, <3>1 DEF Step, Restart, Receive, Get, GetFails, SaveFails, Reject,
           DeleteFails, DeleteOld, DeleteNothing, DeleteWaits, Insert, DropAsOlder,
           queueVars
    <3>2. UNCHANGED queue \/ \E m \in Messages : Deliver(m) \/ Send(m) \/ Expire(m)
      BY <3>1 DEF Next, Sends, Expires, vars, queueVars
    <3> QED
      BY <3>2 DEF Deliver, Send, Expire, SaveInv, TypeOK, QueueTypeOK
  <2> QED
    BY <2>1, <2>2
<1> QED
  BY <1>1, <1>2, <1>3

(* A single worker implements LatestEvent: behind queue, crashes, retries  *)
(* and transactions the table always holds the latest information of what  *)
(* has been acknowledged.                                                  *)
THEOREM Implementation ==
  ASSUME SingleWorker
  PROVE  Spec => ImplementsLatestEvent
<1>1. Init => Latest!Init
  BY DEF Init, QueueInit, Latest!Init
<1>2. SaveInv /\ AckInv /\ [Next]_vars => [Latest!Next]_(Latest!vars)
  BY RefinementStep
<1> QED
  BY <1>1, <1>2, SaveInvariant, AckInvariant, PTL
     DEF Spec, Latest!Spec, ImplementsLatestEvent

=============================================================================
