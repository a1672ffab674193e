----------------------- MODULE HoldingsConsumerProofs ----------------------
(***************************************************************************)
(* Theorems about HoldingsConsumer for any number of messages, keys and    *)
(* contents and any limit on deliveries and records.                       *)
(***************************************************************************)
EXTENDS HoldingsConsumer, TLAPS

-----------------------------------------------------------------------------
(* The inductive invariant                                                 *)

(* What a worker holds while it is not receiving: a message that was sent, *)
(* and a record that exists.  What it is about to save is filed where it   *)
(* belongs, and the second saveHoldings finds the stream.                  *)
AtSave == {"save", "stream", "again"}

HandInv ==
  \A w \in Workers :
    /\ pc[w] = "receive" => job[w] = NoMessage /\ rec[w] = 1
    /\ pc[w] # "receive" => /\ job[w] \in Messages
                            /\ queue[job[w]] # "unsent"
                            /\ rec[w] <= Len(e[w])
    /\ pc[w] \in AtSave => Current(w).name = "ObjectCreated"
    /\ pc[w] = "again" => h[w].stream \in stream

Filed(s, r) == IF r.error THEN s = NoStream
                          ELSE r.content \in Contents /\ s = StreamOf[r.content]

FiledInv ==
  /\ \A w \in Workers : Filed(h[w].stream, h[w])
  /\ \A s \in AllStreams, k \in Keys :
       holdings[s][k] # NoRow => Filed(s, holdings[s][k])

TextInv == \A m \in Messages : Len(text[m].records) <= MaxRecords

IndexInv == TypeOK /\ HandInv /\ FiledInv /\ TextInv

LEMMA InitIndexInv == Init => IndexInv
<1> SUFFICES ASSUME Init PROVE IndexInv
  OBVIOUS
<1>1. QueueTypeOK
  BY QueueAssumption DEF Init, QueueInit, QueueTypeOK, Places
<1>2. ErrorHolding \in Holding
  BY DEF ErrorHolding, Holding, AllStreams
<1>3. NoRecords("other") \in Text
  BY DEF NoRecords, Text
<1>4. TypeOK
  <2>1. 1 \in 1 .. MaxRecords /\ Len(<<>>) = 0 /\ <<>> \in Seq(Record)
    BY HoldingsAssumption
  <2>2. /\ text \in [Messages -> Text]
        /\ object \in [Keys -> Contents \cup {Absent}]
        /\ settled \subseteq Keys
        /\ stream \subseteq AllStreams
        /\ holdings \in [AllStreams -> [Keys -> Row \cup {NoRow}]]
    BY <1>3 DEF Init
  <2>3. /\ pc \in [Workers -> Stages]
        /\ job \in [Workers -> Messages \cup {NoMessage}]
        /\ rec \in [Workers -> 1 .. MaxRecords]
        /\ h \in [Workers -> Holding]
    BY <1>2, <2>1 DEF Init, Stages
  <2>4. /\ e \in [Workers -> Seq(Record)]
        /\ \A w \in Workers : Len(e[w]) <= MaxRecords
    BY <2>1, HoldingsAssumption DEF Init
  <2> QED
    BY <1>1, <2>2, <2>3, <2>4 DEF TypeOK
<1>5. HandInv
  BY DEF Init, HandInv, AtSave
<1>6. FiledInv
  BY DEF Init, FiledInv, Filed, ErrorHolding
<1>7. TextInv
  <2>1. \A m \in Messages : text[m].records = <<>>
    BY DEF Init, NoRecords
  <2>2. Len(<<>>) <= MaxRecords
    BY HoldingsAssumption
  <2> QED
    BY <2>1, <2>2 DEF TextInv
<1> QED
  BY <1>4, <1>5, <1>6, <1>7 DEF IndexInv

-----------------------------------------------------------------------------
(* The parts of a worker's step                                            *)

(* The queue's own steps keep its type, and what was sent remains sent.    *)
LEMMA QueueKeeps ==
  ASSUME QueueTypeOK, NEW m \in Messages,
         Send(m) \/ Deliver(m) \/ Expire(m) \/ Remove(m)
  PROVE  /\ QueueTypeOK'
         /\ \A x \in Messages : queue[x] # "unsent" => queue'[x] # "unsent"
BY QueueAssumption DEF QueueTypeOK, Places, Send, Deliver, Expire, Remove

(* What a statement may do to the tables.                                  *)
DbKept ==
  /\ stream \subseteq stream'
  /\ stream' \subseteq AllStreams
  /\ holdings' \in [AllStreams -> [Keys -> Row \cup {NoRow}]]
  /\ \A s \in AllStreams, k \in Keys :
       holdings'[s][k] # NoRow => Filed(s, holdings'[s][k])

(* What remains of the invariant when one worker has stepped.              *)
OthersKept(w) ==
  /\ \A x \in Workers \ {w} :
       /\ pc'[x] = pc[x] /\ job'[x] = job[x] /\ e'[x] = e[x]
       /\ rec'[x] = rec[x] /\ h'[x] = h[x]
  /\ \A m \in Messages : queue[m] # "unsent" => queue'[m] # "unsent"

(* A worker that processes a message is at a record of it.                 *)
LEMMA CurrentType ==
  ASSUME IndexInv, NEW w \in Workers, pc[w] # "receive"
  PROVE  /\ Current(w) \in Record
         /\ Current(w).key \in Keys
         /\ rec[w] \in 1 .. Len(e[w])
<1>1. e[w] \in Seq(Record) /\ rec[w] \in 1 .. MaxRecords /\ rec[w] <= Len(e[w])
  BY DEF IndexInv, TypeOK, HandInv
<1>2. rec[w] \in 1 .. Len(e[w])
  BY <1>1, HoldingsAssumption
<1>3. Current(w) \in Record
  BY <1>1, <1>2 DEF Current
<1> QED
  BY <1>2, <1>3 DEF Record

LEMMA SaveHoldingsKeeps ==
  ASSUME IndexInv, NEW w \in Workers, pc[w] # "receive", SaveHoldings(w)
  PROVE  DbKept
<1> DEFINE row == [content |-> h[w].content, error |-> h[w].error]
<1>1. Current(w).key \in Keys
  BY CurrentType
<1>2. h[w] \in Holding /\ row \in Row
  BY DEF IndexInv, TypeOK, Holding, Row
<1>3. Filed(h[w].stream, row)
  BY DEF IndexInv, FiledInv, Filed
<1>4. CASE h[w].stream \in stream
  <2>1. holdings' = [holdings EXCEPT ![h[w].stream][Current(w).key] = row]
    BY <1>4 DEF SaveHoldings
  <2>2. holdings' \in [AllStreams -> [Keys -> Row \cup {NoRow}]]
    BY <1>2, <2>1 DEF IndexInv, TypeOK
  <2>3. ASSUME NEW s \in AllStreams, NEW k \in Keys, holdings'[s][k] # NoRow
        PROVE  Filed(s, holdings'[s][k])
    <3>1. CASE s = h[w].stream /\ k = Current(w).key
      <4>1. holdings'[s][k] = row
        BY <2>1, <3>1 DEF IndexInv, TypeOK
      <4> QED
        BY <1>3, <3>1, <4>1
    <3>2. CASE ~(s = h[w].stream /\ k = Current(w).key)
      <4>1. holdings'[s][k] = holdings[s][k]
        BY <2>1, <3>2 DEF IndexInv, TypeOK
      <4> QED
        BY <2>3, <4>1 DEF IndexInv, FiledInv
    <3> QED
      BY <3>1, <3>2
  <2> QED
    BY <2>2, <2>3 DEF DbKept, SaveHoldings, IndexInv, TypeOK
<1>5. CASE h[w].stream \notin stream
  BY <1>5 DEF SaveHoldings, DbKept, IndexInv, TypeOK, FiledInv
<1> QED
  BY <1>4, <1>5

LEMMA InsertStreamKeeps ==
  ASSUME IndexInv, NEW w \in Workers, InsertStream(w)
  PROVE  DbKept
BY DEF InsertStream, DbKept, IndexInv, TypeOK, FiledInv, Holding

LEMMA DeleteRowsKeeps ==
  ASSUME IndexInv, NEW w \in Workers, pc[w] # "receive", DeleteRows(w)
  PROVE  /\ DbKept
         /\ \A s \in AllStreams, k \in Keys :
              holdings'[s][k] =
                IF k = Current(w).key THEN NoRow ELSE holdings[s][k]
<1>1. Current(w).key \in Keys
  BY CurrentType
<1>2. \A s \in AllStreams :
        holdings'[s] = [holdings[s] EXCEPT ![Current(w).key] = NoRow]
  BY DEF DeleteRows
<1>3. \A s \in AllStreams : holdings[s] \in [Keys -> Row \cup {NoRow}]
  BY DEF IndexInv, TypeOK
<1>4. \A s \in AllStreams, k \in Keys :
        holdings'[s][k] = IF k = Current(w).key THEN NoRow ELSE holdings[s][k]
  BY <1>1, <1>2, <1>3
<1>5. holdings' \in [AllStreams -> [Keys -> Row \cup {NoRow}]]
  BY <1>3 DEF DeleteRows
<1> QED
  BY <1>4, <1>5 DEF DbKept, DeleteRows, IndexInv, TypeOK, FiledInv

(* Going back to the receive call keeps the invariant.                     *)
LEMMA BackToReceiveKeeps ==
  ASSUME IndexInv, NEW w \in Workers, BackToReceive(w), DbKept,
         QueueTypeOK', UNCHANGED <<text, object, settled>>,
         \A m \in Messages : queue[m] # "unsent" => queue'[m] # "unsent",
         e' = e \/ e' = [e EXCEPT ![w] = <<>>]
  PROVE  IndexInv' /\ OthersKept(w) /\ pc'[w] = "receive" /\ job'[w] = NoMessage
<1> USE DEF IndexInv
<1>1. ErrorHolding \in Holding /\ 1 \in 1 .. MaxRecords
  BY HoldingsAssumption DEF ErrorHolding, Holding, AllStreams
<1>2. /\ e' \in [Workers -> Seq(Record)]
      /\ \A x \in Workers : Len(e'[x]) <= MaxRecords
  <2>1. <<>> \in Seq(Record) /\ Len(<<>>) <= MaxRecords
    BY HoldingsAssumption
  <2> QED
    BY <2>1 DEF TypeOK
<1>3. TypeOK'
  BY <1>1, <1>2 DEF TypeOK, BackToReceive, DbKept, Stages
<1>4. /\ pc'[w] = "receive" /\ job'[w] = NoMessage /\ rec'[w] = 1
      /\ h'[w] = ErrorHolding
      /\ \A x \in Workers \ {w} :
           /\ pc'[x] = pc[x] /\ job'[x] = job[x] /\ e'[x] = e[x]
           /\ rec'[x] = rec[x] /\ h'[x] = h[x]
  BY DEF TypeOK, BackToReceive
<1>5. HandInv'
  BY <1>4 DEF HandInv, AtSave, DbKept, Current
<1>6. FiledInv'
  BY <1>4 DEF FiledInv, Filed, DbKept, ErrorHolding
<1>7. TextInv'
  BY DEF TextInv
<1> QED
  BY <1>3, <1>4, <1>5, <1>6, <1>7 DEF OthersKept

(* So does going on to the next record.                                    *)
LEMMA NextRecordKeeps ==
  ASSUME IndexInv, NEW w \in Workers, pc[w] # "receive", NextRecord(w), DbKept
  PROVE  /\ IndexInv' /\ OthersKept(w)
         /\ job' = job /\ UNCHANGED bucketVars
         /\ \/ /\ pc'[w] = "record"
               /\ rec'[w] = rec[w] + 1
            \/ pc'[w] = "ack" /\ rec[w] = Len(e[w])
<1> USE DEF IndexInv
<1>1. ErrorHolding \in Holding
  BY DEF ErrorHolding, Holding, AllStreams
<1>2. /\ rec[w] \in 1 .. MaxRecords /\ Len(e[w]) \in 0 .. MaxRecords
      /\ rec[w] <= Len(e[w])
  BY HoldingsAssumption DEF TypeOK, HandInv
<1>3. (IF rec[w] < Len(e[w]) THEN rec[w] + 1 ELSE rec[w]) \in 1 .. MaxRecords
  BY <1>2, HoldingsAssumption
<1>4. TypeOK'
  <2>1. pc' \in [Workers -> Stages]
    BY DEF TypeOK, NextRecord, AfterRecord, Stages
  <2>2. rec' \in [Workers -> 1 .. MaxRecords]
    BY <1>3 DEF TypeOK, NextRecord
  <2>3. h' \in [Workers -> Holding]
    BY <1>1 DEF TypeOK, NextRecord
  <2>4. QueueTypeOK'
    BY DEF TypeOK, QueueTypeOK, NextRecord, bucketVars, queueVars
  <2> QED
    BY <2>1, <2>2, <2>3, <2>4 DEF TypeOK, NextRecord, bucketVars, DbKept
<1>5. /\ pc'[w] = AfterRecord(w) /\ h'[w] = ErrorHolding
      /\ rec'[w] = IF rec[w] < Len(e[w]) THEN rec[w] + 1 ELSE rec[w]
      /\ e' = e /\ job' = job /\ queue' = queue
      /\ \A x \in Workers \ {w} :
           pc'[x] = pc[x] /\ rec'[x] = rec[x] /\ h'[x] = h[x]
  BY DEF TypeOK, NextRecord, bucketVars, queueVars
<1>6. \/ /\ pc'[w] = "record"
        /\ rec'[w] = rec[w] + 1 /\ rec'[w] <= Len(e[w])
      \/ /\ pc'[w] = "ack" /\ rec[w] = Len(e[w])
        /\ rec'[w] = rec[w]
  BY <1>2, <1>5 DEF AfterRecord
<1>7. HandInv'
  <2> SUFFICES ASSUME NEW x \in Workers
               PROVE  /\ (pc[x] = "receive" => job[x] = NoMessage /\ rec[x] = 1)'
                      /\ (pc[x] # "receive" => /\ job[x] \in Messages
                                               /\ queue[job[x]] # "unsent"
                                               /\ rec[x] <= Len(e[x]))'
                      /\ (pc[x] \in AtSave => Current(x).name = "ObjectCreated")'
                      /\ (pc[x] = "again" => h[x].stream \in stream)'
    BY DEF HandInv
  <2>1. CASE x = w
    BY <1>2, <1>5, <1>6, <2>1 DEF HandInv, AtSave
  <2>2. CASE x # w
    BY <1>5, <2>2 DEF HandInv, AtSave, Current, DbKept
  <2> QED
    BY <2>1, <2>2
<1>8. FiledInv'
  BY <1>5 DEF FiledInv, Filed, DbKept, ErrorHolding
<1>9. TextInv'
  BY DEF TextInv, NextRecord, bucketVars
<1> QED
  BY <1>4, <1>5, <1>6, <1>7, <1>8, <1>9 DEF OthersKept, NextRecord

-----------------------------------------------------------------------------
(* The invariant is inductive                                              *)

(* What a sender does: the message was not sent before.                    *)
Sendable(t) ==
  /\ t \in Text
  /\ Len(t.records) <= MaxRecords
  /\ t.kind # "records" => t.records = <<>>
SentText(m) ==
  /\ Send(m)
  /\ \E t : Sendable(t) /\ text' = [text EXCEPT ![m] = t]
  /\ object' \in [Keys -> Contents \cup {Absent}]
  /\ settled' \subseteq Keys
  /\ UNCHANGED <<dbVars, workerVars>>

LEMMA SendsText ==
  ASSUME IndexInv, NEW m \in Messages, Sends(m)
  PROVE  SentText(m)
<1>1. object \in [Keys -> Contents \cup {Absent}] /\ settled \subseteq Keys
  BY DEF IndexInv, TypeOK
<1> DEFINE Of(rs) == [kind |-> "records", records |-> rs]
<1>2. ASSUME NEW rs \in Seq(Record), Len(rs) = 1 \/ Len(rs) = 2
      PROVE  Sendable(Of(rs))
  <2>1. Of(rs) \in Text /\ Of(rs).records = rs /\ Of(rs).kind = "records"
    BY DEF Text
  <2>2. MaxRecords \in Nat /\ 2 <= MaxRecords
    BY HoldingsAssumption
  <2>3. CASE Len(rs) = 1
    BY <2>1, <2>2, <2>3 DEF Sendable
  <2>4. CASE Len(rs) = 2
    BY <2>1, <2>2, <2>4 DEF Sendable
  <2> QED
    BY <1>2, <2>3, <2>4
<1>3. ASSUME NEW k \in Keys, NEW c \in Contents, Put(m, k, c)
      PROVE  SentText(m)
  <2> DEFINE rs == <<Creation(k)>>
  <2>1. rs \in Seq(Record) /\ Len(rs) = 1
    BY DEF Record, EventNames, Creation
  <2> QED
    BY <1>1, <1>2, <1>3, <2>1 DEF Put, SendRecords, SendText, SentText
<1>4. ASSUME NEW k \in Keys, Take(m, k)
      PROVE  SentText(m)
  <2> DEFINE rs == <<Removal(k)>>
  <2>1. rs \in Seq(Record) /\ Len(rs) = 1
    BY DEF Record, EventNames, Removal
  <2> QED
    BY <1>1, <1>2, <1>4, <2>1 DEF Take, SendRecords, SendText, SentText
<1>5. ASSUME NEW k \in Keys, Misconfigured(m, k)
      PROVE  SentText(m)
  <2> DEFINE rs == <<Creation(k), [name |-> "unknown", key |-> k]>>
  <2>1. rs \in Seq(Record) /\ Len(rs) = 2
    BY DEF Record, EventNames, Creation
  <2> QED
    BY <1>1, <1>2, <1>5, <2>1 DEF Misconfigured, SendRecords, SendText, SentText
<1>6. ASSUME NEW ks \in Seq(Keys), Len(ks) = 1 \/ Len(ks) = 2, Reindex(m, ks)
      PROVE  SentText(m)
  <2> DEFINE rs == [i \in 1 .. Len(ks) |-> Creation(ks[i])]
  <2>1. \A i \in 1 .. Len(ks) : ks[i] \in Keys
    OBVIOUS
  <2>2. rs \in Seq(Record) /\ Len(rs) = Len(ks)
    BY <2>1, <1>6 DEF Record, EventNames, Creation
  <2> QED
    BY <1>1, <1>2, <1>6, <2>2 DEF Reindex, SendRecords, SendText, SentText
<1>7. ASSUME Unusable(m)
      PROVE  SentText(m)
  <2>1. PICK kind \in {"other", "malformed"} : SendText(m, NoRecords(kind))
    BY <1>7 DEF Unusable
  <2>2. Sendable(NoRecords(kind))
    <3>1. <<>> \in Seq(Record) /\ Len(<<>>) <= MaxRecords
      BY HoldingsAssumption
    <3> QED
      BY <3>1 DEF NoRecords, Text, Sendable
  <2> QED
    BY <1>1, <1>7, <2>1, <2>2 DEF Unusable, SendText, SentText
<1>8. ASSUME NEW k \in Keys
      PROVE  <<k>> \in Seq(Keys) /\ Len(<<k>>) = 1
  OBVIOUS
<1>9. ASSUME NEW k \in Keys, NEW j \in Keys
      PROVE  <<k, j>> \in Seq(Keys) /\ Len(<<k, j>>) = 2
  OBVIOUS
<1> QED
  BY <1>3, <1>4, <1>5, <1>6, <1>7, <1>8, <1>9 DEF Sends

LEMMA SendKeeps ==
  ASSUME IndexInv, NEW m \in Messages, SentText(m)
  PROVE  IndexInv'
<1> USE DEF IndexInv
<1>1. /\ QueueTypeOK'
      /\ \A x \in Messages : queue[x] # "unsent" => queue'[x] # "unsent"
  BY QueueKeeps DEF SentText, TypeOK
<1>2. PICK t : Sendable(t) /\ text' = [text EXCEPT ![m] = t]
  BY DEF SentText
<1>3. UNCHANGED <<stream, holdings, pc, job, e, rec, h>>
  BY DEF SentText, dbVars, workerVars
<1>4. TypeOK'
  BY <1>1, <1>2, <1>3 DEF SentText, Sendable, TypeOK
<1>5. HandInv' /\ FiledInv'
  BY <1>1, <1>3 DEF HandInv, FiledInv, Current
<1>6. TextInv'
  BY <1>2 DEF TextInv, TypeOK, Sendable
<1> QED
  BY <1>4, <1>5, <1>6

LEMMA ReceiveKeeps ==
  ASSUME IndexInv, NEW w \in Workers, NEW m \in Messages, Receive(w, m)
  PROVE  IndexInv' /\ OthersKept(w)
<1> USE DEF IndexInv
<1>1. /\ QueueTypeOK'
      /\ \A x \in Messages : queue[x] # "unsent" => queue'[x] # "unsent"
  BY QueueKeeps DEF Receive, TypeOK
<1> DEFINE d == Decode(text[m], e[w])
<1>2. d \in Seq(Record) /\ Len(d) <= MaxRecords
  BY DEF Decode, TypeOK, TextInv, Text
<1>3. /\ e' = [e EXCEPT ![w] = d] /\ e'[w] = d
      /\ \A x \in Workers \ {w} : e'[x] = e[x]
  BY DEF Receive, TypeOK
<1>4. /\ queue'[m] # "unsent" /\ pc[w] = "receive"
      /\ UNCHANGED <<text, object, settled, stream, holdings, rec, h>>
      /\ \A x \in Workers \ {w} : pc'[x] = pc[x] /\ job'[x] = job[x]
      /\ \/ pc'[w] = "record" /\ job'[w] = m /\ d # <<>>
         \/ pc'[w] = "receive" /\ job'[w] = job[w]
  BY <1>3 DEF Receive, Deliver, TypeOK, QueueTypeOK, dbVars
<1>5. TypeOK'
  <2>1. pc' \in [Workers -> Stages] /\ job' \in [Workers -> Messages \cup {NoMessage}]
    BY DEF Receive, TypeOK, Stages
  <2> QED
    BY <1>1, <1>2, <1>3, <1>4, <2>1 DEF TypeOK
<1>6. d # <<>> => 1 <= Len(d)
  BY <1>2
<1>7. rec[w] = 1
  BY <1>4 DEF HandInv
<1>8. HandInv'
  BY <1>1, <1>3, <1>4, <1>6, <1>7 DEF HandInv, AtSave, Current
<1>9. FiledInv' /\ TextInv'
  BY <1>4 DEF FiledInv, TextInv
<1> QED
  BY <1>1, <1>3, <1>4, <1>5, <1>8, <1>9 DEF OthersKept

LEMMA ReadKeeps ==
  ASSUME IndexInv, NEW w \in Workers, Read(w)
  PROVE  IndexInv' /\ OthersKept(w) /\ h'[w] \in ReadResults(Current(w).key)
<1> USE DEF IndexInv
<1>1. PICK r \in ReadResults(Current(w).key) : h' = [h EXCEPT ![w] = r]
  BY DEF Read
<1>2. r \in Holding /\ Filed(r.stream, r)
  <2>1. CASE r = ErrorHolding
    BY <2>1 DEF Holding, ErrorHolding, Filed, AllStreams
  <2>2. CASE r # ErrorHolding
    <3>1. PICK c \in Contents :
            r = [stream |-> StreamOf[c], content |-> c, error |-> FALSE]
      BY <2>2 DEF ReadResults
    <3>2. StreamOf[c] \in AllStreams
      BY HoldingsAssumption
    <3> QED
      BY <3>1, <3>2 DEF Holding, Filed
  <2> QED
    BY <2>1, <2>2
<1>3. /\ pc' = [pc EXCEPT ![w] = "save"] /\ pc[w] = "record"
      /\ Current(w).name = "ObjectCreated"
      /\ UNCHANGED <<bucketVars, queue, receives, stream, holdings, text, object, settled, job, e, rec>>
  BY DEF Read, bucketVars, dbVars, queueVars
<1>4. TypeOK'
  BY <1>1, <1>2, <1>3 DEF TypeOK, QueueTypeOK, Stages
<1>5. /\ pc'[w] = "save" /\ h'[w] = r
      /\ \A x \in Workers \ {w} : pc'[x] = pc[x] /\ h'[x] = h[x]
  BY <1>1, <1>3 DEF TypeOK
<1>6. HandInv'
  BY <1>3, <1>5 DEF HandInv, AtSave, Current
<1>7. FiledInv' /\ TextInv'
  BY <1>2, <1>3, <1>5 DEF FiledInv, TextInv
<1> QED
  BY <1>1, <1>3, <1>4, <1>5, <1>6, <1>7 DEF OthersKept

(* A statement and then another stage for the same record.                 *)
LEMMA StageKeeps ==
  ASSUME IndexInv, NEW w \in Workers, pc[w] \in AtSave, DbKept,
         NEW stage \in {"stream", "again"}, pc' = [pc EXCEPT ![w] = stage],
         stage = "again" => h[w].stream \in stream',
         UNCHANGED <<bucketVars, job, e, rec, h>>
  PROVE  IndexInv' /\ OthersKept(w)
<1> USE DEF IndexInv
<1>1. UNCHANGED <<queue, receives, text, object, settled>>
  BY DEF bucketVars, queueVars
<1>2. TypeOK'
  BY <1>1 DEF TypeOK, QueueTypeOK, Stages, DbKept
<1>3. pc'[w] = stage /\ \A x \in Workers \ {w} : pc'[x] = pc[x]
  BY DEF TypeOK
<1>4. HandInv'
  BY <1>1, <1>3 DEF HandInv, AtSave, Current, DbKept
<1>5. FiledInv' /\ TextInv'
  BY <1>1 DEF FiledInv, TextInv, DbKept
<1> QED
  BY <1>1, <1>2, <1>3, <1>4, <1>5 DEF OthersKept

(* Nothing happens to the tables.                                          *)
LEMMA DbUnchanged ==
  ASSUME IndexInv, UNCHANGED dbVars
  PROVE  DbKept
BY DEF IndexInv, TypeOK, FiledInv, DbKept, dbVars

LEMMA IndexInvStep == IndexInv /\ [Next]_vars => IndexInv'
<1> SUFFICES ASSUME IndexInv, [Next]_vars
             PROVE  IndexInv'
  OBVIOUS
<1>1. ASSUME NEW m \in Messages, Sends(m)
      PROVE  IndexInv'
  BY <1>1, SendsText, SendKeeps
<1>2. ASSUME NEW m \in Messages, Expires(m)
      PROVE  IndexInv'
  <2>1. /\ QueueTypeOK'
        /\ \A x \in Messages : queue[x] # "unsent" => queue'[x] # "unsent"
    BY <1>2, QueueKeeps DEF Expires, IndexInv, TypeOK
  <2> QED
    BY <1>2, <2>1 DEF Expires, IndexInv, TypeOK, HandInv, FiledInv, TextInv,
                      Current, dbVars, workerVars
<1>3. ASSUME NEW w \in Workers, NEW m \in Messages, Receive(w, m)
      PROVE  IndexInv'
  BY <1>3, ReceiveKeeps
<1>4. ASSUME NEW w \in Workers, Read(w)
      PROVE  IndexInv'
  BY <1>4, ReadKeeps
<1>5. ASSUME NEW w \in Workers, Save(w) \/ SaveStream(w) \/ SaveAgain(w) \/ DeleteHoldings(w)
      PROVE  IndexInv'
  <2>1. CASE Save(w)
    BY <2>1, SaveHoldingsKeeps, NextRecordKeeps, StageKeeps DEF Save, AtSave
  <2>2. CASE SaveStream(w)
    <3>1. h[w].stream \in stream'
      BY <2>2 DEF SaveStream, InsertStream
    <3> QED
      BY <2>2, <3>1, InsertStreamKeeps, StageKeeps DEF SaveStream, AtSave
  <2>3. CASE SaveAgain(w)
    BY <2>3, SaveHoldingsKeeps, NextRecordKeeps DEF SaveAgain
  <2>4. CASE DeleteHoldings(w)
    BY <2>4, DeleteRowsKeeps, NextRecordKeeps DEF DeleteHoldings, AtRemoval
  <2> QED
    BY <1>5, <2>1, <2>2, <2>3, <2>4
<1>6. ASSUME NEW w \in Workers, Reject(w)
      PROVE  IndexInv'
  <2>1. /\ QueueTypeOK' /\ UNCHANGED <<text, object, settled>> /\ queue' = queue
        /\ UNCHANGED dbVars
    BY <1>6 DEF Reject, bucketVars, queueVars, IndexInv, TypeOK, QueueTypeOK
  <2> QED
    BY <1>6, <2>1, DbUnchanged, BackToReceiveKeeps DEF Reject
<1>7. ASSUME NEW w \in Workers, StatementUnanswered(w)
      PROVE  IndexInv'
  <2>1. /\ QueueTypeOK' /\ UNCHANGED <<text, object, settled>> /\ queue' = queue
    BY <1>7 DEF StatementUnanswered, bucketVars, queueVars, IndexInv, TypeOK, QueueTypeOK
  <2>2. DbKept
    BY <1>7, SaveHoldingsKeeps, InsertStreamKeeps, DeleteRowsKeeps
       DEF StatementUnanswered, AtRemoval
  <2> QED
    BY <1>7, <2>1, <2>2, BackToReceiveKeeps DEF StatementUnanswered
<1>8. ASSUME NEW w \in Workers, Delete(w)
      PROVE  IndexInv'
  <2>1. job[w] \in Messages
    BY <1>8 DEF Delete, IndexInv, HandInv
  <2>2. /\ QueueTypeOK'
        /\ \A x \in Messages : queue[x] # "unsent" => queue'[x] # "unsent"
    BY <1>8, <2>1, QueueKeeps DEF Delete, IndexInv, TypeOK
  <2> QED
    BY <1>8, <2>2, DbUnchanged, BackToReceiveKeeps DEF Delete
<1>9. ASSUME NEW w \in Workers, Restart(w)
      PROVE  IndexInv'
  <2>1. /\ QueueTypeOK' /\ UNCHANGED <<text, object, settled>> /\ queue' = queue
    BY <1>9 DEF Restart, bucketVars, queueVars, IndexInv, TypeOK, QueueTypeOK
  <2> QED
    BY <1>9, <2>1, DbUnchanged, BackToReceiveKeeps DEF Restart
<1>10. CASE UNCHANGED vars
  BY <1>10 DEF vars, bucketVars, queueVars, dbVars, workerVars, IndexInv, TypeOK,
               QueueTypeOK, HandInv, FiledInv, TextInv, Current
<1>11. ASSUME NEW w \in Workers, UnknownEvent(w) \/ StatementFails(w) \/ DeleteFails(w)
       PROVE  IndexInv'
  BY <1>6, <1>11 DEF UnknownEvent, StatementFails, DeleteFails
<1> QED
  BY <1>1, <1>2, <1>3, <1>4, <1>5, <1>7, <1>8, <1>9, <1>10, <1>11 DEF Next, Step

THEOREM IndexInvariant == Spec => []IndexInv
BY InitIndexInv, IndexInvStep, PTL DEF Spec

(* Every variable keeps its type.                                          *)
THEOREM TypeCorrect == Spec => []TypeOK
<1>1. IndexInv => TypeOK
  BY DEF IndexInv
<1> QED
  BY <1>1, IndexInvariant, PTL

(* However the workers interleave, no row is filed under a stream that its *)
(* file does not contain, and error rows are under the empty codes.        *)
THEOREM RowsAreFiled == Spec => []RowsAreInTheirStream
<1>1. IndexInv => RowsAreInTheirStream
  BY DEF IndexInv, FiledInv, Filed, RowsAreInTheirStream
<1> QED
  BY <1>1, IndexInvariant, PTL

(* However the workers interleave, the second saveHoldings finds its       *)
(* stream: a created record is never passed over without a row.            *)
THEOREM CreatedRecordsAreSaved == Spec => CreatedRecordHasRow
<1> DEFINE Saved ==
      \A w \in Workers :
        pc[w] \in {"save", "stream", "again"} /\ pc'[w] \in {"record", "ack"} =>
          holdings'[h[w].stream][Current(w).key] # NoRow
<1>1. IndexInv /\ [Next]_vars => [Saved]_vars
  <2> SUFFICES ASSUME IndexInv, Next, NEW w \in Workers, pc[w] \in AtSave,
                      pc'[w] \in {"record", "ack"}
               PROVE  holdings'[h[w].stream][Current(w).key] # NoRow
    BY DEF AtSave
  <2>1. pc \in [Workers -> Stages]
    BY DEF IndexInv, TypeOK
  <2>2. ASSUME NEW m \in Messages, Sends(m) \/ Expires(m)
        PROVE  FALSE
    <3>1. pc' = pc
      BY <2>2, SendsText DEF SentText, Expires, workerVars
    <3> QED
      BY <3>1 DEF AtSave
  <2>3. ASSUME NEW x \in Workers, Restart(x) \/ Step(x), x # w
        PROVE  FALSE
    <3>1. pc'[w] = pc[w]
      BY <2>1, <2>3 DEF Restart, Step, Receive, Read, Save, SaveStream, SaveAgain,
            DeleteHoldings, UnknownEvent, StatementFails, StatementUnanswered,
            Delete, DeleteFails, Reject, BackToReceive, NextRecord
    <3> QED
      BY <3>1 DEF AtSave
  <2>4. ASSUME Restart(w) \/ Step(w)
        PROVE  SaveHoldings(w) /\ h[w].stream \in stream
    <3>1. pc'[w] # "receive" /\ pc'[w] \notin {"stream", "again"}
      OBVIOUS
    <3>2. Save(w) \/ SaveAgain(w)
      BY <2>1, <2>4, <3>1 DEF AtSave, Restart, Step, Receive, Read, SaveStream,
            DeleteHoldings, AtRemoval, UnknownEvent, StatementFails, StatementUnanswered,
            Delete, DeleteFails, Reject, BackToReceive
    <3>3. CASE Save(w)
      BY <2>1, <3>1, <3>3 DEF Save
    <3>4. CASE SaveAgain(w)
      BY <3>4 DEF SaveAgain, IndexInv, HandInv
    <3> QED
      BY <3>2, <3>3, <3>4
  <2>5. SaveHoldings(w) /\ h[w].stream \in stream
    BY <2>2, <2>3, <2>4 DEF Next
  <2>6. Current(w).key \in Keys /\ h[w].stream \in AllStreams
    BY CurrentType DEF AtSave, IndexInv, TypeOK, Holding
  <2>7. holdings'[h[w].stream][Current(w).key] =
          [content |-> h[w].content, error |-> h[w].error]
    BY <2>5, <2>6 DEF SaveHoldings, IndexInv, TypeOK
  <2>8. [content |-> h[w].content, error |-> h[w].error] \in Row
    BY DEF IndexInv, TypeOK, Holding, Row
  <2> QED
    BY <2>7, <2>8, HoldingsAssumption
<1> QED
  BY <1>1, IndexInvariant, PTL DEF Spec, CreatedRecordHasRow

-----------------------------------------------------------------------------
(* A single worker leaves no ghosts                                        *)

(* With one worker the invariant can follow each record of each message    *)
(* through the worker's hands.                                             *)
SingleWorker == \A w, x \in Workers : w = x

(* Record i of message m, equal to r, is still to be processed: m has not  *)
(* been deleted and a worker that holds it has not got past the record.    *)
Pending(m, i, r) ==
  /\ queue[m] \in {"visible", "inflight", "dlq"}
  /\ i \in 1 .. Len(text[m].records)
  /\ text[m].records[i] = r
  /\ \A w \in Workers : job[w] = m => pc[w] # "ack" /\ rec[w] <= i

(* What a worker is about to save for key k is good data.                  *)
InHand(k) ==
  \E w \in Workers : pc[w] \in AtSave /\ ~h[w].error /\ Current(w).key = k

Shown(k) == InHand(k) \/ \E s \in AllStreams : Searchable(s, k)

(* A worker's records are those of its message, unless that has none.      *)
SourceInv ==
  /\ \A m \in Messages : text[m].kind # "records" => text[m].records = <<>>
  /\ \A w \in Workers :
       job[w] \in Messages /\ text[job[w]].kind = "records" =>
         e[w] = text[job[w]].records

GhostInv ==
  \A k \in Keys : object[k] = Absent /\ Shown(k) =>
    \E m \in Messages, i \in Nat : Pending(m, i, Removal(k))

(* Sending leaves the worker and the texts of other messages alone.        *)
LEMMA SentKinds ==
  ASSUME IndexInv, SourceInv, NEW m \in Messages, Sends(m)
  PROVE  /\ SourceInv'
         /\ \A x \in Messages \ {m} : text'[x] = text[x] /\ queue'[x] = queue[x]
         /\ queue[m] = "unsent" /\ queue'[m] = "visible"
         /\ UNCHANGED <<stream, holdings, pc, job, e, rec, h>>
<1>1. SentText(m)
  BY SendsText
<1> PICK t : Sendable(t) /\ text' = [text EXCEPT ![m] = t]
  BY <1>1 DEF SentText
<1>2. /\ \A x \in Messages \ {m} : text'[x] = text[x] /\ queue'[x] = queue[x]
      /\ queue[m] = "unsent" /\ queue'[m] = "visible"
      /\ UNCHANGED <<stream, holdings, pc, job, e, rec, h>>
  BY <1>1 DEF SentText, Send, IndexInv, TypeOK, QueueTypeOK, dbVars, workerVars
<1>3. text'[m].kind # "records" => text'[m].records = <<>>
  BY DEF IndexInv, TypeOK, Sendable
<1>4. \A w \in Workers : job[w] # m
  BY <1>2, HoldingsAssumption DEF IndexInv, HandInv
<1> QED
  BY <1>2, <1>3, <1>4 DEF SourceInv

LEMMA ReceivedSource ==
  ASSUME IndexInv, SourceInv, NEW w \in Workers, NEW m \in Messages, Receive(w, m)
  PROVE  SourceInv'
<1>1. /\ UNCHANGED text
      /\ \A x \in Workers \ {w} : job'[x] = job[x] /\ e'[x] = e[x]
      /\ e'[w] = Decode(text[m], e[w])
      /\ job'[w] \in {m, NoMessage}
  BY DEF Receive, IndexInv, TypeOK, HandInv
<1> QED
  BY <1>1, HoldingsAssumption DEF SourceInv, Decode

LEMMA SourceStep == IndexInv /\ SourceInv /\ [Next]_vars => SourceInv'
<1> SUFFICES ASSUME IndexInv, SourceInv, [Next]_vars
             PROVE  SourceInv'
  OBVIOUS
<1>1. ASSUME NEW m \in Messages, Sends(m)
      PROVE  SourceInv'
  BY <1>1, SentKinds
<1>2. ASSUME NEW w \in Workers, NEW m \in Messages, Receive(w, m)
      PROVE  SourceInv'
  BY <1>2, ReceivedSource
<1>3. ASSUME NEW w \in Workers, BackToReceive(w), UNCHANGED text,
             e' = e \/ e' = [e EXCEPT ![w] = <<>>]
      PROVE  SourceInv'
  BY <1>3, HoldingsAssumption DEF SourceInv, BackToReceive, IndexInv, TypeOK
<1>4. CASE UNCHANGED <<text, job, e>>
  BY <1>4 DEF SourceInv
<1>5. ASSUME NEW m \in Messages, Expires(m)
      PROVE  UNCHANGED <<text, job, e>>
  BY <1>5 DEF Expires, workerVars
<1>6. ASSUME NEW w \in Workers,
             Read(w) \/ Save(w) \/ SaveStream(w) \/ SaveAgain(w) \/ DeleteHoldings(w)
      PROVE  UNCHANGED <<text, job, e>>
  BY <1>6 DEF Read, Save, SaveStream, SaveAgain, DeleteHoldings, NextRecord, bucketVars
<1>7. ASSUME NEW w \in Workers,
             \/ UnknownEvent(w) \/ StatementFails(w) \/ StatementUnanswered(w)
             \/ Delete(w) \/ DeleteFails(w) \/ Restart(w)
      PROVE  BackToReceive(w) /\ UNCHANGED text /\ (e' = e \/ e' = [e EXCEPT ![w] = <<>>])
  BY <1>7 DEF UnknownEvent, StatementFails, StatementUnanswered, Delete,
              DeleteFails, Restart, Reject, bucketVars
<1>8. CASE UNCHANGED vars
  BY <1>8, <1>4 DEF vars, bucketVars, workerVars
<1> QED
  BY <1>1, <1>2, <1>3, <1>4, <1>5, <1>6, <1>7, <1>8 DEF Next, Step

(* What a pending record needs to remain pending.                          *)
LEMMA PendingKept ==
  ASSUME NEW m \in Messages, NEW i \in Nat, NEW r, Pending(m, i, r),
         text'[m] = text[m], queue'[m] \in {"visible", "inflight", "dlq"},
         \A w \in Workers : job'[w] = m => pc'[w] # "ack" /\ rec'[w] <= i
  PROVE  Pending(m, i, r)'
BY DEF Pending

(* A worker at a pending record of its message holds that record.          *)
LEMMA HeldRecord ==
  ASSUME SourceInv, NEW w \in Workers, NEW m \in Messages, NEW i \in Nat, NEW r,
         Pending(m, i, r), job[w] = m
  PROVE  e[w] = text[m].records /\ (rec[w] = i => Current(w) = r)
<1>1. i \in 1 .. Len(text[m].records) /\ text[m].records[i] = r
  BY DEF Pending
<1>2. text[m].kind = "records"
  BY <1>1 DEF SourceInv
<1> QED
  BY <1>1, <1>2 DEF SourceInv, Current

(* Going on to the next record passes over no record but the current one.  *)
LEMMA NextRecordPending ==
  ASSUME IndexInv, SourceInv, NEW w \in Workers, pc[w] # "receive",
         NextRecord(w), DbKept,
         NEW m \in Messages, NEW i \in Nat, NEW r, Pending(m, i, r),
         ~(job[w] = m /\ rec[w] = i)
  PROVE  Pending(m, i, r)'
<1>1. /\ OthersKept(w) /\ job' = job /\ UNCHANGED <<text, queue>>
      /\ \/ pc'[w] = "record" /\ rec'[w] = rec[w] + 1
         \/ pc'[w] = "ack" /\ rec[w] = Len(e[w])
  BY NextRecordKeeps DEF bucketVars, queueVars
<1>2. ASSUME job[w] = m
      PROVE  pc'[w] # "ack" /\ rec'[w] <= i
  <2>1. i \in 1 .. Len(text[m].records) /\ rec[w] <= i
    BY <1>2 DEF Pending
  <2>2. e[w] = text[m].records
    BY <1>2, HeldRecord
  <2>3. rec[w] \in 1 .. Len(e[w]) /\ Len(e[w]) \in Nat
    BY CurrentType DEF IndexInv, TypeOK
  <2> QED
    BY <1>1, <1>2, <2>1, <2>2, <2>3
<1>3. \A x \in Workers : job'[x] = m => pc'[x] # "ack" /\ rec'[x] <= i
  BY <1>1, <1>2 DEF OthersKept, Pending
<1> QED
  BY <1>1, <1>3, PendingKept DEF Pending

(* Every step but the processing of the record keeps it pending.           *)
LEMMA PendingStep ==
  ASSUME IndexInv, SourceInv, [Next]_vars,
         NEW m \in Messages, NEW i \in Nat, NEW r, Pending(m, i, r)
  PROVE  \/ Pending(m, i, r)'
         \/ \E w \in Workers :
              /\ job[w] = m /\ rec[w] = i /\ Current(w) = r
              /\ Save(w) \/ SaveAgain(w) \/ DeleteHoldings(w)
              /\ NextRecord(w)
<1> USE DEF Pending
<1>1. ASSUME NEW x \in Messages, Sends(x)
      PROVE  Pending(m, i, r)'
  <2>1. x # m
    BY <1>1, SentKinds
  <2> QED
    BY <1>1, <2>1, SentKinds, PendingKept
<1>2. ASSUME NEW x \in Messages, Expires(x)
      PROVE  Pending(m, i, r)'
  <2>1. UNCHANGED <<text, pc, job, rec>>
    BY <1>2 DEF Expires, workerVars
  <2>2. queue'[m] \in {"visible", "inflight", "dlq"}
    BY <1>2 DEF Expires, Expire, IndexInv, TypeOK, QueueTypeOK
  <2> QED
    BY <2>1, <2>2, PendingKept
<1>3. ASSUME NEW w \in Workers, NEW x \in Messages, Receive(w, x)
      PROVE  Pending(m, i, r)'
  <2>1. /\ UNCHANGED <<text, rec>> /\ rec[w] = 1 /\ pc'[w] # "ack"
        /\ \A y \in Workers \ {w} : job'[y] = job[y] /\ pc'[y] = pc[y]
    BY <1>3 DEF Receive, IndexInv, TypeOK, HandInv
  <2>2. queue'[m] \in {"visible", "inflight", "dlq"}
    BY <1>3 DEF Receive, Deliver, IndexInv, TypeOK, QueueTypeOK
  <2>3. Len(text[m].records) \in Nat
    BY DEF IndexInv, TypeOK, Text
  <2>4. 1 <= i
    BY <2>3
  <2>5. \A y \in Workers : job'[y] = m => pc'[y] # "ack" /\ rec'[y] <= i
    BY <2>1, <2>4
  <2> QED
    BY <2>1, <2>2, <2>5, PendingKept
<1>4. ASSUME NEW w \in Workers, NEW stage \in AtSave,
             pc' = [pc EXCEPT ![w] = stage], UNCHANGED <<text, queue, job, rec>>
      PROVE  Pending(m, i, r)'
  <2>1. \A y \in Workers : pc'[y] = "ack" => pc[y] = "ack"
    BY <1>4 DEF AtSave, IndexInv, TypeOK
  <2> QED
    BY <1>4, <2>1, PendingKept
<1>5. ASSUME NEW w \in Workers, Read(w) \/ SaveStream(w)
      PROVE  Pending(m, i, r)'
  BY <1>4, <1>5 DEF Read, SaveStream, bucketVars, queueVars, AtSave
<1>6. ASSUME NEW w \in Workers, Save(w) \/ SaveAgain(w) \/ DeleteHoldings(w),
             ~(job[w] = m /\ rec[w] = i /\ NextRecord(w))
      PROVE  Pending(m, i, r)'
  <2>1. pc[w] # "receive"
    BY <1>6 DEF Save, SaveAgain, DeleteHoldings, AtRemoval
  <2>2. DbKept
    BY <1>6, <2>1, SaveHoldingsKeeps, DeleteRowsKeeps
       DEF Save, SaveAgain, DeleteHoldings
  <2>3. CASE NextRecord(w)
    BY <1>6, <2>1, <2>2, <2>3, NextRecordPending
  <2>4. CASE ~NextRecord(w)
    BY <1>4, <1>6, <2>4 DEF Save, SaveAgain, DeleteHoldings, bucketVars, queueVars, AtSave
  <2> QED
    BY <2>3, <2>4
<1>7. ASSUME NEW w \in Workers, BackToReceive(w), UNCHANGED text,
             queue'[m] \in {"visible", "inflight", "dlq"}
      PROVE  Pending(m, i, r)'
  <2>1. /\ job'[w] = NoMessage
        /\ \A x \in Workers \ {w} : job'[x] = job[x] /\ pc'[x] = pc[x] /\ rec'[x] = rec[x]
    BY <1>7 DEF BackToReceive, IndexInv, TypeOK
  <2> QED
    BY <1>7, <2>1, PendingKept, HoldingsAssumption
<1>8. ASSUME NEW w \in Workers,
             \/ UnknownEvent(w) \/ StatementFails(w) \/ StatementUnanswered(w)
             \/ DeleteFails(w) \/ Restart(w)
      PROVE  Pending(m, i, r)'
  <2>1. BackToReceive(w) /\ UNCHANGED <<text, queue>>
    BY <1>8 DEF UnknownEvent, StatementFails, StatementUnanswered, DeleteFails,
                Restart, Reject, bucketVars, queueVars
  <2> QED
    BY <1>7, <2>1
<1>9. ASSUME NEW w \in Workers, Delete(w)
      PROVE  Pending(m, i, r)'
  <2>1. job[w] # m /\ BackToReceive(w) /\ UNCHANGED text
    BY <1>9 DEF Delete
  <2>2. queue'[m] = queue[m]
    BY <1>9, <2>1 DEF Delete, Remove, IndexInv, TypeOK, QueueTypeOK
  <2> QED
    BY <1>7, <2>1, <2>2
<1>10. CASE UNCHANGED vars
  BY <1>10, PendingKept DEF vars, bucketVars, queueVars, workerVars
<1>11. ASSUME NEW w \in Workers, job[w] = m, rec[w] = i
       PROVE  Current(w) = r
  BY <1>11, HeldRecord
<1> QED
  BY <1>1, <1>2, <1>3, <1>5, <1>6, <1>8, <1>9, <1>10, <1>11 DEF Next, Step

(* Nothing is newly shown for a key without an object, unless the object   *)
(* is taken away in this step.                                             *)
LEMMA ShownBefore ==
  ASSUME IndexInv, [Next]_vars, NEW k \in Keys, object'[k] = Absent, Shown(k)'
  PROVE  \/ object[k] = Absent /\ Shown(k)
         \/ \E m \in Messages : Take(m, k)
<1>1. ASSUME NEW m \in Messages, Sends(m), ~Take(m, k)
      PROVE  object[k] = Absent /\ Shown(k)
  <2>1. UNCHANGED <<holdings, pc, e, rec, h>>
    BY <1>1, SendsText DEF SentText, dbVars, workerVars
  <2>2. Shown(k)
    BY <2>1 DEF Shown, InHand, Searchable, Current
  <2>3. object[k] = Absent
    <3>1. ASSUME NEW j \in Keys, NEW c \in Contents, Put(m, j, c)
          PROVE  object[k] = Absent
      BY <3>1, HoldingsAssumption DEF Put, IndexInv, TypeOK
    <3>2. ASSUME NEW j \in Keys, Take(m, j)
          PROVE  object[k] = Absent
      BY <1>1, <3>2 DEF Take, IndexInv, TypeOK
    <3> QED
      BY <1>1, <3>1, <3>2 DEF Sends, Misconfigured, Reindex, Unusable
  <2> QED
    BY <2>2, <2>3
<1>2. CASE \E m \in Messages : Expires(m)
  BY <1>2 DEF Expires, dbVars, workerVars, Shown, InHand, Searchable, Current
<1>3. ASSUME NEW w \in Workers, OthersKept(w), UNCHANGED object,
             InHand(k)' => InHand(k) \/ (pc'[w] \notin AtSave),
             \A s \in AllStreams : Searchable(s, k)' => Shown(k)
      PROVE  object[k] = Absent /\ Shown(k)
  BY <1>3 DEF Shown, InHand, OthersKept, Current
<1>4. ASSUME NEW w \in Workers, SaveHoldings(w), pc[w] \in AtSave, NEW s \in AllStreams,
             Searchable(s, k)'
      PROVE  Shown(k)
  <2>1. CASE holdings'[s][k] = holdings[s][k]
    BY <1>4, <2>1 DEF Shown, Searchable
  <2>2. CASE holdings'[s][k] # holdings[s][k]
    <3>1. Current(w).key \in Keys
      BY <1>4, CurrentType DEF AtSave
    <3>2. Current(w).key = k /\ holdings'[s][k] = [content |-> h[w].content, error |-> h[w].error]
      BY <1>4, <2>2, <3>1 DEF SaveHoldings, IndexInv, TypeOK
    <3> QED
      BY <1>4, <3>2 DEF Searchable, Shown, InHand
  <2> QED
    BY <2>1, <2>2
<1>5. ASSUME NEW w \in Workers, pc[w] # "receive", DeleteRows(w), NEW s \in AllStreams,
             Searchable(s, k)'
      PROVE  Shown(k)
  BY <1>5, DeleteRowsKeeps DEF Searchable, Shown
<1>6. ASSUME NEW w \in Workers, NEW m \in Messages, Receive(w, m)
      PROVE  object[k] = Absent /\ Shown(k)
  <2>1. OthersKept(w) /\ UNCHANGED <<object, holdings>> /\ pc'[w] \notin AtSave
    BY <1>6, ReceiveKeeps DEF Receive, dbVars, AtSave, IndexInv, TypeOK
  <2> QED
    BY <1>3, <2>1 DEF Shown, Searchable
<1>7. ASSUME NEW w \in Workers, Read(w)
      PROVE  object[k] = Absent /\ Shown(k)
  <2>1. OthersKept(w) /\ h'[w] \in ReadResults(Current(w).key)
    BY <1>7, ReadKeeps
  <2>2. UNCHANGED <<object, holdings, e, rec>>
    BY <1>7 DEF Read, bucketVars, dbVars
  <2>3. Current(w).key = k => h'[w].error
    BY <2>1, <2>2, HoldingsAssumption DEF ReadResults, ErrorHolding
  <2> QED
    BY <2>1, <2>2, <2>3 DEF OthersKept, Shown, InHand, Searchable, Current
<1>8. ASSUME NEW w \in Workers, SaveStream(w)
      PROVE  object[k] = Absent /\ Shown(k)
  <2>1. UNCHANGED <<object, holdings, e, rec, h>>
    BY <1>8 DEF SaveStream, InsertStream, bucketVars
  <2>2. \A x \in Workers : pc'[x] \in AtSave => pc[x] \in AtSave
    BY <1>8 DEF SaveStream, AtSave, IndexInv, TypeOK
  <2> QED
    BY <2>1, <2>2 DEF Shown, InHand, Searchable, Current
<1>9. ASSUME NEW w \in Workers, Save(w) \/ SaveAgain(w)
      PROVE  object[k] = Absent /\ Shown(k)
  <2>1. pc[w] \in AtSave /\ SaveHoldings(w) /\ DbKept
    BY <1>9, SaveHoldingsKeeps DEF Save, SaveAgain, AtSave
  <2>2. UNCHANGED object
    BY <1>9 DEF Save, SaveAgain, NextRecord, bucketVars
  <2>3. CASE NextRecord(w)
    <3>1. OthersKept(w) /\ pc'[w] \notin AtSave
      BY <2>1, <2>3, NextRecordKeeps DEF AtSave
    <3> QED
      BY <1>3, <1>4, <2>1, <2>2, <3>1
  <2>4. CASE ~NextRecord(w)
    <3>1. UNCHANGED <<e, rec, h>> /\ \A x \in Workers : pc'[x] \in AtSave => pc[x] \in AtSave
      BY <1>9, <2>1, <2>4 DEF Save, SaveAgain, IndexInv, TypeOK
    <3>2. InHand(k)' => InHand(k)
      BY <3>1 DEF InHand, Current
    <3> QED
      BY <1>4, <2>1, <2>2, <3>2 DEF Shown
  <2> QED
    BY <2>3, <2>4
<1>10. ASSUME NEW w \in Workers, DeleteHoldings(w)
       PROVE  object[k] = Absent /\ Shown(k)
  <2>1. pc[w] # "receive" /\ DeleteRows(w) /\ UNCHANGED object /\ NextRecord(w)
    BY <1>10 DEF DeleteHoldings, AtRemoval, NextRecord, bucketVars
  <2>2. OthersKept(w) /\ pc'[w] \notin AtSave
    BY <2>1, DeleteRowsKeeps, NextRecordKeeps DEF AtSave
  <2> QED
    BY <1>3, <1>5, <2>1, <2>2
<1>11. ASSUME NEW w \in Workers, BackToReceive(w), UNCHANGED object,
              e' = e \/ e' = [e EXCEPT ![w] = <<>>],
              \A s \in AllStreams : Searchable(s, k)' => Shown(k)
       PROVE  object[k] = Absent /\ Shown(k)
  <2>1. /\ pc'[w] = "receive"
        /\ \A x \in Workers \ {w} : /\ pc'[x] = pc[x] /\ rec'[x] = rec[x]
                                     /\ h'[x] = h[x] /\ e'[x] = e[x]
    BY <1>11 DEF BackToReceive, IndexInv, TypeOK
  <2>2. InHand(k)' => InHand(k)
    BY <2>1 DEF InHand, Current, AtSave
  <2> QED
    BY <1>11, <2>2 DEF Shown
<1>12. ASSUME NEW w \in Workers, StatementUnanswered(w)
       PROVE  object[k] = Absent /\ Shown(k)
  <2>1. \A s \in AllStreams : Searchable(s, k)' => Shown(k)
    BY <1>4, <1>5, <1>12 DEF StatementUnanswered, AtSave, AtRemoval, InsertStream, Searchable, Shown
  <2> QED
    BY <1>11, <1>12, <2>1 DEF StatementUnanswered, bucketVars
<1>13. ASSUME NEW w \in Workers,
              \/ UnknownEvent(w) \/ StatementFails(w) \/ Delete(w)
              \/ DeleteFails(w) \/ Restart(w)
       PROVE  object[k] = Absent /\ Shown(k)
  <2>1. BackToReceive(w) /\ UNCHANGED <<object, holdings>>
        /\ (e' = e \/ e' = [e EXCEPT ![w] = <<>>])
    BY <1>13 DEF UnknownEvent, StatementFails, Delete, DeleteFails, Restart,
                 Reject, bucketVars, dbVars
  <2> QED
    BY <1>11, <2>1 DEF Searchable, Shown
<1>14. CASE UNCHANGED vars
  BY <1>14 DEF vars, bucketVars, dbVars, workerVars, Shown, InHand, Searchable, Current
<1> QED
  BY <1>1, <1>2, <1>6, <1>7, <1>8, <1>9, <1>10, <1>12, <1>13, <1>14 DEF Next, Step

LEMMA GhostStep ==
  ASSUME SingleWorker, IndexInv, SourceInv, GhostInv, [Next]_vars
  PROVE  GhostInv'
<1> SUFFICES ASSUME NEW k \in Keys, object'[k] = Absent, Shown(k)'
             PROVE  \E m \in Messages, i \in Nat : Pending(m, i, Removal(k))'
  BY DEF GhostInv, Removal
<1>1. ASSUME NEW m \in Messages, Take(m, k)
      PROVE  Pending(m, 1, Removal(k))'
  <2>1. Sends(m)
    BY <1>1 DEF Sends
  <2>2. queue'[m] = "visible" /\ \A w \in Workers : job'[w] # m
    BY <2>1, SentKinds, HoldingsAssumption DEF IndexInv, HandInv
  <2>3. text'[m].records = <<Removal(k)>>
    BY <1>1 DEF Take, SendRecords, SendText, Removal, IndexInv, TypeOK
  <2> QED
    BY <2>2, <2>3 DEF Pending, Removal
<1>2. ASSUME object[k] = Absent, Shown(k)
      PROVE  \E m \in Messages, i \in Nat : Pending(m, i, Removal(k))'
  <2>1. PICK m \in Messages, i \in Nat : Pending(m, i, Removal(k))
    BY <1>2 DEF GhostInv
  <2>2. ASSUME NEW w \in Workers, Current(w) = Removal(k),
               Save(w) \/ SaveAgain(w) \/ DeleteHoldings(w)
        PROVE  FALSE
    <3>1. DeleteHoldings(w)
      BY <2>2 DEF Save, SaveAgain, IndexInv, HandInv, AtSave, Removal
    <3>2. pc[w] # "receive" /\ DeleteRows(w) /\ NextRecord(w) /\ Current(w).key = k
      BY <2>2, <3>1 DEF DeleteHoldings, AtRemoval, Removal
    <3>3. \A s \in AllStreams : ~Searchable(s, k)'
      BY <3>2, DeleteRowsKeeps DEF Searchable
    <3>4. pc'[w] \notin AtSave
      BY <3>2, DeleteRowsKeeps, NextRecordKeeps DEF AtSave
    <3>5. ~InHand(k)'
      BY <3>4 DEF SingleWorker, InHand
    <3> QED
      BY <3>3, <3>5 DEF Shown
  <2> QED
    BY <2>1, <2>2, PendingStep
<1> QED
  BY <1>1, <1>2, ShownBefore

(* With a single worker, and whatever is late, duplicated, reordered or    *)
(* fails, a removed object does not stay in what the searches see.         *)
THEOREM NoGhosts ==
  ASSUME SingleWorker
  PROVE  Spec => []NoGhostHoldings
<1>1. Init => SourceInv /\ GhostInv
  BY HoldingsAssumption
     DEF Init, SourceInv, GhostInv, Shown, InHand, Searchable, AtSave, NoRecords
<1>2. IndexInv /\ SourceInv /\ GhostInv /\ [Next]_vars => SourceInv' /\ GhostInv'
  BY SourceStep, GhostStep
<1>3. GhostInv => NoGhostHoldings
  BY DEF GhostInv, Pending, Shown, NoGhostHoldings, Outstanding, Removal
<1> QED
  BY <1>1, <1>2, <1>3, IndexInvariant, PTL DEF Spec

-----------------------------------------------------------------------------
(* What is settled                                                         *)

(* A settled object is in the bucket, and nothing is left that removes it: *)
(* no message, and no event struct with the records of an earlier one.     *)
SettledInv == \A k \in settled : object[k] # Absent /\ ~RemovalLeft(k)

Left(r) == Outstanding(r) \/ \E w \in Workers : \E i \in 1 .. Len(e[w]) : e[w][i] = r

(* A record that is left was left before, or is sent in this step.         *)
LEMMA LeftBefore ==
  ASSUME IndexInv, SourceInv, [Next]_vars, NEW r, Left(r)'
  PROVE  \/ Left(r)
         \/ \E m \in Messages :
              Sends(m) /\ \E i \in 1 .. Len(text'[m].records) : text'[m].records[i] = r
<1>1. ASSUME NEW m \in Messages, Sends(m),
             ~\E i \in 1 .. Len(text'[m].records) : text'[m].records[i] = r
      PROVE  Left(r)
  BY <1>1, SentKinds DEF Left, Outstanding
<1>2. ASSUME UNCHANGED text,
             \A m \in Messages : queue'[m] \in {"visible", "inflight", "dlq"} =>
                                queue[m] \in {"visible", "inflight", "dlq"},
             \A w \in Workers : \A i \in 1 .. Len(e'[w]) :
               \/ i \in 1 .. Len(e[w]) /\ e'[w][i] = e[w][i]
               \/ Outstanding(e'[w][i])
      PROVE  Left(r)
  BY <1>2 DEF Left, Outstanding
<1>3. ASSUME NEW m \in Messages, Expires(m)
      PROVE  Left(r)
  <2>1. UNCHANGED <<text, e>>
    BY <1>3 DEF Expires, workerVars
  <2>2. \A x \in Messages : queue'[x] \in {"visible", "inflight", "dlq"} =>
                             queue[x] \in {"visible", "inflight", "dlq"}
    BY <1>3 DEF Expires, Expire, IndexInv, TypeOK, QueueTypeOK
  <2> QED
    BY <1>2, <2>1, <2>2
<1>4. ASSUME NEW w \in Workers, NEW m \in Messages, Receive(w, m)
      PROVE  Left(r)
  <2>1. UNCHANGED text /\ queue[m] = "visible" /\ e' = [e EXCEPT ![w] = Decode(text[m], e[w])]
    BY <1>4 DEF Receive, Deliver
  <2>2. \A x \in Messages : queue'[x] \in {"visible", "inflight", "dlq"} =>
                             queue[x] \in {"visible", "inflight", "dlq"}
    BY <1>4 DEF Receive, Deliver, IndexInv, TypeOK, QueueTypeOK
  <2>3. \A x \in Workers : \A i \in 1 .. Len(e'[x]) :
          \/ i \in 1 .. Len(e[x]) /\ e'[x][i] = e[x][i]
          \/ Outstanding(e'[x][i])
    BY <2>1 DEF Decode, Outstanding, IndexInv, TypeOK
  <2> QED
    BY <1>2, <2>1, <2>2, <2>3
<1>5. ASSUME NEW w \in Workers, UNCHANGED text, e' = e \/ e' = [e EXCEPT ![w] = <<>>],
             queue' = queue \/ Delete(w)
      PROVE  Left(r)
  <2>1. \A x \in Messages : queue'[x] \in {"visible", "inflight", "dlq"} =>
                             queue[x] \in {"visible", "inflight", "dlq"}
    BY <1>5 DEF Delete, Remove, IndexInv, TypeOK, QueueTypeOK
  <2>2. \A x \in Workers : \A i \in 1 .. Len(e'[x]) :
          i \in 1 .. Len(e[x]) /\ e'[x][i] = e[x][i]
    <3>1. \A i \in 1 .. Len(<<>>) : FALSE
      OBVIOUS
    <3> QED
      BY <1>5, <3>1 DEF IndexInv, TypeOK
  <2> QED
    BY <1>2, <1>5, <2>1, <2>2
<1>6. ASSUME NEW w \in Workers,
             \/ Read(w) \/ Save(w) \/ SaveStream(w) \/ SaveAgain(w)
             \/ DeleteHoldings(w) \/ UnknownEvent(w) \/ StatementFails(w)
             \/ StatementUnanswered(w) \/ Delete(w) \/ DeleteFails(w) \/ Restart(w)
      PROVE  /\ UNCHANGED text
             /\ e' = e \/ e' = [e EXCEPT ![w] = <<>>]
             /\ queue' = queue \/ Delete(w)
  BY <1>6 DEF Read, Save, SaveStream, SaveAgain, DeleteHoldings, UnknownEvent,
              StatementFails, StatementUnanswered, Delete, DeleteFails, Restart,
              Reject, NextRecord, bucketVars, queueVars
<1>7. CASE UNCHANGED vars
  BY <1>2, <1>7 DEF vars, bucketVars, queueVars, workerVars
<1> QED
  BY <1>1, <1>3, <1>4, <1>5, <1>6, <1>7 DEF Next, Step

(* Only taking an object away sends its removal.                           *)
LEMMA RemovalIsTake ==
  ASSUME IndexInv, NEW m \in Messages, Sends(m), NEW k \in Keys,
         NEW i \in 1 .. Len(text'[m].records), text'[m].records[i] = Removal(k)
  PROVE  Take(m, k)
<1> USE DEF IndexInv, TypeOK, SendRecords, SendText, Creation, Removal
<1>1. ASSUME NEW j \in Keys, NEW c \in Contents, Put(m, j, c)
      PROVE  FALSE
  BY <1>1 DEF Put
<1>2. ASSUME NEW j \in Keys, Take(m, j)
      PROVE  j = k
  BY <1>2 DEF Take
<1>3. ASSUME NEW j \in Keys, Misconfigured(m, j)
      PROVE  FALSE
  BY <1>3 DEF Misconfigured
<1>4. ASSUME NEW ks \in Seq(Keys), Reindex(m, ks)
      PROVE  FALSE
  BY <1>4 DEF Reindex
<1>5. ASSUME Unusable(m)
      PROVE  FALSE
  BY <1>5 DEF Unusable, NoRecords
<1>6. ASSUME NEW j \in Keys, NEW x \in Keys
      PROVE  <<j>> \in Seq(Keys) /\ <<j, x>> \in Seq(Keys)
  OBVIOUS
<1> QED
  BY <1>1, <1>2, <1>3, <1>4, <1>5, <1>6 DEF Sends

(* What is settled after a step was so before, with the same object, or is *)
(* uploaded in the step; it is not taken away.                             *)
LEMMA SettledFrom ==
  ASSUME IndexInv, [Next]_vars, NEW k \in Keys, k \in settled'
  PROVE  /\ \A m \in Messages : ~Take(m, k)
         /\ \/ k \in settled /\ object'[k] = object[k]
            \/ /\ k \in settled \/ ~RemovalLeft(k)
               /\ \E m \in Messages, c \in Contents : Put(m, k, c)
<1>1. \A m \in Messages : ~Take(m, k)
  BY DEF Take
<1>2. ASSUME UNCHANGED <<object, settled>>
      PROVE  k \in settled /\ object'[k] = object[k]
  BY <1>2
<1>3. ASSUME NEW m \in Messages, NEW j \in Keys, NEW c \in Contents, Put(m, j, c), j # k
      PROVE  k \in settled /\ object'[k] = object[k]
  BY <1>3 DEF Put, IndexInv, TypeOK
<1>4. ASSUME NEW m \in Messages, NEW c \in Contents, Put(m, k, c)
      PROVE  k \in settled \/ ~RemovalLeft(k)
  BY <1>4 DEF Put
<1>5. ASSUME NEW m \in Messages, NEW j \in Keys, Take(m, j)
      PROVE  k \in settled /\ object'[k] = object[k]
  <2>1. j # k
    BY <1>1, <1>5
  <2> QED
    BY <1>5, <2>1 DEF Take, IndexInv, TypeOK
<1>6. ASSUME NEW m \in Messages,
             \/ \E j \in Keys : Misconfigured(m, j)
             \/ \E ks \in Seq(Keys) : Reindex(m, ks)
             \/ Unusable(m) \/ Expires(m)
      PROVE  UNCHANGED <<object, settled>>
  BY <1>6 DEF Misconfigured, Reindex, Unusable, Expires
<1>7. ASSUME NEW w \in Workers, Step(w) \/ Restart(w)
      PROVE  UNCHANGED <<object, settled>>
  BY <1>7 DEF Step, Restart, Receive, Read, Save, SaveStream, SaveAgain,
              DeleteHoldings, UnknownEvent, StatementFails, StatementUnanswered,
              Delete, DeleteFails, Reject, NextRecord, bucketVars
<1>8. CASE UNCHANGED vars
  BY <1>1, <1>2, <1>8 DEF vars, bucketVars
<1>9. ASSUME NEW j \in Keys, NEW x \in Keys
      PROVE  <<j>> \in Seq(Keys) /\ <<j, x>> \in Seq(Keys)
  OBVIOUS
<1> QED
  BY <1>1, <1>2, <1>3, <1>4, <1>5, <1>6, <1>7, <1>8, <1>9 DEF Next, Sends

LEMMA SettledStep ==
  ASSUME IndexInv, SourceInv, SettledInv, [Next]_vars
  PROVE  SettledInv'
<1> SUFFICES ASSUME NEW k \in Keys, k \in settled'
             PROVE  object'[k] # Absent /\ ~RemovalLeft(k)'
  <2>1. settled' \subseteq Keys
    BY IndexInvStep DEF IndexInv, TypeOK
  <2> QED
    BY <2>1 DEF SettledInv
<1> PICK r : r = Removal(k)
  OBVIOUS
<1>1. /\ RemovalLeft(k) <=> Left(r)
      /\ RemovalLeft(k)' <=> Left(r)'
  BY DEF RemovalLeft, Left, Outstanding, Removal
<1>2. ~RemovalLeft(k)
  BY SettledFrom DEF SettledInv
<1>3. ~Left(r)'
  BY <1>1, <1>2, SettledFrom, LeftBefore, RemovalIsTake
<1>4. object'[k] # Absent
  <2>1. ASSUME NEW m \in Messages, NEW c \in Contents, Put(m, k, c)
        PROVE  object'[k] # Absent
    BY <2>1, HoldingsAssumption DEF Put, IndexInv, TypeOK
  <2> QED
    BY <2>1, SettledFrom DEF SettledInv
<1> QED
  BY <1>1, <1>3, <1>4

(* A worker at a removal of a key has it in its event struct.              *)
LEMMA RemovalIsLeft ==
  ASSUME IndexInv, NEW w \in Workers, AtRemoval(w)
  PROVE  RemovalLeft(Current(w).key)
<1>1. Current(w) \in Record /\ rec[w] \in 1 .. Len(e[w])
  BY CurrentType DEF AtRemoval
<1>2. Current(w) = Removal(Current(w).key)
  BY <1>1 DEF AtRemoval, Record, Removal
<1> QED
  BY <1>1, <1>2 DEF RemovalLeft, Current

-----------------------------------------------------------------------------
(* A single worker indexes every object                                    *)

(* What a successful read of an object's content leaves to be saved.       *)
Reading(c) == IF c \in Corrupt
              THEN ErrorHolding
              ELSE [stream |-> StreamOf[c], content |-> c, error |-> FALSE]

(* A notification of key k is pending, and a worker that has read the      *)
(* object for it has read what the bucket holds now.                       *)
Fresh(m, i, k) ==
  /\ Pending(m, i, Creation(k))
  /\ \A w \in Workers :
       job[w] = m /\ rec[w] = i /\ pc[w] \in AtSave => h[w] = Reading(object[k])

(* Key k is indexed as it is, and no worker is about to change that.       *)
SafelyIndexed(k) ==
  /\ Indexed(k)
  /\ \A w \in Workers :
       pc[w] \in AtSave /\ Current(w).key = k => h[w] = Reading(object[k])

(* An outdated reading may be saved, but only while a notification of the  *)
(* upload that has outdated it is pending.                                 *)
IndexedInv ==
  \A k \in settled :
    SafelyIndexed(k) \/ \E m \in Messages, i \in Nat : Fresh(m, i, k)

LEMMA ReadsCurrent ==
  ASSUME IndexInv, ReadsFail = FALSE, NEW k \in Keys, object[k] # Absent,
         NEW r \in ReadResults(k)
  PROVE  r = Reading(object[k])
BY HoldingsAssumption DEF ReadResults, Reading, IndexInv, TypeOK

(* What a worker is about to save it has read in this step or before.      *)
HandKept(w) ==
  /\ job'[w] = job[w] /\ e'[w] = e[w] /\ rec'[w] = rec[w]
  /\ \/ pc[w] \in AtSave /\ h'[w] = h[w]
     \/ Read(w) /\ h'[w] \in ReadResults(Current(w).key)

LEMMA HandsStep ==
  ASSUME IndexInv, [Next]_vars, NEW w \in Workers, pc'[w] \in AtSave
  PROVE  HandKept(w)
<1>1. ASSUME NEW m \in Messages, Sends(m) \/ Expires(m)
      PROVE  HandKept(w)
  <2>1. UNCHANGED <<pc, job, e, rec, h>>
    BY <1>1, SendsText DEF SentText, Expires, workerVars
  <2> QED
    BY <2>1 DEF HandKept
<1>2. ASSUME NEW x \in Workers, OthersKept(x), x # w \/ pc'[x] \notin AtSave
      PROVE  HandKept(w)
  BY <1>2 DEF OthersKept, HandKept
<1>3. ASSUME NEW x \in Workers, NEW m \in Messages, Receive(x, m)
      PROVE  HandKept(w)
  <2>1. pc'[x] \notin AtSave
    BY <1>3 DEF Receive, AtSave, IndexInv, TypeOK
  <2> QED
    BY <1>2, <1>3, <2>1, ReceiveKeeps
<1>4. ASSUME NEW x \in Workers, Read(x)
      PROVE  HandKept(w)
  <2>1. OthersKept(x) /\ h'[x] \in ReadResults(Current(x).key)
    BY <1>4, ReadKeeps
  <2>2. CASE x = w
    BY <1>4, <2>1, <2>2 DEF Read, HandKept
  <2> QED
    BY <1>2, <2>1, <2>2
<1>5. ASSUME NEW x \in Workers, UNCHANGED <<job, e, rec, h>>, pc[x] \in AtSave,
             NEW stage, pc' = [pc EXCEPT ![x] = stage]
      PROVE  HandKept(w)
  BY <1>5 DEF HandKept, IndexInv, TypeOK
<1>6. ASSUME NEW x \in Workers, pc[x] # "receive", NextRecord(x), DbKept
      PROVE  HandKept(w)
  <2>1. OthersKept(x) /\ pc'[x] \notin AtSave
    BY <1>6, NextRecordKeeps DEF AtSave
  <2> QED
    BY <1>2, <2>1
<1>7. ASSUME NEW x \in Workers,
             Save(x) \/ SaveStream(x) \/ SaveAgain(x) \/ DeleteHoldings(x)
      PROVE  HandKept(w)
  BY <1>5, <1>6, <1>7, SaveHoldingsKeeps, DeleteRowsKeeps
     DEF Save, SaveStream, SaveAgain, DeleteHoldings, AtRemoval, AtSave
<1>8. ASSUME NEW x \in Workers, BackToReceive(x), e' = e \/ e' = [e EXCEPT ![x] = <<>>]
      PROVE  HandKept(w)
  <2>1. /\ pc'[x] = "receive"
        /\ \A y \in Workers \ {x} :
             /\ pc'[y] = pc[y] /\ job'[y] = job[y] /\ e'[y] = e[y]
             /\ rec'[y] = rec[y] /\ h'[y] = h[y]
    BY <1>8 DEF BackToReceive, IndexInv, TypeOK
  <2> QED
    BY <2>1 DEF HandKept, AtSave
<1>9. ASSUME NEW x \in Workers,
             \/ UnknownEvent(x) \/ StatementFails(x) \/ StatementUnanswered(x)
             \/ Delete(x) \/ DeleteFails(x) \/ Restart(x)
      PROVE  BackToReceive(x) /\ (e' = e \/ e' = [e EXCEPT ![x] = <<>>])
  BY <1>9 DEF UnknownEvent, StatementFails, StatementUnanswered, Delete,
              DeleteFails, Restart, Reject
<1>10. CASE UNCHANGED vars
  BY <1>10 DEF vars, workerVars, HandKept
<1> QED
  BY <1>1, <1>3, <1>4, <1>7, <1>8, <1>9, <1>10 DEF Next, Step

(* The rows of a key are changed by saving one of it or deleting them all. *)
RowsKept(k) == \A s \in AllStreams : holdings'[s][k] = holdings[s][k]

LEMMA RowsStep ==
  ASSUME IndexInv, [Next]_vars, NEW k \in Keys
  PROVE  \/ RowsKept(k)
         \/ \E w \in Workers :
              Current(w).key = k /\ pc[w] \in AtSave /\ SaveHoldings(w)
         \/ \E w \in Workers : Current(w).key = k /\ AtRemoval(w)
<1>1. ASSUME NEW w \in Workers, SaveHoldings(w), Current(w).key # k
      PROVE  RowsKept(k)
  BY <1>1 DEF SaveHoldings, RowsKept, IndexInv, TypeOK
<1>2. ASSUME NEW w \in Workers, AtRemoval(w), DeleteRows(w), Current(w).key # k
      PROVE  RowsKept(k)
  BY <1>2, DeleteRowsKeeps DEF AtRemoval, RowsKept
<1>3. ASSUME UNCHANGED holdings
      PROVE  RowsKept(k)
  BY <1>3 DEF RowsKept
<1>4. ASSUME NEW m \in Messages, Sends(m) \/ Expires(m)
      PROVE  UNCHANGED holdings
  BY <1>4, SendsText DEF SentText, Expires, dbVars
<1>5. ASSUME NEW w \in Workers,
             \/ \E m \in Messages : Receive(w, m)
             \/ Read(w) \/ SaveStream(w) \/ UnknownEvent(w) \/ StatementFails(w)
             \/ Delete(w) \/ DeleteFails(w) \/ Restart(w)
      PROVE  UNCHANGED holdings
  BY <1>5 DEF Receive, Read, SaveStream, InsertStream, UnknownEvent, StatementFails,
              Delete, DeleteFails, Restart, Reject, dbVars
<1>6. ASSUME NEW w \in Workers,
             Save(w) \/ SaveAgain(w) \/ DeleteHoldings(w) \/ StatementUnanswered(w)
      PROVE  \/ UNCHANGED holdings
             \/ pc[w] \in AtSave /\ SaveHoldings(w)
             \/ AtRemoval(w) /\ DeleteRows(w)
  BY <1>6 DEF Save, SaveAgain, DeleteHoldings, StatementUnanswered, InsertStream, AtSave
<1>7. CASE UNCHANGED vars
  BY <1>3, <1>7 DEF vars, dbVars
<1>8. ASSUME NEW w \in Workers, Step(w) \/ Restart(w), ~RowsKept(k)
      PROVE  Current(w).key = k /\ ((pc[w] \in AtSave /\ SaveHoldings(w)) \/ AtRemoval(w))
  <2>1. ~UNCHANGED holdings
    BY <1>3, <1>8
  <2>2. Save(w) \/ SaveAgain(w) \/ DeleteHoldings(w) \/ StatementUnanswered(w)
    BY <1>5, <1>8, <2>1 DEF Step
  <2>3. \/ pc[w] \in AtSave /\ SaveHoldings(w)
        \/ AtRemoval(w) /\ DeleteRows(w)
    BY <1>6, <2>1, <2>2
  <2> QED
    BY <1>1, <1>2, <1>8, <2>3
<1> QED
  BY <1>3, <1>4, <1>7, <1>8 DEF Next

(* Saving what the bucket holds indexes it.                                *)
LEMMA ReadingSaved ==
  ASSUME IndexInv, NEW w \in Workers, pc[w] \in AtSave, SaveHoldings(w),
         NEW k \in Keys, Current(w).key = k, object[k] # Absent,
         object'[k] = object[k], h[w] = Reading(object[k]),
         h[w].stream \in stream \/ Indexed(k)
  PROVE  Indexed(k)'
<1>1. h[w].stream \in AllStreams
  BY DEF IndexInv, TypeOK, Holding
<1>2. CASE h[w].stream \in stream
  <2>1. holdings'[h[w].stream][k] = [content |-> h[w].content, error |-> h[w].error]
    BY <1>1, <1>2 DEF SaveHoldings, IndexInv, TypeOK
  <2>2. CASE object[k] \in Corrupt
    BY <2>1, <2>2 DEF Indexed, Reading, ErrorHolding
  <2>3. CASE object[k] \notin Corrupt
    <3>1. /\ h[w].stream = StreamOf[object[k]]
          /\ h[w].content = object[k] /\ h[w].error = FALSE
      BY <2>3 DEF Reading
    <3> QED
      BY <2>1, <2>3, <3>1 DEF Indexed
  <2> QED
    BY <2>2, <2>3
<1>3. CASE h[w].stream \notin stream
  BY <1>3 DEF SaveHoldings, Indexed
<1> QED
  BY <1>2, <1>3

(* What is indexed and not changed in the bucket remains indexed.          *)
LEMMA SafelyIndexedStep ==
  ASSUME IndexInv, ReadsFail = FALSE, [Next]_vars,
         NEW k \in Keys, object[k] # Absent, object'[k] = object[k],
         ~RemovalLeft(k), SafelyIndexed(k)
  PROVE  SafelyIndexed(k)'
<1>1. Indexed(k)'
  <2>1. CASE RowsKept(k)
    <3>1. NoStream \in AllStreams /\ StreamOf[object[k]] \in AllStreams
      BY HoldingsAssumption DEF AllStreams, IndexInv, TypeOK
    <3> QED
      BY <2>1, <3>1 DEF RowsKept, SafelyIndexed, Indexed
  <2>2. ASSUME NEW w \in Workers, Current(w).key = k, pc[w] \in AtSave, SaveHoldings(w)
        PROVE  Indexed(k)'
    BY <2>2, ReadingSaved DEF SafelyIndexed
  <2> QED
    BY <2>1, <2>2, RowsStep, RemovalIsLeft
<1>2. ASSUME NEW w \in Workers, pc'[w] \in AtSave, Current(w)'.key = k
      PROVE  h'[w] = Reading(object[k])
  <2>1. HandKept(w)
    BY <1>2, HandsStep
  <2>2. Current(w).key = k
    BY <1>2, <2>1 DEF HandKept, Current
  <2> QED
    BY <2>1, <2>2, ReadsCurrent DEF HandKept, SafelyIndexed
<1>3. Reading(object[k])' = Reading(object[k])
  BY DEF Reading
<1> QED
  BY <1>1, <1>2, <1>3 DEF SafelyIndexed

(* A pending notification remains so, or its object is indexed.            *)
LEMMA FreshStep ==
  ASSUME SingleWorker, IndexInv, SourceInv, ReadsFail = FALSE, [Next]_vars,
         NEW k \in Keys, object[k] # Absent, object'[k] = object[k],
         NEW m \in Messages, NEW i \in Nat, Fresh(m, i, k)
  PROVE  Fresh(m, i, k)' \/ SafelyIndexed(k)'
<1>1. Pending(m, i, Creation(k)) /\ Creation(k).key = k
  BY DEF Fresh, Creation
<1>2. Reading(object[k])' = Reading(object[k])
  BY DEF Reading
<1>3. CASE Pending(m, i, Creation(k))'
  <2>1. ASSUME NEW w \in Workers, job'[w] = m, rec'[w] = i, pc'[w] \in AtSave
        PROVE  h'[w] = Reading(object[k])
    <3>1. HandKept(w)
      BY <2>1, HandsStep
    <3>2. job[w] = m /\ rec[w] = i
      BY <2>1, <3>1 DEF HandKept
    <3>3. Current(w).key = k
      BY <1>1, <3>2, HeldRecord
    <3> QED
      BY <3>1, <3>2, <3>3, ReadsCurrent DEF HandKept, Fresh
  <2> QED
    BY <1>2, <1>3, <2>1 DEF Fresh, Creation
<1>4. ASSUME NEW w \in Workers, job[w] = m, rec[w] = i, Current(w) = Creation(k),
             Save(w) \/ SaveAgain(w) \/ DeleteHoldings(w), NextRecord(w)
      PROVE  SafelyIndexed(k)'
  <2>1. Save(w) \/ SaveAgain(w)
    BY <1>4 DEF DeleteHoldings, AtRemoval, Creation
  <2>2. pc[w] \in AtSave /\ SaveHoldings(w)
    BY <2>1 DEF Save, SaveAgain, AtSave
  <2>3. pc'[w] \in {"record", "ack"}
    BY <1>4 DEF NextRecord, AfterRecord, IndexInv, TypeOK
  <2>4. h[w].stream \in stream
    <3>1. CASE Save(w)
      BY <2>3, <3>1 DEF Save, IndexInv, TypeOK
    <3>2. CASE SaveAgain(w)
      BY <3>2 DEF SaveAgain, IndexInv, HandInv
    <3> QED
      BY <2>1, <3>1, <3>2
  <2>5. h[w] = Reading(object[k])
    BY <1>4, <2>2 DEF Fresh
  <2>6. Indexed(k)'
    BY <1>1, <1>4, <2>2, <2>4, <2>5, ReadingSaved
  <2> QED
    BY <2>3, <2>6 DEF SafelyIndexed, SingleWorker, AtSave
<1> QED
  BY <1>1, <1>3, <1>4, PendingStep

(* An upload leaves its own notification pending.                          *)
LEMMA PutIsPending ==
  ASSUME IndexInv, SourceInv, NEW m \in Messages, NEW k \in Keys,
         NEW c \in Contents, Put(m, k, c)
  PROVE  Pending(m, 1, Creation(k))'
<1>1. Sends(m)
  BY DEF Sends
<1>2. queue'[m] = "visible" /\ \A w \in Workers : job'[w] # m
  BY <1>1, SentKinds, HoldingsAssumption DEF IndexInv, HandInv
<1>3. text'[m].records = <<Creation(k)>>
  BY DEF Put, SendRecords, SendText, Creation, IndexInv, TypeOK
<1> QED
  BY <1>2, <1>3 DEF Pending, Creation

LEMMA IndexedStep ==
  ASSUME SingleWorker, ReadsFail = FALSE, IndexInv, SourceInv, SettledInv, IndexedInv,
         [Next]_vars
  PROVE  IndexedInv'
<1> SUFFICES ASSUME NEW k \in Keys, k \in settled'
             PROVE  SafelyIndexed(k)' \/ \E m \in Messages, i \in Nat : Fresh(m, i, k)'
  <2>1. settled' \subseteq Keys
    BY IndexInvStep DEF IndexInv, TypeOK
  <2> QED
    BY <2>1 DEF IndexedInv
<1>1. ASSUME NEW m \in Messages, NEW c \in Contents, Put(m, k, c)
      PROVE  Fresh(m, 1, k)'
  <2>1. Pending(m, 1, Creation(k))'
    BY <1>1, PutIsPending
  <2>2. \A w \in Workers : job'[w] # m
    BY <1>1, SentKinds, HoldingsAssumption DEF Sends, IndexInv, HandInv
  <2> QED
    BY <2>1, <2>2 DEF Fresh, Creation
<1>2. CASE k \in settled /\ object'[k] = object[k]
  <2>1. object[k] # Absent /\ ~RemovalLeft(k)
    BY <1>2 DEF SettledInv
  <2>2. CASE SafelyIndexed(k)
    BY <1>2, <2>1, <2>2, SafelyIndexedStep
  <2>3. ASSUME NEW m \in Messages, NEW i \in Nat, Fresh(m, i, k)
        PROVE  Fresh(m, i, k)' \/ SafelyIndexed(k)'
    BY <1>2, <2>1, <2>3, FreshStep
  <2> QED
    BY <1>2, <2>2, <2>3 DEF IndexedInv
<1> QED
  BY <1>1, <1>2, SettledFrom

(* With a single worker and reads that do not fail, an object that was     *)
(* uploaded when no removal of it was left is indexed as it is now in the  *)
(* bucket unless one of its notifications is still due, whatever was       *)
(* replaced, repeated, reordered or failed: no outdated reading is the     *)
(* last one to be saved.                                                   *)
THEOREM ObjectsIndexed ==
  ASSUME SingleWorker, ReadsFail = FALSE
  PROVE  Spec => []ObjectsAreIndexed
<1>1. Init => SourceInv /\ SettledInv /\ IndexedInv
  BY HoldingsAssumption DEF Init, SourceInv, SettledInv, IndexedInv, NoRecords
<1>2. IndexInv /\ SourceInv /\ SettledInv /\ IndexedInv /\ [Next]_vars
        => SourceInv' /\ SettledInv' /\ IndexedInv'
  BY SourceStep, SettledStep, IndexedStep
<1>3. IndexedInv => ObjectsAreIndexed
  BY DEF IndexedInv, SafelyIndexed, Fresh, Pending, ObjectsAreIndexed, Outstanding, Creation
<1> QED
  BY <1>1, <1>2, <1>3, IndexInvariant, PTL DEF Spec

-----------------------------------------------------------------------------
(* Any number of workers: what stays in the index                          *)

HasRow(k) == \E s \in AllStreams : holdings[s][k] # NoRow

(* While a settled object has no row, no worker has passed the record of   *)
(* one of its notifications.                                               *)
KnownInv ==
  \A k \in settled :
    HasRow(k) \/ \E m \in Messages, i \in Nat : Pending(m, i, Creation(k))

(* What saving does to a row: it stays or is the one that was in hand.     *)
LEMMA SavedRow ==
  ASSUME IndexInv, NEW w \in Workers, SaveHoldings(w),
         NEW s \in AllStreams, NEW k \in Keys, Current(w).key = k
  PROVE  IF s = h[w].stream /\ s \in stream
         THEN holdings'[s][k] = [content |-> h[w].content, error |-> h[w].error]
         ELSE holdings'[s][k] = holdings[s][k]
BY DEF SaveHoldings, IndexInv, TypeOK

LEMMA RowIsNotNoRow ==
  ASSUME IndexInv, NEW w \in Workers
  PROVE  [content |-> h[w].content, error |-> h[w].error] # NoRow
<1>1. [content |-> h[w].content, error |-> h[w].error] \in Row
  BY DEF IndexInv, TypeOK, Holding, Row
<1> QED
  BY <1>1, HoldingsAssumption

(* A key of which no removal is left keeps some row.                       *)
LEMMA HasRowStays ==
  ASSUME IndexInv, [Next]_vars, NEW k \in Keys, ~RemovalLeft(k), HasRow(k)
  PROVE  HasRow(k)'
<1>1. CASE RowsKept(k)
  BY <1>1 DEF RowsKept, HasRow
<1>2. ASSUME NEW w \in Workers, Current(w).key = k, SaveHoldings(w)
      PROVE  HasRow(k)'
  BY <1>2, SavedRow, RowIsNotNoRow DEF HasRow
<1> QED
  BY <1>1, <1>2, RowsStep, RemovalIsLeft

(* A worker that gets past a created record leaves a row.                  *)
LEMMA PassedHasRow ==
  ASSUME IndexInv, NEW w \in Workers, NEW k \in Keys, Current(w) = Creation(k),
         Save(w) \/ SaveAgain(w) \/ DeleteHoldings(w), NextRecord(w)
  PROVE  HasRow(k)'
<1>1. Save(w) \/ SaveAgain(w)
  BY DEF DeleteHoldings, AtRemoval, Creation
<1>2. pc'[w] \in {"record", "ack"}
  BY DEF NextRecord, AfterRecord, IndexInv, TypeOK
<1>3. h[w].stream \in stream /\ SaveHoldings(w)
  <2>1. CASE Save(w)
    BY <1>2, <2>1 DEF Save, IndexInv, TypeOK
  <2>2. CASE SaveAgain(w)
    BY <2>2 DEF SaveAgain, IndexInv, HandInv
  <2> QED
    BY <1>1, <2>1, <2>2
<1>4. Current(w).key = k
  BY DEF Creation
<1>5. PICK s \in AllStreams : s = h[w].stream
  BY <1>3 DEF IndexInv, TypeOK
<1>6. holdings'[s][k] = [content |-> h[w].content, error |-> h[w].error]
  BY <1>3, <1>4, <1>5, SavedRow
<1>7. holdings'[s][k] # NoRow
  BY <1>6, RowIsNotNoRow
<1> QED
  BY <1>5, <1>7 DEF HasRow

LEMMA KnownStep ==
  ASSUME IndexInv, SourceInv, SettledInv, KnownInv, [Next]_vars
  PROVE  KnownInv'
<1> SUFFICES ASSUME NEW k \in Keys, k \in settled'
             PROVE  \/ HasRow(k)'
                    \/ \E m \in Messages, i \in Nat : Pending(m, i, Creation(k))'
  <2>1. settled' \subseteq Keys
    BY IndexInvStep DEF IndexInv, TypeOK
  <2> QED
    BY <2>1 DEF KnownInv, Creation
<1>1. ASSUME NEW m \in Messages, NEW c \in Contents, Put(m, k, c)
      PROVE  Pending(m, 1, Creation(k))'
  BY <1>1, PutIsPending
<1>2. CASE k \in settled
  <2>1. ~RemovalLeft(k)
    BY <1>2 DEF SettledInv
  <2>2. CASE HasRow(k)
    BY <2>1, <2>2, HasRowStays
  <2>3. ASSUME NEW m \in Messages, NEW i \in Nat, Pending(m, i, Creation(k))
        PROVE  Pending(m, i, Creation(k))' \/ HasRow(k)'
    <3>1. PICK r : r = Creation(k)
      OBVIOUS
    <3>2. Pending(m, i, r)' => Pending(m, i, Creation(k))'
      BY <3>1 DEF Creation
    <3> QED
      BY <2>3, <3>1, <3>2, PendingStep, PassedHasRow
  <2> QED
    BY <1>2, <2>2, <2>3 DEF KnownInv
<1> QED
  BY <1>1, <1>2, SettledFrom

(* However many workers and failing reads there are, an object that was    *)
(* uploaded when no removal of it was left has a row or a notification     *)
(* that is still due.                                                      *)
THEOREM ObjectsKnown == Spec => []ObjectsAreKnown
<1>1. Init => SourceInv /\ SettledInv /\ KnownInv
  BY HoldingsAssumption DEF Init, SourceInv, SettledInv, KnownInv, NoRecords
<1>2. IndexInv /\ SourceInv /\ SettledInv /\ KnownInv /\ [Next]_vars
        => SourceInv' /\ SettledInv' /\ KnownInv'
  BY SourceStep, SettledStep, KnownStep
<1>3. KnownInv => ObjectsAreKnown
  BY DEF KnownInv, HasRow, Pending, ObjectsAreKnown, Outstanding, Creation
<1> QED
  BY <1>1, <1>2, <1>3, IndexInvariant, PTL DEF Spec

LEMMA SearchableStep ==
  ASSUME IndexInv, [Next]_vars, NEW s \in Streams, NEW k \in Keys,
         Searchable(s, k), ~RemovalLeft(k)
  PROVE  Searchable(s, k)'
<1>1. s \in AllStreams /\ s # NoStream
  BY HoldingsAssumption DEF AllStreams
<1>2. CASE RowsKept(k)
  BY <1>1, <1>2 DEF RowsKept, Searchable
<1>3. ASSUME NEW w \in Workers, Current(w).key = k, SaveHoldings(w)
      PROVE  Searchable(s, k)'
  <2>1. CASE s = h[w].stream /\ s \in stream
    <3>1. ~h[w].error
      BY <1>1, <2>1 DEF IndexInv, FiledInv, Filed
    <3>2. holdings'[s][k] = [content |-> h[w].content, error |-> h[w].error]
      BY <1>1, <1>3, <2>1, SavedRow
    <3>3. holdings'[s][k] # NoRow
      BY <3>2, RowIsNotNoRow
    <3>4. holdings'[s][k].error = h[w].error
      BY <3>2
    <3> QED
      BY <3>1, <3>3, <3>4 DEF Searchable
  <2>2. CASE ~(s = h[w].stream /\ s \in stream)
    <3>1. holdings'[s][k] = holdings[s][k]
      BY <1>1, <1>3, <2>2, SavedRow
    <3> QED
      BY <3>1 DEF Searchable
  <2> QED
    BY <2>1, <2>2
<1> QED
  BY <1>2, <1>3, RowsStep, RemovalIsLeft

(* The searchable row of the file that is in the bucket now is not lost to *)
(* a read of it that fails, nor to a worker that saves another file of its *)
(* key late.                                                               *)
THEOREM SearchableStay == Spec => UnchangedStaySearchable
<1>1. Init => SourceInv /\ SettledInv
  BY HoldingsAssumption DEF Init, SourceInv, SettledInv, NoRecords
<1>2. IndexInv /\ SourceInv /\ SettledInv /\ [Next]_vars => SourceInv' /\ SettledInv'
  BY SourceStep, SettledStep
<1>3. IndexInv /\ SettledInv /\ [Next]_vars =>
        [\A k \in settled, s \in Streams :
           Searchable(s, k) /\ holdings[s][k].content = object[k] =>
             Searchable(s, k)']_vars
  BY SearchableStep DEF SettledInv, IndexInv, TypeOK
<1> QED
  BY <1>1, <1>2, <1>3, IndexInvariant, PTL DEF Spec, UnchangedStaySearchable

=============================================================================
