------------------------- MODULE NotificationQueue -------------------------
(***************************************************************************)
(* The SQS queue between the S3 bucket and a consumer, as the two          *)
(* consumers use it through vendor/github.com/GeoNet/kit/aws/sqs:          *)
(* ReceiveWithContext takes one message and hides it for a visibility      *)
(* timeout, Delete removes it by its receipt, and a message that is not    *)
(* deleted in time is delivered again.  The comment on sqs.Receive asks    *)
(* applications to "handle duplicate or out of order messages": any        *)
(* visible message may be delivered next.  After MaxReceives deliveries    *)
(* the redrive policy moves the message to the dead-letter queue that the  *)
(* consumers' comments call the DLQ.  The service itself is external.      *)
(***************************************************************************)
EXTENDS Naturals

CONSTANTS
  Messages,     (* the messages that are ever sent to the queue            *)
  MaxReceives   (* deliveries of one message before it goes to the DLQ     *)

ASSUME QueueAssumption == MaxReceives \in Nat \ {0}

VARIABLES
  queue,        (* where each message is                                   *)
  receives      (* how often each message has been delivered               *)

queueVars == <<queue, receives>>

Places == {"unsent", "visible", "inflight", "deleted", "dlq"}

QueueTypeOK ==
  /\ queue \in [Messages -> Places]
  /\ receives \in [Messages -> 0 .. MaxReceives]

QueueInit ==
  /\ queue = [m \in Messages |-> "unsent"]
  /\ receives = [m \in Messages |-> 0]

(* S3, or the s3-notify command, sends message m.                          *)
Send(m) ==
  /\ queue[m] = "unsent"
  /\ queue' = [queue EXCEPT ![m] = "visible"]
  /\ UNCHANGED receives

(* A consumer's receive call returns m, which is then in flight.           *)
Deliver(m) ==
  /\ queue[m] = "visible"
  /\ receives[m] < MaxReceives
  /\ queue' = [queue EXCEPT ![m] = "inflight"]
  /\ receives' = [receives EXCEPT ![m] = @ + 1]

(* The visibility timeout of m ends.  Nothing tells the consumer: it may   *)
(* still be processing m.                                                  *)
Expire(m) ==
  /\ queue[m] = "inflight"
  /\ queue' = [queue EXCEPT
       ![m] = IF receives[m] < MaxReceives THEN "visible" ELSE "dlq"]
  /\ UNCHANGED receives

(* A consumer deletes m with a receipt it holds.  The receipt may be older *)
(* than the last delivery of m.                                            *)
Remove(m) ==
  /\ queue' = [queue EXCEPT
       ![m] = IF @ \in {"visible", "inflight"} THEN "deleted" ELSE @]
  /\ UNCHANGED receives

(* m needs no more work by a consumer.                                     *)
Settled(m) == queue[m] \in {"deleted", "dlq"}

=============================================================================
