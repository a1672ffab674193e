--------------------------- MODULE ServedMetadata --------------------------
(***************************************************************************)
(* What the station cache promises a station query, without S3, stamps,    *)
(* ticks, locks and copies: the metadata is a register that holds one      *)
(* well-formed version at a time and only moves forwards while the server  *)
(* is up, and a query is answered from what it holds at one moment.        *)
(***************************************************************************)
EXTENDS Naturals

CONSTANTS
  Requests,     (* station queries that may run at the same time           *)
  Queries,      (* the sets of networks that a query may select            *)
  Versions,     (* the versions of the metadata, numbers in their order    *)
  Nothing       (* no metadata: the server is down; also no answer         *)

VARIABLES
  offered,      (* the well-formed versions there have been                *)
  served,       (* the one that requests are answered from                 *)
  answer        (* what each request that is underway is answered          *)

vars == <<offered, served, answer>>

Init ==
  /\ offered \in SUBSET Versions
  /\ served = Nothing
  /\ answer = [r \in Requests |-> Nothing]

Offer(v) ==
  /\ offered' = offered \cup {v}
  /\ UNCHANGED <<served, answer>>

(* A version that was skipped is not gone back to.                         *)
Serve(v) ==
  /\ v \in offered
  /\ served # Nothing => served <= v
  /\ served' = v
  /\ UNCHANGED <<offered, answer>>

(* All the networks that query q selects, of one version.                  *)
Answer(r, q) ==
  /\ served # Nothing
  /\ answer[r] = Nothing
  /\ answer' = [answer EXCEPT ![r] = [version |-> served, networks |-> q]]
  /\ UNCHANGED <<offered, served>>

Finish(r) ==
  /\ answer' = [answer EXCEPT ![r] = Nothing]
  /\ UNCHANGED <<offered, served>>

(* The server ends, and with it the requests.                              *)
Fail ==
  /\ served' = Nothing
  /\ answer' = [r \in Requests |-> Nothing]
  /\ UNCHANGED offered

Next ==
  \/ \E v \in Versions : Offer(v) \/ Serve(v)
  \/ \E r \in Requests : (\E q \in Queries : Answer(r, q)) \/ Finish(r)
  \/ Fail

Spec == Init /\ [][Next]_vars

=============================================================================
