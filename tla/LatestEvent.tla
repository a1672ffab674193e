---------------------------- MODULE LatestEvent ----------------------------
(***************************************************************************)
(* What the quake consumer promises its readers, without queues, workers   *)
(* or transactions: the event table holds, for every event, the latest     *)
(* information of all the notifications that have been acknowledged        *)
(* ("we want the latest information only in the event table", comment in   *)
(* cmd/fdsn-quake-consumer/sc3ml.go).                                      *)
(***************************************************************************)
EXTENDS Naturals

CONSTANTS
  Notices,      (* the notifications                                       *)
  Events,       (* public ids                                              *)
  Versions,     (* the stored versions of SeisComPML objects               *)
  NoRow,        (* the value of an event that is not in the table          *)
  EventOf(_),   (* the event a version is about                            *)
  ModOf(_),     (* its modification time                                   *)
  Announces(_)  (* the versions a notification names                       *)

VARIABLES
  table,        (* the version stored for each event                       *)
  acknowledged  (* the notifications that were taken off the queue         *)

vars == <<table, acknowledged>>

(* The table knows about version v, or about something as recent.          *)
Reflects(v) ==
  /\ table[EventOf(v)] # NoRow
  /\ ModOf(table[EventOf(v)]) >= ModOf(v)

Init ==
  /\ table = [e \in Events |-> NoRow]
  /\ acknowledged = {}

(* Version v replaces what is stored for its event, never by older         *)
(* information.                                                            *)
Record(v) ==
  /\ table[EventOf(v)] # NoRow => ModOf(table[EventOf(v)]) <= ModOf(v)
  /\ table' = [table EXCEPT ![EventOf(v)] = v]
  /\ UNCHANGED acknowledged

(* A notification is acknowledged once all it announces is reflected.      *)
Acknowledge(m) ==
  /\ \A v \in Announces(m) : Reflects(v)
  /\ acknowledged' = acknowledged \cup {m}
  /\ UNCHANGED table

Next ==
  \/ \E v \in Versions : Record(v)
  \/ \E m \in Notices : Acknowledge(m)

Spec == Init /\ [][Next]_vars

=============================================================================
