-------------------------- MODULE MCQuakeConsumer --------------------------
(***************************************************************************)
(* Instances of QuakeConsumer for TLC.  One event with two versions of its *)
(* object and another event, a broken object, and messages of each kind.   *)
(***************************************************************************)
EXTENDS QuakeConsumer

At(k, v) == [key |-> k, version |-> v]
Records(s) == [kind |-> "records", records |-> s]
OtherText == [kind |-> "other", records |-> <<>>]
BrokenText == [kind |-> "malformed", records |-> <<>>]

MCKeys == {"k1", "k2"}
MCEvents == {"e1", "e2"}
MCVersions == {"v1", "v2", "v3", "bad"}
MCUpload == [v \in MCVersions |->
  CASE v = "v1" -> [key |-> "k1", event |-> "e1", mod |-> 1, valid |-> TRUE]
    [] v = "v2" -> [key |-> "k1", event |-> "e1", mod |-> 2, valid |-> TRUE]
    [] v = "v3" -> [key |-> "k2", event |-> "e2", mod |-> 1, valid |-> TRUE]
    [] OTHER    -> [key |-> "k2", event |-> "e1", mod |-> 3, valid |-> FALSE]]

(* Two versions of one event in messages of two records, one of them       *)
(* without a version, and a text that is not a notification.               *)
MixedMessages == {"m1", "m2", "m3"}
MixedBody == [m \in MixedMessages |->
  CASE m = "m1" -> Records(<<At("k1", "v1"), At("k1", "v2")>>)
    [] m = "m2" -> Records(<<At("k1", "v2"), At("k2", "none")>>)
    [] OTHER    -> OtherText]

(* Two updates of one event and a text that is not JSON.                   *)
RaceMessages == {"m1", "m2", "m3"}
RaceBody == [m \in RaceMessages |->
  CASE m = "m1" -> Records(<<At("k1", "v1")>>)
    [] m = "m2" -> Records(<<At("k1", "v2")>>)
    [] OTHER    -> BrokenText]

=============================================================================
