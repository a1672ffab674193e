---------------------------- MODULE MCDataselect ---------------------------
(***************************************************************************)
(* Instances of Dataselect for TLC.  Times are 0 .. 5, a day is 2 long and *)
(* half an hour 1.                                                         *)
(***************************************************************************)
EXTENDS Dataselect

MCNetworkOf == [s \in {"nz", "iu"} |-> IF s = "nz" THEN "NZ" ELSE "IU"]
MCStreamOf == [k \in {"k1", "k2"} |-> IF k = "k1" THEN "nz" ELSE "iu"]

Rec(a, b) == [from |-> a, to |-> b]

(* A day of two records, a later and shorter file, and one that breaks off *)
(* after its first record.                                                 *)
MCFiles == {<<Rec(1, 2), Rec(2, 3)>>, <<Rec(3, 4)>>, <<Rec(1, 2), Garbled>>}

Ask(n, ss, a, b) ==
  [network |-> n, streams |-> ss, valid |-> TRUE, hopeless |-> FALSE,
   start |-> a, end |-> b]
Short == Ask("NZ", {"nz"}, 2, 3)
AnyShort == Ask("any", {"nz", "iu"}, 2, 3)
Long == Ask("any", {"nz", "iu"}, 1, 4)
Snzo == Ask("IU SNZO", {"iu"}, 1, 2)
Other == Ask("other", {"iu"}, 0, 5)
Before == Ask("any", {"nz", "iu"}, 0, 1)
Backwards == Ask("NZ", {"nz"}, 3, 2)

L(q) == [kind |-> "query", query |-> q]
NoDataLine(c) == [kind |-> "nodata", code |-> c]

MCGets ==
  {[query |-> q, noData |-> 204] : q \in {Short, Long, [Short EXCEPT !.valid = FALSE]}} \cup
  {[query |-> Before, noData |-> 404]}
MCPosts == {
  <<L(Short), L(Snzo)>>, <<L(AnyShort), L(Short)>>, <<L(Snzo), L(Long)>>, <<L(Other), L(Short)>>,
  <<L(Long), L([Short EXCEPT !.hopeless = TRUE])>>, <<L(Short), L(Backwards)>>,
  <<NoDataLine(404), L(Before)>>, <<L(Before), NoDataLine(404)>>,
  <<NoDataLine(500), L(Short)>>, <<L(Short), [kind |-> "junk"]>>, <<>>,
  <<L(Short), L(Short), L(Short)>> }

=============================================================================
