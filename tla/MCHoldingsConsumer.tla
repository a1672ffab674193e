------------------------- MODULE MCHoldingsConsumer ------------------------
(***************************************************************************)
(* Instances of HoldingsConsumer for TLC: two good contents of different   *)
(* streams, a corrupt file and an empty one.                               *)
(***************************************************************************)
EXTENDS HoldingsConsumer, TLC

(* Messages are interchangeable before they are sent.                      *)
Perms == Permutations(Messages)

MCContents == {"c1", "c2", "short", "empty"}
MCCorrupt == {"short"}
MCStreams == {"s1", "s2"}
MCStreamOf == [c \in MCContents |->
  CASE c \in {"c1", "short"} -> "s1" [] c = "c2" -> "s2" [] OTHER -> "none"]
FewContents == {"c1", "c2", "short"}
FewStreamOf == [c \in FewContents |-> MCStreamOf[c]]

=============================================================================
