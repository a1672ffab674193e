--------------------------- MODULE MCStationCache --------------------------
(***************************************************************************)
(* An instance of StationCache for TLC.                                    *)
(***************************************************************************)
EXTENDS StationCache

MCNetworks == {"NZ", "IU"}
MCQueries == {{"NZ"}, {"IU"}}

=============================================================================
