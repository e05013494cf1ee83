--------------------------- MODULE MCMetricsSidecar ---------------------------
(* A small instance of MetricsSidecar for TLC.                              *)
EXTENDS MetricsSidecar, TLC

MCVersion == {<<49>>, <<49, 46, 50>>}

\* Strings of several lengths, an application id whose bytes look like counts, and zeros
\* among the flags.
MCBanner == [protocol |-> 17, name |-> <<69, 110>>, mapName |-> <<>>, folder |-> <<101>>,
             game |-> <<69>>, appID |-> <<1, 2>>, players |-> 0, maxPlayers |-> 16,
             flags |-> <<0, 100, 108, 0, 1>>, version |-> <<>>, extra |-> <<0, 7>>]

\* Two joins, one stop of the game server, and one failure of each kind.
SidecarBudget == "join" :> 2 @@ [k \in EventKind |-> 1]
=============================================================================
