-------------------------- MODULE MCVerticalScaling --------------------------
(* Small instances of VerticalScaling for TLC.                              *)
EXTENDS VerticalScaling, TLC

\* A missing request, one CPU size above the spec's, one memory size on each side of it.
SmallRequests == [cpu : 0 .. 2, mem : 0 .. 3]

Sized == [mode |-> "WhenIdle", bounds |-> 1, requests |-> [cpu |-> 1, mem |-> 2],
          defer |-> FALSE]

AllModes == {[Sized EXCEPT !.mode = m, !.defer = d] : m \in Mode, d \in BOOLEAN}

\* Two edits pass through three modes; recommendations, players, a removed
\* StatefulSet and a failed call come in between.
ScalingBudget == "edit" :> 2 @@ "recommend" :> 1 @@ "players" :> 2 @@ "removeSTS" :> 1
                 @@ "fault" :> 1

WhenIdleSpecs == {Sized}
QuietBudget   == "edit" :> 0 @@ "recommend" :> 1 @@ "players" :> 1 @@ "removeSTS" :> 0
                 @@ "fault" :> 0
RemovalBudget == [QuietBudget EXCEPT !["removeSTS"] = 1]

\* Other bounds, and scaling switched off.
SwitchSpecs  == {Sized, [Sized EXCEPT !.bounds = 2], [Sized EXCEPT !.mode = "Disabled"]}
SwitchBudget == [QuietBudget EXCEPT !["edit"] = 1, !["recommend"] = 0, !["fault"] = 1]
=============================================================================
