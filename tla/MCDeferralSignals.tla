--------------------------- MODULE MCDeferralSignals ---------------------------
(* Small instances of DeferralSignals for TLC.                              *)
EXTENDS DeferralSignals, TLC

Bounds(f, n) == f @@ [k \in EventKind |-> n]

SignalBudget == Bounds("players" :> 2 @@ "window" :> 2, 1)

WindowBudget == Bounds("players" :> 1 @@ "window" :> 1 @@ "fault" :> 1, 0)
SeriesBudget == Bounds("pod" :> 1 @@ "secret" :> 2 @@ "delete" :> 1 @@ "lost" :> 1, 0)
=============================================================================
