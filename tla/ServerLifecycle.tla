--------------------------- MODULE ServerLifecycle ---------------------------
(***************************************************************************)
(* What the operator promises about one server, without caches, queues or  *)
(* retries: a server is pinned by a finalizer before anything is made for  *)
(* it, leaves only after it was asked to, and takes its StatefulSet along. *)
(* Save data is made for a pinned server and outlives it; it is discarded  *)
(* neither under a running server nor on its own account.                  *)
(***************************************************************************)
VARIABLES stage,  \* where the server is in its life
          child,  \* it has a StatefulSet of its own
          data    \* a savegame volume exists under its name

vars == <<stage, child, data>>

Stage == {"absent", "new", "pinned", "leaving"}

Init == stage = "absent" /\ child = FALSE /\ data = FALSE

Create == stage = "absent" /\ stage' = "new" /\ UNCHANGED <<child, data>>

Pin == stage = "new" /\ stage' = "pinned" /\ UNCHANGED <<child, data>>

\* The user deletes the server: a pinned one waits for the operator.
Delete ==
  /\ \/ stage = "new" /\ stage' = "absent"
     \/ stage = "pinned" /\ stage' = "leaving"
  /\ UNCHANGED <<child, data>>

\* The operator lets it go, and its StatefulSet with it.
Release == stage = "leaving" /\ stage' = "absent" /\ child' = FALSE /\ UNCHANGED data

\* A reconcile under way when the deletion arrives may still make something.
Held == stage \in {"pinned", "leaving"}

GainChild == Held /\ ~child /\ child' = TRUE /\ UNCHANGED <<stage, data>>

LoseChild == child /\ child' = FALSE /\ UNCHANGED <<stage, data>>

GainData == Held /\ ~data /\ data' = TRUE /\ UNCHANGED <<stage, child>>

LoseData ==
  /\ data /\ (child => stage = "leaving")
  /\ data' = FALSE
  /\ UNCHANGED <<stage, child>>

Next == Create \/ Pin \/ Delete \/ Release \/ GainChild \/ LoseChild \/ GainData \/ LoseData

Spec == Init /\ [][Next]_vars
=============================================================================
