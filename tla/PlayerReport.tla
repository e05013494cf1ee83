----------------------------- MODULE PlayerReport -----------------------------
(***************************************************************************)
(* The agreement between the metrics sidecar and the operator on the       *)
(* player count in the CR's status.  While the CR lives, the count changes *)
(* only when the sidecar reports one, and what it reports is a count the   *)
(* game server had when it was asked; zero for a server with players takes *)
(* an answer that was lost.  A report may be old when it arrives.          *)
(***************************************************************************)
EXTENDS Integers

VARIABLES online,   \* players connected to the game server
          lately,   \* counts it has had since it was last asked, the present one included
          sample,   \* count not yet reported, NoSample if there is none
          reported, \* the count in the CR's status
          server,   \* the CR that status belongs to
          lost      \* answers and reports that did not arrive so far

vars == <<online, lately, sample, reported, server, lost>>

NoSample == -1

Init == /\ online = 0 /\ lately = {0}
        /\ sample = NoSample /\ reported = 0
        /\ lost = 0

\* The game server is asked anew, or what it has now is one more count since then.
Ages == online' \in lately' /\ lately' \subseteq lately \cup {online'}

\* Players come and go one at a time, or all at once when the server stops; the
\* sidecar may stop with it.
Join == online' = online + 1 /\ UNCHANGED <<sample, reported, server, lost>>
Leave == online > 0 /\ online' = online - 1 /\ UNCHANGED <<sample, reported, server, lost>>
Stop == online' = 0 /\ sample' \in {sample, NoSample} /\ UNCHANGED <<reported, server, lost>>

Ask == UNCHANGED <<online, sample, reported, server, lost>>

Scrape == sample = NoSample /\ sample' = online /\ UNCHANGED <<online, reported, server, lost>>

\* A server that was down or empty meanwhile is counted as empty, and so is one whose
\* answer, or whose sample, is lost.
ScrapeFails ==
  /\ sample' = 0
  /\ \/ 0 \in lately /\ UNCHANGED lost
     \/ lost' = lost + 1
  /\ UNCHANGED <<online, reported, server>>

Patch ==
  /\ sample # NoSample
  /\ reported' = sample /\ sample' = NoSample
  /\ UNCHANGED <<online, server, lost>>

\* The report is lost, superfluous or meant for a CR that is gone.
Drop == sample' = NoSample /\ lost' \in {lost, lost + 1} /\ UNCHANGED <<online, reported, server>>

\* The CR goes, or another takes its place; nothing else takes a count back.
Replace == server' # server /\ reported' = 0 /\ UNCHANGED <<online, sample, lost>>

Act == Join \/ Leave \/ Stop \/ Ask \/ Scrape \/ ScrapeFails \/ Patch \/ Drop \/ Replace

Next == Act /\ Ages

Spec == Init /\ [][Next]_vars
=============================================================================
