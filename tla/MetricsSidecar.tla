---------------------------- MODULE MetricsSidecar ----------------------------
(***************************************************************************)
(* The metrics sidecar of one game server pod: every tick it asks the game *)
(* server for its player count over UDP, with a challenge handshake, sets  *)
(* its gauges and readiness, and patches the CR's status.  What it makes   *)
(* of the bytes of an answer is in A2SInfo.  The game server may restart   *)
(* with another version, answer late or not at all; calls to the API       *)
(* server may fail and the CR may be replaced under way.                   *)
(***************************************************************************)
EXTENDS A2SInfo

CONSTANTS Version,     \* game versions a start of the container may bring
          Banner,      \* what the server's answers say besides players and version
          MaxPlayers,  \* bound on connected players
          Budget       \* how often each kind of outside event may happen

EventKind == {"join", "stop", "late", "fault", "replace", "restart"}

None == <<>>

ASSUME SidecarVersions == Version \subseteq Text \ {None}
ASSUME SidecarBounds == MaxPlayers \in Byte /\ Budget \in [EventKind -> Nat]
ASSUME AnswersFit ==
  /\ Banner \in Fields
  /\ \A n \in 0 .. MaxPlayers, v \in Version :
       Len(Answer([Banner EXCEPT !.players = n, !.version = v])) <= BufferSize

VARIABLES game,      \* the game server process
          net,       \* datagrams under way on the sidecar's open socket
          pc,        \* where the scrape is
          answer,    \* what the query returned
          got,       \* the status of the CR as read before the patch
          status,    \* the status of the CR in the API server
          ready,     \* isUp, served by /readyz, and the server_up gauge
          active,    \* the active_players gauge
          previous,  \* version in previousInfo, None for nil
          series,    \* versions with a server_info series
          since,     \* history: what the server could have answered since the query began
          spent

vars == <<game, net, pc, answer, got, status, ready, active, previous, series, since, spent>>
metrics == <<ready, active, previous, series>>

Report == [players : 0 .. MaxPlayers, version : Version \cup {None}]
NoReport == [players |-> 0, version |-> None]

\* token: the challenge this process hands out; asks: whether it wants one at all.
Game == [up : BOOLEAN, players : 0 .. MaxPlayers, version : Version \cup {None},
         token : BOOLEAN, asks : BOOLEAN]

\* A challenge is four bytes; the first request of a query has a placeholder for it.
TokenBytes(t) == <<IF t THEN 1 ELSE 0, 0, 0, 0>>
NoChallenge   == a2sHeader

Request(c)   == [kind |-> "request", challenge |-> c]
Challenge(t) == [kind |-> "challenge", token |-> t]
Info(r)      == [kind |-> "info", report |-> r]

ServerPacket == {Challenge(t) : t \in BOOLEAN} \cup {Info(r) : r \in Report}
Packet == ServerPacket \cup {Request(c) : c \in {NoChallenge, TokenBytes(FALSE), TokenBytes(TRUE)}}

\* What the game server's packets are on the wire, and what the sidecar reads of them.
Wire(p) == IF p.kind = "challenge" THEN ChallengePacket(TokenBytes(p.token))
           ELSE Answer([Banner EXCEPT !.players = p.report.players, !.version = p.report.version])

Received == [p \in ServerPacket |-> ReadFrom(Wire(p))]
Parsed   == [p \in ServerPacket |-> parseA2SInfo(Received[p])]

Init ==
  /\ game \in {[up |-> FALSE, players |-> 0, version |-> None, token |-> FALSE, asks |-> a] :
                 a \in BOOLEAN}
  /\ net = {} /\ pc = "wait" /\ answer = NoReport /\ got = NoReport /\ status = NoReport
  /\ ready = FALSE /\ active = 0 /\ previous = None /\ series = {}
  /\ since = {} /\ spent = [k \in EventKind |-> 0]

Spend(kind) ==
  /\ spent[kind] < Budget[kind]
  /\ spent' = [spent EXCEPT ![kind] = @ + 1]

Now(g) == [players |-> g.players, version |-> g.version]

-----------------------------------------------------------------------------
(* The query.                                                               *)

\* WriteTo: a datagram to a port nobody listens on vanishes.
Sent(c) == IF game.up THEN {Request(c)} ELSE {}

\* scrape, queryA2SInfo: a socket of its own, and a first request without challenge.
Tick ==
  /\ pc = "wait"
  /\ pc' = "first"
  /\ net' = net \cup Sent(NoChallenge)
  /\ since' = {Now(game)}
  /\ UNCHANGED <<game, answer, got, status, metrics, spent>>

\* Mutant: the info series follows the map only.
SetInfoByMap(r) ==
  /\ previous' = r.version
  /\ series' = IF previous = None THEN series \cup {r.version} ELSE series

\* The server_info series moves when the labels differ from the previous answer.
SetInfo(r) ==
  /\ previous' = r.version
  /\ series' = IF previous = r.version THEN series
               ELSE (series \ {previous}) \cup {r.version}

\* The query returns an answer; closing the socket discards what is under way.
Succeed(r) ==
  /\ ready' = TRUE /\ active' = r.players /\ SetInfo(r)
  /\ answer' = r /\ pc' = "get"
  /\ net' = {}

\* Mutant: one socket for all queries.
FailSharing ==
  /\ ready' = FALSE /\ active' = 0 /\ previous' = None
  /\ answer' = NoReport /\ pc' = "get"
  /\ UNCHANGED <<net, series>>

\* Mutant: the labels of the failed query, all empty, get a series too.
FailLabelled ==
  /\ ready' = FALSE /\ active' = 0 /\ SetInfo(NoReport)
  /\ answer' = NoReport /\ pc' = "get"
  /\ net' = {}

\* The query fails: zero players, no version, and previousInfo is nil.
Fail ==
  /\ ready' = FALSE /\ active' = 0 /\ previous' = None
  /\ answer' = NoReport /\ pc' = "get"
  /\ net' = {}
  /\ UNCHANGED series

FromServer == {p \in net : p.kind # "request"}

\* Mutant: the second request carries the placeholder of the first.
ReceiveChallengeBlindly ==
  /\ pc = "first"
  /\ \E p \in FromServer :
       /\ IsChallenge(Received[p])
       /\ net' = (net \ {p}) \cup Sent(NoChallenge)
  /\ pc' = "second"
  /\ UNCHANGED <<game, answer, got, status, metrics, since, spent>>

\* A challenge to the first request is answered with a second one ...
ReceiveChallenge ==
  /\ pc = "first"
  /\ \E p \in FromServer :
       /\ IsChallenge(Received[p])
       /\ net' = (net \ {p}) \cup Sent(ChallengeIn(Received[p]))
  /\ pc' = "second"
  /\ UNCHANGED <<game, answer, got, status, metrics, since, spent>>

\* ... and everything else is for parseA2SInfo, which may refuse it ...
IsAnswer(p) == pc = "second" \/ (pc = "first" /\ ~IsChallenge(Received[p]))

ReceiveUnexpected ==
  /\ \E p \in FromServer : IsAnswer(p) /\ ~Parsed[p].ok
  /\ Fail
  /\ UNCHANGED <<game, got, status, since, spent>>

\* ... or not, whichever request it answers.
ReceiveInfo ==
  /\ \E p \in FromServer :
       /\ IsAnswer(p) /\ Parsed[p].ok
       /\ Succeed([players |-> Parsed[p].players, version |-> Parsed[p].version])
  /\ UNCHANGED <<game, got, status, since, spent>>

\* Three seconds pass: nothing is under way, or what is comes too late.
Timeout ==
  /\ pc \in {"first", "second"}
  /\ IF net = {} THEN UNCHANGED spent ELSE Spend("late")
  /\ Fail
  /\ UNCHANGED <<game, got, status, since>>

-----------------------------------------------------------------------------
(* patchServerStatus                                                        *)

\* The scrape is over and its locals are gone.
Done == pc' = "wait" /\ answer' = NoReport /\ got' = NoReport /\ since' = {}

\* Mutant: the version is left out of the comparison.
GetIgnoringVersion ==
  /\ pc = "get"
  /\ IF status.players = answer.players THEN Done
     ELSE pc' = "patch" /\ got' = status /\ UNCHANGED <<answer, since>>
  /\ UNCHANGED <<game, net, status, metrics, spent>>

\* The live CR is read; a patch that would change nothing is skipped.
Get ==
  /\ pc = "get"
  /\ IF status = answer THEN Done
     ELSE pc' = "patch" /\ got' = status /\ UNCHANGED <<answer, since>>
  /\ UNCHANGED <<game, net, status, metrics, spent>>

\* A merge patch carries only the fields that differ from the copy read.
Patch ==
  /\ pc = "patch"
  /\ status' = [status EXCEPT !.players = IF got.players = answer.players THEN @ ELSE answer.players,
                              !.version = IF got.version = answer.version THEN @ ELSE answer.version]
  /\ Done
  /\ UNCHANGED <<game, net, metrics, spent>>

\* Get or Patch fails: logged, and left to the next scrape.
CallFails ==
  /\ Spend("fault") /\ pc \in {"get", "patch"}
  /\ Done
  /\ UNCHANGED <<game, net, status, metrics>>

\* The sidecar's container restarts; its memory is gone.
SidecarRestarts ==
  /\ Spend("restart")
  /\ Done /\ net' = {}
  /\ ready' = FALSE /\ active' = 0 /\ previous' = None /\ series' = {}
  /\ UNCHANGED <<game, status>>

Sidecar == Tick \/ ReceiveChallenge \/ ReceiveUnexpected \/ ReceiveInfo \/ Timeout
           \/ Get \/ Patch \/ CallFails \/ SidecarRestarts

-----------------------------------------------------------------------------
(* The game server and the users.                                           *)

\* Every change of the game server is one more thing a query could be told.
GameBecomes(g) ==
  /\ game' = g
  /\ since' = IF pc \in {"first", "second"} THEN since \cup {Now(g)} ELSE since
  /\ UNCHANGED <<pc, answer, got, status, metrics>>

GameStarts(v) ==
  /\ ~game.up
  /\ GameBecomes([game EXCEPT !.up = TRUE, !.version = v, !.token = ~@])
  /\ UNCHANGED <<net, spent>>

\* Requests it has not read are lost with it; its answers are not.
GameStops ==
  /\ Spend("stop") /\ game.up
  /\ GameBecomes([game EXCEPT !.up = FALSE, !.players = 0, !.version = None])
  /\ net' = {p \in net : p.kind # "request"}

Join ==
  /\ Spend("join") /\ game.up /\ game.players < MaxPlayers
  /\ GameBecomes([game EXCEPT !.players = @ + 1])
  /\ UNCHANGED net

Leave ==
  /\ game.players > 0
  /\ GameBecomes([game EXCEPT !.players = @ - 1])
  /\ UNCHANGED <<net, spent>>

\* A server that wants a challenge answers only the one it handed out.
GameAnswers ==
  /\ \E p \in net :
       /\ p.kind = "request"
       /\ net' = (net \ {p}) \cup
                 {IF game.asks /\ p.challenge # TokenBytes(game.token) THEN Challenge(game.token)
                  ELSE Info(Now(game))}
  /\ UNCHANGED <<game, pc, answer, got, status, metrics, since, spent>>

\* The CR is deleted and created again.
CRReplaced ==
  /\ Spend("replace")
  /\ status' = NoReport
  /\ UNCHANGED <<game, net, pc, answer, got, metrics, since>>

Next == Sidecar \/ GameStops \/ Join \/ Leave \/ GameAnswers \/ CRReplaced
        \/ \E v \in Version : GameStarts(v)

\* The query waits on its socket, and the game server has sent something.
Unread == pc \in {"first", "second"} /\ FromServer # {}

\* The ticker, the socket and the API server keep working, no packet that has arrived
\* stays unread, and a game server that is up reads its requests.
Fairness == /\ WF_vars(Tick) /\ WF_vars(GameAnswers) /\ WF_vars(Get) /\ WF_vars(Patch)
            /\ []<>~Unread
            /\ WF_vars(net = {} /\ Timeout)

Spec == Init /\ [][Next]_vars

FairSpec == Spec /\ Fairness

-----------------------------------------------------------------------------
(* Properties.                                                              *)

TypeOK ==
  /\ game \in Game /\ pc \in {"wait", "first", "second", "get", "patch"}
  /\ net \subseteq Packet
  /\ answer \in Report /\ got \in Report /\ status \in Report
  /\ ready \in BOOLEAN /\ active \in 0 .. MaxPlayers
  /\ previous \in Version \cup {None} /\ series \subseteq Version
  /\ since \subseteq Report /\ spent \in [EventKind -> Nat]

\* A successful scrape reports what was true of the game server at some moment of
\* that very query: an answer to an earlier, abandoned query is never counted.
AnswersAreTimely == pc \in {"get", "patch"} /\ ready => answer \in since

\* While the server is up, /metrics has a server_info series for the version it
\* last answered with, across failed queries, new versions and restarts.
InfoSeriesPresent == pc = "wait" /\ ready => previous \in series

\* When the game server stays up or down, players stop coming and going, and calls
\* stop failing, readiness and the CR's status end up saying so.
StatusConverges ==
  <>[](/\ ready = game.up /\ active = game.players
       /\ status = Now(game))

\* The count under way from the game server to the CR, -1 if there is none.
Counted ==
  IF pc \in {"get", "patch"} THEN answer.players
  ELSE IF \E p \in net : p.kind = "info"
       THEN (CHOOSE p \in net : p.kind = "info").report.players
       ELSE -1

\* What a query under way could be told, the present count if there is none.
Lately == IF pc \in {"first", "second"} THEN {r.players : r \in since} ELSE {game.players}

Reporting == INSTANCE PlayerReport
  WITH online <- game.players, lately <- Lately, sample <- Counted,
       reported <- status.players, server <- spent["replace"], lost <- spent["late"]

\* The sidecar keeps its side of PlayerReport: the count in the status is one the game
\* server had during the query, and a server with players is reported empty only if its
\* answer came too late or it was down or empty for a moment of that query, whatever
\* restarts do to the challenge under way.
ReportsPlayers == Reporting!Spec

-----------------------------------------------------------------------------
(* The inductive invariant.                                                 *)

\* A query has one datagram under way at most, and none outlives its query.
OneDatagram == /\ \A p, q \in net : p = q
               /\ pc \in {"wait", "get", "patch"} => net = {}

\* What an answer under way says was so since the query began.
AnswersUnderWay == /\ pc \in {"first", "second"} => Now(game) \in since
                   /\ \A p \in net : p.kind = "info" => p.report \in since

\* Only a server that runs has requests to answer, and its answers have a version.
AnswersAreVersioned ==
  /\ game.up => game.version \in Version
  /\ \A p \in net : /\ p.kind = "request" => game.up
                    /\ p.kind = "info" => p.report.version \in Version

\* A datagram from which the query still gets to an answer.
Promising(p) ==
  \/ p.kind = "info"
  \/ pc = "first" /\ p \in {Request(NoChallenge), Challenge(game.token)}
  \/ pc = "second" /\ p = Request(TokenBytes(game.token))

\* A query that still gets no answer has met an empty server, or one that was down.
SilenceIsExplained ==
  /\ ~game.up => game.players = 0
  /\ pc \in {"first", "second"} => 0 \in Lately \/ \E p \in net : Promising(p)

\* previousInfo is nil exactly while the server is down, and has its series otherwise.
PreviousIsPublished == (ready => previous \in series) /\ (~ready => previous = None)

IInv == TypeOK /\ OneDatagram /\ AnswersUnderWay /\ AnswersAreVersioned
        /\ SilenceIsExplained /\ PreviousIsPublished /\ AnswersAreTimely

-----------------------------------------------------------------------------
(* What the documentation says and the code does not do.                    *)

\* "always 1 when up; labels carry name/map/version" (main.go:288): one series, that
\* of the running version.  A failed query forgets which series to delete.
OneInfoSeries == \A v, w \in series : v = w

\* "activePlayers is the last-observed number of connected players"
\* (enshroudedserver_types.go:405): the count of a query is one of its time.  An
\* answer that comes too late is counted as zero players.
CountsAreObserved ==
  pc \in {"get", "patch"} => \E r \in since : r.players = answer.players
=============================================================================
