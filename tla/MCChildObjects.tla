---------------------------- MODULE MCChildObjects ----------------------------
(* Small instances of ChildObjects for TLC.                                 *)
EXTENDS ChildObjects, TLC

Plain == [port |-> 0, steam |-> 0, size |-> 0, groups |-> FALSE, sidecar |-> FALSE,
          defer |-> FALSE, wellFormed |-> TRUE]

Bounds(f, n) == f @@ [k \in EventKind |-> n]

\* Two servers to go between, and requests that admission refuses: the Steam port on the
\* query port's default, a malformed reference, and a smaller volume.
ChildRequests ==
  {[Plain EXCEPT !.groups = TRUE, !.sidecar = TRUE, !.defer = TRUE],
   [Plain EXCEPT !.port = 15640],
   [Plain EXCEPT !.steam = DefaultPort],
   [Plain EXCEPT !.groups = TRUE, !.wellFormed = FALSE],
   [Plain EXCEPT !.port = 15640, !.size = 5]}
ChildLegacy == {Plain}
ChildBudget == Bounds("edit" :> 2, 1)

\* The first server, also with a larger volume, and one without groups.
Grouped == [Plain EXCEPT !.groups = TRUE, !.sidecar = TRUE, !.defer = TRUE]
SwitchRequests == {Grouped, [Grouped EXCEPT !.groups = FALSE]}
PortRequests == {Grouped, [Grouped EXCEPT !.port = 15640]}
RemoveRequests == SwitchRequests \cup {[Grouped EXCEPT !.size = 20]}
ClashingSpec == {[Plain EXCEPT !.steam = DefaultPort]}
SwitchBudget == Bounds("fault" :> 0 @@ "secret" :> 0, 1)
RemoveBudget == Bounds("edit" :> 1, 0)
PasswordBudget == Bounds("secret" :> 2 @@ "evict" :> 1, 0)
====
