------------------------------- MODULE Admission -------------------------------
(***************************************************************************)
(* What happens to an EnshroudedServer on its way into the API server: the *)
(* defaults of the CRD schema, then the mutating webhook, then the         *)
(* validating one.  It is the same for a user's edit and for the           *)
(* operator's own updates of the object.                                   *)
(***************************************************************************)
EXTENDS Integers

DefaultPort      == 15637
DefaultSteamPort == 27015
DefaultSize      == 10

\* The fields of a spec that are told apart; 0 is an absent value.  wellFormed: the
\* server IP parses, the Secret references have a name and a key.
SpecType == [port : Nat, steam : Nat, size : Int, groups : BOOLEAN, sidecar : BOOLEAN,
             defer : BOOLEAN, wellFormed : BOOLEAN]

Or(value, default) == IF value = 0 THEN default ELSE value

\* The schema fills a field whose parent object is there; spec.storage need not be.
SchemaDefault(s) == [s EXCEPT !.port = Or(@, DefaultPort), !.steam = Or(@, DefaultSteamPort)]

\* EnshroudedServerCustomDefaulter.Default
Default(s) == [s EXCEPT !.port  = Or(@, DefaultPort),
                        !.steam = Or(@, DefaultSteamPort),
                        !.size  = Or(@, DefaultSize)]

\* Mutant: a port that was left to its default is not compared.
ValidIfExplicit(s) ==
  /\ s.wellFormed /\ s.size >= 0
  /\ s.steam = DefaultSteamPort \/ s.port = DefaultPort \/ s.port # s.steam

\* validateEnshroudedServer
Valid(s) ==
  /\ ~(s.port # 0 /\ s.steam # 0 /\ s.port = s.steam)
  /\ s.wellFormed
  /\ s.size >= 0

\* Mutant: the size must grow.
ValidUpdateStrictly(old, new) == Valid(new) /\ (old.size # 0 => new.size > old.size)

\* ValidateUpdate
ValidUpdate(old, new) == Valid(new) /\ (old.size # 0 => new.size >= old.size)

\* The specs stored for a create or an update: none if it is refused.
Created(s) == {t \in {Default(SchemaDefault(s))} : Valid(t)}

Updated(old, s) == {t \in {Default(SchemaDefault(s))} : ValidUpdate(old, t)}
=============================================================================
