--------------------------- MODULE BoundedService ---------------------------
(***************************************************************************)
(* What the servers of the tcp-server crate promise about the tasks they   *)
(* take on (connections, or the jobs made from them): a task is served at  *)
(* most once, at most Limit tasks are served at the same time, and a task  *)
(* that was taken on is either served or, where the server may fail before *)
(* it does so, refused.                                                    *)
(*                                                                         *)
(* The module is an abstract specification.  The detailed modules show     *)
(* that they implement it with a refinement mapping for phase.             *)
(***************************************************************************)
EXTENDS Integers, FiniteSets

CONSTANTS
  Tasks,      \* everything that may ever be handed to the server
  Limit,      \* how many tasks may be served at the same time
  MayRefuse   \* TRUE when the server may give up a task before serving it

VARIABLE phase

Phases == {"new", "accepted", "serving", "done", "refused"}

TypeOK == phase \in [Tasks -> Phases]

Serving == {t \in Tasks : phase[t] = "serving"}

Init == phase = [t \in Tasks |-> "new"]

Move(t, from, to) ==
  /\ phase[t] = from
  /\ phase' = [phase EXCEPT ![t] = to]

Accept(t) == Move(t, "new", "accepted")

Start(t) == Cardinality(Serving) < Limit /\ Move(t, "accepted", "serving")

Finish(t) == Move(t, "serving", "done")

Refuse(t) == MayRefuse /\ Move(t, "accepted", "refused")

Next == \E t \in Tasks : Accept(t) \/ Start(t) \/ Finish(t) \/ Refuse(t)

Spec == Init /\ [][Next]_phase

=============================================================================
