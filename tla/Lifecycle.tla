----------------------------- MODULE Lifecycle ------------------------------
(***************************************************************************)
(* What a Universe promises to those who create and delete it, whatever    *)
(* happens in between: it is live until somebody deletes it, then it goes  *)
(* away and does not come back by itself, and the generation it reports as *)
(* observed is one that was really worked on, never an older one.  The     *)
(* Universe controller implements this (Universe.tla), and the Trigger     *)
(* controller, which creates and deletes Universes by their names, relies  *)
(* on nothing else (Trigger.tla).                                          *)
(***************************************************************************)
EXTENDS Naturals

VARIABLES
  phase, \* whether the Universe exists and is marked for deletion
  gen,   \* the generation of its spec
  obs    \* the observed generation of its status

lifeVars == <<phase, gen, obs>>

Init ==
  \/ phase = "absent" /\ gen = 0 /\ obs = 0
  \/ phase = "live" /\ gen = 1 /\ obs = 0

Create ==
  /\ phase = "absent"
  /\ phase' = "live" /\ gen' = 1 /\ obs' = 0

(* Every change of the spec is a new generation. *)
Change ==
  /\ phase # "absent"
  /\ gen' > gen
  /\ UNCHANGED <<phase, obs>>

(* Only the newest generation is ever observed, and not after a deletion. *)
Observe ==
  /\ phase = "live"
  /\ obs' = gen
  /\ UNCHANGED <<phase, gen>>

(* A deletion marks the Universe, or removes it if no finalizer holds it. *)
Delete ==
  /\ phase = "live"
  /\ \/ phase' = "deleting" /\ gen' > gen /\ UNCHANGED obs
     \/ phase' = "absent" /\ gen' = 0 /\ obs' = 0

Vanish ==
  /\ phase = "deleting"
  /\ phase' = "absent" /\ gen' = 0 /\ obs' = 0

Next == Create \/ Change \/ Observe \/ Delete \/ Vanish

Spec == Init /\ [][Next]_lifeVars

(* A deleted Universe goes away. *)
Removed == phase = "deleting" ~> phase = "absent"

(* A Universe whose spec comes to rest is observed as it is. *)
Observed == <>[](phase # "live" \/ obs = gen)
=============================================================================
