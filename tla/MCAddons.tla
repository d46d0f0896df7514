------------------------------ MODULE MCAddons ------------------------------
(* Small instances of the installation of addons. *)
EXTENDS Addons

CONSTANTS u, v

TargetOf == [w \in {u, v} |-> IF w = u THEN "cu" ELSE "cv"]

\* Addresses that differ in their dots only.
PathOf == [c \in {"primary", "cu", "cv"} |-> "/tmp/10324"]

\* One worker, every addon.
WantsAll == [w \in {u} |-> Optional]

\* Two workers, of which one has an addon of its own to install.
OneWants == [w \in {u, v} |-> IF w = u THEN {"external-secrets"} ELSE {}]
=============================================================================
