----------------------------- MODULE MCRestore ------------------------------
(* Small instances of backup and restore. *)
EXTENDS Restore

\* Two clusters; two namespaces, the first with an ingress of two rules before another.
TwoClusters == <<"one", "two">>
OneCluster == <<"one">>
TwoNamespaces == <<<<2, 1>>, <<1>>>>
OneIngress == <<<<1>>>>
=============================================================================
