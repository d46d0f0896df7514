---------------------------- MODULE MCUniverse ------------------------------
(* Small instances of the Universe controller. *)
EXTENDS Universe

CONSTANTS a, b, c, d, old, new

\* A spec that lists what f gives for some of the kinds and nothing otherwise.
SpecOf(f) == [k \in Kinds |-> IF k \in DOMAIN f THEN f[k] ELSE << >>]
One(n, v) == <<[name |-> n, val |-> v]>>
Two(n, m, v) == <<[name |-> n, val |-> v], [name |-> m, val |-> v]>>

\* All names in one namespace.
OneNamespace == [n \in Names \cup {Blank} |-> n]

\* d in another namespace under a's name.
Namesake == [OneNamespace EXCEPT ![d] = a]

\* A network and a cluster: polled before, and after, they are synchronised.
NetCluster == <<ComputeNetwork, ContainerCluster>>
NetClusterSpecs ==
  {SpecOf([ComputeNetwork |-> One(a, v), ContainerCluster |-> One(a, v)]) : v \in {old, new}}
  \cup {SpecOf([ContainerCluster |-> One(a, new)])}

\* Buckets only: two elements in one stage, or one moved to another namespace.
Buckets == <<StorageBucket>>
BucketSpecs ==
  {SpecOf([StorageBucket |-> l]) : l \in {<< >>, One(a, old), Two(a, b, new), One(b, new), One(d, new)}}

\* An account that comes and goes.
Accounts == <<IAMServiceAccount>>
AccountSpecs == {SpecOf([IAMServiceAccount |-> l]) : l \in {<< >>, One(a, old)}}

\* The kinds in the order of Reconcile, up to NATs, with the node pools left
\* out, whose section differs from the clusters' in nothing but the kind.
UpToNATs == SelectSeq(SubSeq(ReconcileOrder, 1, 9), LAMBDA s : s.kind # "ContainerNodePool")
AllKindsSpecs ==
  {SpecOf([k \in Kinds |-> One(a, v)]) : v \in {old, new}}

\* A subnetwork is dropped while its network stays.
NetSubnet == <<ComputeNetwork, ComputeSubNetwork>>
NetSubnetSpecs ==
  {SpecOf([ComputeNetwork |-> One(a, old), ComputeSubNetwork |-> l]) : l \in {<< >>, One(b, old)}}

NoForeign == {}
ForeignUnlisted == {<<"StorageBucket", c>>}
=============================================================================
