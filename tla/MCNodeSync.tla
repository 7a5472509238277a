------------------------------ MODULE MCNodeSync ------------------------------
(* Instances of NodeSync: an etcd host that gains and loses other roles and    *)
(* leaves the cluster, and a second host.                                     *)
EXTENDS NodeSync, TLC

CONSTANTS h1, h2, l1

MCHosts == {h1, h2}

Host(r, l) == [roles |-> r, labels |-> l]
Control == Host({"controlplane"}, {})

MCConfigs ==
    {h1 :> Host({"etcd"}, {l1}) @@ h2 :> Control,
     h1 :> Host({"etcd", "worker"}, {}) @@ h2 :> Control,
     h1 :> Host({"etcd", "worker", "controlplane"}, {l1}) @@ h2 :> Host({}, {}),
     h1 :> Host({}, {}) @@ h2 :> Host({"etcd", "controlplane"}, {})}
=============================================================================
