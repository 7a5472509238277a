------------------------------ MODULE MCPlanes ------------------------------
EXTENDS Planes
CONSTANTS h1, h2

MCHosts == {h1, h2}
Yml(v, one, two) ==
    [version |-> v, ignore |-> one = two,
     roles |-> [h \in MCHosts |-> IF h = h1 THEN one ELSE two]]

Master == <<"etcd", "controlplane">>

\* A worker beside the master, upgraded and promoted; an etcd host, promoted;
\* a role listed twice, with an upgrade; a role that does not exist.
MCConfigs ==
    {Yml(1, Master, <<"worker">>),
     Yml(2, Master, <<"controlplane", "worker">>),
     Yml(1, Master, <<"etcd">>),
     Yml(1, Master, <<"etcd", "controlplane">>),
     Yml(2, Master, <<"worker", "worker">>),
     Yml(1, Master, <<"etcd", "master">>)}
=============================================================================
