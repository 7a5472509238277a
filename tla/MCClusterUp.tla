----------------------------- MODULE MCClusterUp -----------------------------
(* Instances of ClusterUp.                                                  *)
EXTENDS ClusterUp, SequencesExt, TLC

CONSTANTS h1, h2, h3

e == {"etcd"}
c == {"controlplane"}
w == {"worker"}

Hosts2 == {h1, h2}
Order2 == h1 :> 1 @@ h2 :> 2
Hosts3 == {h1, h2, h3}
Order3 == h1 :> 1 @@ h2 :> 2 @@ h3 :> 3

\* Every valid configuration of the first two of three hosts.
AllConfigs2 ==
    {f \in [Hosts3 -> SUBSET Roles] :
        /\ f[h3] = {}
        /\ \A role \in {"controlplane", "etcd"} : \E h \in Hosts2 : role \in f[h]}

\* Three hosts: highly available control planes that shrink, move and grow.
ControlConfigs3 ==
    {(h1 :> c @@ h2 :> c @@ h3 :> e \cup c),
     (h1 :> {} @@ h2 :> {} @@ h3 :> e \cup c),
     (h1 :> c \cup w @@ h2 :> c @@ h3 :> e),
     (h1 :> w @@ h2 :> {} @@ h3 :> e \cup c),
     (h1 :> w @@ h2 :> c @@ h3 :> e),
     (h1 :> e @@ h2 :> c @@ h3 :> e \cup w)}

AllConfigs3 == AllConfigs2 \cup ControlConfigs3

\* Two hosts, the shapes whose transitions overlap most: roles shared on one
\* host, moved between the hosts, added and taken away.
FewConfigs2 ==
    {(h1 :> e \cup c @@ h2 :> w), (h1 :> e \cup c @@ h2 :> e \cup w),
     (h1 :> e \cup w @@ h2 :> c), (h1 :> e \cup c \cup w @@ h2 :> {}),
     (h1 :> e @@ h2 :> c \cup w)}

\* The reconciler's lists are those of ClusterUp, which keeps a list as a set:
\* for all lists of a plane in the two configurations, what GetToDeleteHosts
\* returns is the difference, and the rotation in place hands out its hosts in
\* the order of SelfLast.
ListOf(S) == SetToSortSeq(S, LAMBDA g, h : HostOrder[g] < HostOrder[h])

Lists == INSTANCE HostLists

ASSUME ListsAssumption ==
    \A current, config \in SUBSET Hosts :
        LET deleted == Lists!GetToDeleteHosts(ListOf(current), ListOf(config))
        IN  /\ deleted = ListOf(current \ config)
            /\ Lists!GetToAddHosts(ListOf(current), ListOf(config))
                  = ListOf(config \ current)
            /\ \A self \in Hosts \cup {NoHost} :
                  LET moved == Lists!MoveSelfLast(deleted, self)
                  IN  /\ ToSet(moved) = ToSet(deleted)
                      /\ \A i \in DOMAIN moved :
                            LET rest == {moved[j] : j \in i..Len(moved)}
                            IN  moved[i] = SelfLast(rest, self)
=============================================================================
