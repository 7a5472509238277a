----------------------------- MODULE MCPortCheck -----------------------------
(* Instances of PortCheck: clusters of up to three hosts that grow, shrink     *)
(* and move roles.                                                             *)
EXTENDS PortCheck, TLC

CONSTANTS h1, h2, h3

MCHosts == {h1, h2, h3}

e == {"etcd"}
c == {"controlplane"}
w == {"worker"}

MCConfigs ==
    {(h1 :> e \cup c \cup w @@ h2 :> {} @@ h3 :> {}),
     (h1 :> e \cup c @@ h2 :> w @@ h3 :> {}),
     (h1 :> e \cup c @@ h2 :> w @@ h3 :> c),
     (h1 :> e \cup c @@ h2 :> e \cup w @@ h3 :> {})}
=============================================================================
