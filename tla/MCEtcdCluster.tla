---------------------------- MODULE MCEtcdCluster ----------------------------
(* Three hosts; etcd grows from one to two and three members and shrinks.   *)
EXTENDS EtcdCluster, TLC

CONSTANTS h1, h2, h3

Hosts3 == {h1, h2, h3}
Order3 == h1 :> 1 @@ h2 :> 2 @@ h3 :> 3
Configs3 == SUBSET Hosts3 \ {{}}
=============================================================================
