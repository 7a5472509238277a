--------------------------- MODULE MCCertificates ---------------------------
(* Two hosts, the first of them with the control plane; etcd on one or both.  *)
EXTENDS Certificates

CONSTANTS h1, h2

Hosts2 == {h1, h2}
Order2 == <<h1, h2>>
\* An etcd host joins, and becomes the first one, or leaves.
Configs2 == {{h2}, {h1, h2}}
Control1 == {h1}
=============================================================================
