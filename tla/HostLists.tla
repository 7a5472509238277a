------------------------------ MODULE HostLists ------------------------------
(***************************************************************************)
(* The list computations the reconciler is built on: which hosts of a      *)
(* plane have gone and which are new (GetToDeleteHosts and GetToAddHosts   *)
(* of hosts/hosts.go), and the rotation at the top of reconcileControl     *)
(* that moves the host behind the local kubeconfig to the end of the       *)
(* deletion list.                                                          *)
(* A host is identified by its address; lists keep cluster.yml's order.    *)
(***************************************************************************)
EXTENDS Integers, Sequences, SequencesExt

Has(list, h) == \E i \in DOMAIN list : list[i] = h

GetToDeleteHosts(current, config) ==
    SelectSeq(current, LAMBDA h : ~Has(config, h))

GetToAddHosts(current, config) ==
    SelectSeq(config, LAMBDA h : ~Has(current, h))

\* One turn of the loop: element i of the slice goes to its end when it is the
\* host behind the kubeconfig.  The two appends work in place, so the range
\* loop, which keeps the slice it started with, sees the shifted elements.
Rotate(list, i, self) ==
    IF list[i] = self
    THEN SubSeq(list, 1, i - 1) \o SubSeq(list, i + 1, Len(list)) \o <<self>>
    ELSE list

MoveSelfLast(list, self) ==
    FoldLeft(LAMBDA acc, i : Rotate(acc, i, self), list,
             [i \in 1..Len(list) |-> i])
=============================================================================
