------------------------------ MODULE MCAddons ------------------------------
(* Without the optional add-ons; with a first and a changed user add-on; with *)
(* everything in a new version.                                               *)
EXTENDS Addons

Config(network, dns, ingress, user) ==
    [a \in AddonNames |-> CASE a = "network" -> network [] a = "dns" -> dns
                            [] a = "ingress" -> ingress [] a = "user" -> user]

MCConfigs == {Config(1, 1, 0, 0), Config(1, 1, 0, 1), Config(1, 1, 1, 2),
              Config(2, 2, 2, 2)}
=============================================================================
