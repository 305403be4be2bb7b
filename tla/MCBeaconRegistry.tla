-------------------------- MODULE MCBeaconRegistry --------------------------
(* BeaconRegistry on small instances. *)
EXTENDS BeaconRegistry, TLC

Symmetry == Permutations(Beacons) \cup Permutations(Links)
            \cup Permutations(Gateways \ {Own})
=============================================================================
