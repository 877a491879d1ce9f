-------------------------- MODULE MCServerFleet ---------------------------
(* The symmetries of the TLC runs of ServerFleet. *)
EXTENDS ServerFleet, TLC

ClientSymmetry == Permutations(Clients)

\* Machines differ in nothing but their address.
FleetSymmetry == Permutations(Clients) \union Permutations(Hosts)
===========================================================================
