-------------------------- MODULE MCUserSettings --------------------------
(* Instances of UserSettings for TLC. *)
EXTENDS UserSettings, TLC

SessionSymmetry == Permutations(Clients) \union Permutations(Names)
===========================================================================
