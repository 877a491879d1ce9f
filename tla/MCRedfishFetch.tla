-------------------------- MODULE MCRedfishFetch --------------------------
(* An instance of RedfishFetch for TLC: one flat collection with more     *)
(* members than slots, one of them without a link; two controllers, one   *)
(* with two disks.                                                         *)
EXTENDS RedfishFetch

FewSize == [f \in FanOuts |->
    CASE f = "controllers" -> 2 [] f = "disks" -> 3 [] OTHER -> 4]
FewLinked == [f \in FanOuts |-> (1..FewSize[f]) \ (IF f \in Flat THEN {2} ELSE {})]
FewOwner == <<1, 1, 2>>
===========================================================================
