------------------------ MODULE MCDeviceInventory -------------------------
(* Instances of DeviceInventory for TLC. *)
EXTENDS DeviceInventory, TLC

CONSTANT h1

\* One host is a switch, the models of the others are in no catalogue.
OneSwitch == [h \in Hosts |-> IF h = h1 THEN "switch" ELSE "unknown"]
===========================================================================
