---------------------------- MODULE IsoCatalog ----------------------------
(***************************************************************************)
(* What the ISO library promises an admin who polls the catalogue: an id   *)
(* is born once, downloads are settled once, ready and failed are final,   *)
(* and a deleted id never comes back, however late a goroutine of it       *)
(* reports.  (The lifecycle comment of 0005_isos.sql.)                     *)
(***************************************************************************)
CONSTANT Ids
VARIABLE life

States == {"unborn", "downloading", "ready", "error", "deleted"}

Init == life = [i \in Ids |-> "unborn"]

\* An import is born downloading, an upload is born ready.
Born(i, state) ==
    /\ life[i] = "unborn" /\ state \in {"downloading", "ready"}
    /\ life' = [life EXCEPT ![i] = state]

Settle(i, state) ==
    /\ life[i] = "downloading" /\ state \in {"ready", "error"}
    /\ life' = [life EXCEPT ![i] = state]

Die(i) ==
    /\ life[i] \in {"downloading", "ready", "error"}
    /\ life' = [life EXCEPT ![i] = "deleted"]

Next == \E i \in Ids, state \in States : Born(i, state) \/ Settle(i, state) \/ Die(i)

Spec == Init /\ [][Next]_life
===========================================================================
