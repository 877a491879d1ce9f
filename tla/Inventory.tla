---------------------------- MODULE Inventory -----------------------------
(***************************************************************************)
(* What an inventory of machines promises: an id is given to one machine,  *)
(* once; until it is removed every probe says how its machine answered;    *)
(* the serial number it shows is that machine's; and a removed id stays    *)
(* removed, however late a probe of it reports.  (The columns of           *)
(* 0003_servers.sql; tables with ids that are never reused.)               *)
(***************************************************************************)
CONSTANTS Ids, Hosts, None
VARIABLE entry

Outcomes == {"reachable", "unreachable", "error"}

Listed(i) == entry[i].state \in {"unknown"} \union Outcomes

Unborn == [state |-> "unborn", host |-> None, serial |-> None]

Init == entry = [i \in Ids |-> Unborn]

Enroll(i, h) ==
    /\ entry[i] = Unborn
    /\ entry' = [entry EXCEPT ![i] = [state |-> "unknown", host |-> h, serial |-> None]]

\* A machine that answers may tell its serial number.
Observe(i, outcome) ==
    /\ Listed(i)
    /\ \E serial \in {entry[i].serial} \union
                     (IF outcome = "reachable" THEN {entry[i].host} ELSE {}) :
          entry' = [entry EXCEPT ![i] =
                      [state |-> outcome, host |-> entry[i].host, serial |-> serial]]

Remove(i) ==
    /\ Listed(i)
    /\ entry' = [entry EXCEPT ![i] = [Unborn EXCEPT !.state = "removed"]]

Next == \E i \in Ids :
    \/ \E h \in Hosts : Enroll(i, h)
    \/ \E outcome \in Outcomes : Observe(i, outcome)
    \/ Remove(i)

Spec == Init /\ [][Next]_entry
===========================================================================
