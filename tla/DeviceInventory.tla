-------------------------- MODULE DeviceInventory -------------------------
(***************************************************************************)
(* The inventory of network devices and what is stored encrypted beside    *)
(* it: the tables network_devices and settings, the handlers of the server *)
(* and the command network-add, which works on the same database in a      *)
(* process of its own (internal/handlers/network_devices.go, settings.go,  *)
(* internal/db/network_devices.go, settings.go, main.go).                  *)
(*                                                                         *)
(* Every statement on a table is a step, and so is an SSH session that     *)
(* runs `show version`.  Each process encrypts with the key it loaded when *)
(* it started (Startup).                                                   *)
(***************************************************************************)
EXTENDS Startup

CONSTANTS
    Clients,       \* concurrent requests to the server
    Names,         \* names of devices
    Hosts,         \* management addresses, each with one device behind it
    Settings,      \* keys of settings, each with its owner
    Chosen,        \* roles administrators choose
    Detects,       \* the role that the model of a host's device suggests
    MaxDevices,    \* bound: devices enrolled in one behaviour
    Faults         \* of "network", "partial", "busy", "abandon"

Ids     == 1..MaxDevices
Workers == Clients \union Tools

Roles == {"router", "switch", "l3-switch", "firewall", "other", "unknown"}

ASSUME DeviceAssumption ==
    /\ Clients \intersect Procs = {}
    /\ None \notin Hosts \union Names \union {"reachable", "unreachable", "error"}
    /\ MaxDevices \in Nat
    /\ Chosen \subseteq Roles
    /\ Detects \in [Hosts -> Roles]

VARIABLES
    rows,       \* the network_devices table
    nextId,     \* its AUTOINCREMENT counter
    settings,   \* the settings table: the key each value is encrypted with
    req         \* requests in progress, and the command network-add

tables == <<rows, nextId, settings>>
vars   == <<startup, tables, req>>

NoRow == [status |-> "absent", name |-> None, host |-> None, role |-> "unknown",
          serial |-> None, key |-> None]

Idle == [pc |-> "idle", id |-> None, host |-> None, probes |-> TRUE,
         status |-> None, model |-> None, serial |-> None]

Init ==
    /\ StartupInit
    /\ rows = [i \in Ids |-> NoRow] /\ nextId = 1
    /\ settings = [s \in Settings |-> None]
    /\ req = [w \in Workers |-> Idle]

Fails(kinds) == Faults \intersect kinds # {}

---------------------------------------------------------------------------
(* The table *)

Exists(i) == rows[i].status # "absent"

\* Mutant: rowids are reused, as without AUTOINCREMENT.
InsertRowReusing(n, h, role, key) ==
    /\ \A i \in Ids : rows[i].name # n
    /\ LET new == CHOOSE i \in Ids : \A j \in Ids : Exists(j) => j < i IN
          rows' = [rows EXCEPT ![new] = [NoRow EXCEPT !.status = "unknown", !.name = n,
                                            !.host = h, !.role = role, !.key = key]]
    /\ nextId \in Ids /\ nextId' = nextId + 1

\* UNIQUE(name); ids are never handed out twice (AUTOINCREMENT).
InsertRow(n, h, role, key) ==
    /\ nextId \in Ids
    /\ \A i \in Ids : rows[i].name # n
    /\ rows' = [rows EXCEPT ![nextId] = [NoRow EXCEPT !.status = "unknown", !.name = n,
                                            !.host = h, !.role = role, !.key = key]]
    /\ nextId' = nextId + 1

\* COALESCE(NULLIF(?, ''), column): what is known is kept unless replaced.
Observed(row, status, serial) ==
    [row EXCEPT !.status = status,
                !.serial = IF status = "reachable" /\ serial # None THEN serial ELSE @]

\* UPDATE ... WHERE id = ?: a missing row is not an error.
UpdateReachability(i, status, serial) ==
    rows' = IF Exists(i) THEN [rows EXCEPT ![i] = Observed(@, status, serial)] ELSE rows

\* Mutant: the role is read first, and set whatever it is by now.
SetRoleOverriding(i, role) ==
    rows' = IF Exists(i) THEN [rows EXCEPT ![i].role = role] ELSE rows

\* UPDATE ... WHERE id = ? AND role = 'unknown'
SetRoleIfUnknown(i, role) ==
    rows' = IF Exists(i) /\ rows[i].role = "unknown"
            THEN [rows EXCEPT ![i].role = role] ELSE rows

---------------------------------------------------------------------------
(* Requests *)

ProcOf(w)  == IF w \in Clients THEN Server ELSE w
Held(w)    == proc[ProcOf(w)].held["secrets"]
At(w, pc)  == req[w].pc = pc
Goto(w, pc) == req' = [req EXCEPT ![w].pc = pc] /\ UNCHANGED startup

\* A worker that may take a request; a command line is one request.
Free(w) == Running(ProcOf(w)) /\ At(w, "idle")

\* The request is over, and with it the process of a command.
Return(w) ==
    /\ req' = [req EXCEPT ![w] = Idle]
    /\ proc' = IF w \in Tools THEN [proc EXCEPT ![w] = Down] ELSE proc
    /\ UNCHANGED <<files, applied, generated>>

\* Create, and network-add with or without --probe; no role is "unknown".
EnrollInsert(w) == \E n \in Names, h \in Hosts, role \in Chosen \union {"unknown"},
                      probes \in BOOLEAN :
    /\ Free(w) /\ (w \in Clients => probes)
    /\ InsertRow(n, h, role, Held(w))
    /\ req' = [req EXCEPT ![w] = [Idle EXCEPT !.pc = "reread", !.id = nextId, !.host = h,
                                              !.probes = probes]]
    /\ UNCHANGED <<startup, settings>>

\* CreateNetworkDevice reads the row back in a second statement.
EnrollReread(w) ==
    /\ At(w, "reread")
    /\ IF Exists(req[w].id) /\ req[w].probes THEN Goto(w, "probe") ELSE Return(w)
    /\ UNCHANGED tables

TestLookup(c) == \E i \in Ids :
    /\ Free(c) /\ Exists(i)
    /\ req' = [req EXCEPT ![c] = [Idle EXCEPT !.pc = "credentials", !.id = i,
                                              !.host = rows[i].host]]
    /\ UNCHANGED <<startup, tables>>

\* GetCredentials: the row may be gone, or not decrypt.
Credentials(c) ==
    /\ At(c, "credentials")
    /\ IF Exists(req[c].id) /\ rows[req[c].id].key = Held(c) THEN Goto(c, "probe") ELSE Return(c)
    /\ UNCHANGED tables

\* What the device's answer may tell of it; a field may fail to parse.
Told(h) == {h} \union (IF Fails({"partial"}) THEN {None} ELSE {})

Probe(w) ==
    /\ At(w, "probe")
    /\ \/ \E model, serial \in Told(req[w].host) :
             req' = [req EXCEPT ![w] = [@ EXCEPT !.pc = "report", !.status = "reachable",
                                                 !.model = model, !.serial = serial]]
       \/ \E status \in {"unreachable", "error"} :
             /\ Fails({"network"})
             /\ req' = [req EXCEPT ![w] = [@ EXCEPT !.pc = "report", !.status = status]]
    /\ UNCHANGED <<startup, tables>>

\* The result's role, if its model suggests one.
Suggests(r) == r.model # None /\ Detects[r.model] # "unknown"

\* A statement that fails (the database is locked by another process) is
\* logged, and the request goes on.
Report(w) ==
    /\ At(w, "report")
    /\ \/ UpdateReachability(req[w].id, req[w].status, req[w].serial)
       \/ Fails({"busy"}) /\ UNCHANGED rows
    /\ IF Suggests(req[w]) THEN Goto(w, "classify") ELSE Return(w)
    /\ UNCHANGED <<nextId, settings>>

Classify(w) ==
    /\ At(w, "classify")
    /\ \/ SetRoleIfUnknown(req[w].id, Detects[req[w].model])
       \/ Fails({"busy"}) /\ UNCHANGED rows
    /\ Return(w)
    /\ UNCHANGED <<nextId, settings>>

\* POST .../role; "unknown" is a valid choice.
SetRole(i) ==
    /\ Running(Server) /\ Exists(i)
    /\ \E role \in Chosen : rows' = [rows EXCEPT ![i].role = role]
    /\ UNCHANGED <<startup, nextId, settings, req>>

\* No request for the device is stopped.
DeleteDevice(i) ==
    /\ Running(Server) /\ Exists(i)
    /\ rows' = [rows EXCEPT ![i] = NoRow]
    /\ UNCHANGED <<startup, nextId, settings, req>>

\* DELETE and INSERT in one transaction.
SetSetting(s) ==
    /\ Running(Server)
    /\ settings' = [settings EXCEPT ![s] = proc[Server].held["secrets"]]
    /\ UNCHANGED <<startup, rows, nextId, req>>

DeleteSetting(s) ==
    /\ Running(Server) /\ settings[s] # None
    /\ settings' = [settings EXCEPT ![s] = None]
    /\ UNCHANGED <<startup, rows, nextId, req>>

---------------------------------------------------------------------------
(* The outside world *)

\* The client goes away or the 60 seconds are over: what is left of the
\* request fails.
Abandon(c) ==
    /\ Fails({"abandon"}) /\ ~At(c, "idle")
    /\ Return(c)
    /\ UNCHANGED tables

\* Mutant: a process that ends leaves its work to somebody.
StopKeeping(p) == StopProcess(p) /\ UNCHANGED <<tables, req>>

\* A process that ends takes its requests with it, wherever they are.
Stop(p) ==
    /\ StopProcess(p)
    /\ req' = [w \in Workers |-> IF ProcOf(w) = p THEN Idle ELSE req[w]]
    /\ UNCHANGED tables

Starts == StartupStep /\ UNCHANGED <<tables, req>>

Next ==
    \/ \E w \in Workers : \/ EnrollInsert(w) \/ EnrollReread(w)
                          \/ Probe(w) \/ Report(w) \/ Classify(w)
    \/ \E c \in Clients : TestLookup(c) \/ Credentials(c) \/ Abandon(c)
    \/ \E i \in Ids : SetRole(i) \/ DeleteDevice(i)
    \/ \E s \in Settings : SetSetting(s) \/ DeleteSetting(s)
    \/ \E p \in Procs : Stop(p)
    \/ Starts

Spec == Init /\ [][Next]_vars
---------------------------------------------------------------------------
(* Properties *)

Rows == {NoRow} \union
        [status : {"unknown", "reachable", "unreachable", "error"}, name : Names,
         host : Hosts, role : Roles, serial : Hosts \union {None}, key : Keys]

\* A result that is reported has a status, and comes from the request's host.
Reportable(r) ==
    /\ r.pc \in {"report", "classify"} => r.status # None
    /\ r.pc = "classify" => r.model # None
    /\ r.serial \in {r.host, None}

Requests == [pc : {"reread", "credentials", "probe", "report", "classify"}, id : Ids, host : Hosts,
             probes : BOOLEAN, status : {"reachable", "unreachable", "error", None},
             model : Hosts \union {None}, serial : Hosts \union {None}]

Requesting == {Idle} \union {r \in Requests : Reportable(r)}

(***************************************************************************)
(* Every row has a key, and a request belongs to a process that runs.      *)
(***************************************************************************)
TypeOK ==
    /\ StartupTypeOK
    /\ rows \in [Ids -> Rows] /\ nextId \in 1..(MaxDevices + 1)
    /\ settings \in [Settings -> Keys \union {None}]
    /\ req \in [Workers -> Requesting]
    /\ \A w \in Workers : ~At(w, "idle") => Running(ProcOf(w))

(***************************************************************************)
(* What one process has stored is encrypted with the key in the file, and  *)
(* with the one any other process holds, now and after a restart, if a     *)
(* host's first process starts alone ("Losing this key renders all         *)
(* encrypted settings unreadable", key.go).                                *)
(***************************************************************************)
Stored == {rows[i].key : i \in {j \in Ids : Exists(j)}}
             \union {settings[s] : s \in {t \in Settings : settings[t] # None}}

Decryptable == \A k \in Stored :
    /\ files["secrets"] = k
    /\ \A p \in Procs : proc[p].held["secrets"] \in {None, k}

(***************************************************************************)
(* "Same AEAD the server uses -- keeps the row decryptable by serve"       *)
(* (network-add, main.go).                                                 *)
(***************************************************************************)
DecryptedByServe == \A i \in Ids :
    Exists(i) /\ Running(Server) => rows[i].key = proc[Server].held["secrets"]

(***************************************************************************)
(* A role that is known changes only by an administrator's choice, however *)
(* late a probe reports: "manual overrides via POST /role are sticky"      *)
(* (Create, Test).                                                         *)
(***************************************************************************)
RoleIsSticky == [][\A i \in Ids :
    Exists(i) /\ rows[i].role # "unknown" /\ rows'[i].status # "absent" =>
       rows'[i].role = rows[i].role \/ SetRole(i)]_vars

(***************************************************************************)
(* The table as an inventory: see Inventory.  The serial number is the     *)
(* address of the device it was read from.                                 *)
(***************************************************************************)
entry == [i \in Ids |->
    IF Exists(i)
    THEN [state |-> rows[i].status, host |-> rows[i].host, serial |-> rows[i].serial]
    ELSE [state |-> IF i < nextId THEN "removed" ELSE "unborn", host |-> None, serial |-> None]]

Devices == INSTANCE Inventory

InventorySpec == Devices!Spec
===========================================================================
