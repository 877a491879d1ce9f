---------------------------- MODULE ServerFleet ---------------------------
(***************************************************************************)
(* The server fleet: the servers table, the handlers that drive the        *)
(* servers' management controllers (BMCs) over Redfish, and the BMCs       *)
(* (internal/handlers/servers.go, internal/db/servers.go, pkg/redfish).    *)
(*                                                                         *)
(* A handler reads its server's row once and then makes a chain of calls   *)
(* to the BMC.  A call walks the Redfish tree with GETs, which change      *)
(* nothing, and ends in one POST or PATCH; it is one step here, and so is  *)
(* every statement on the table.  Between two steps of a request anything  *)
(* else may happen: another admin's request, or the machine by itself.     *)
(*                                                                         *)
(* The images come from the ISO library, through IsoCatalog, which         *)
(* IsoLibrary implements.  A BMC is modelled from how the code uses it,    *)
(* with one CD drive.                                                      *)
(***************************************************************************)
EXTENDS Integers, FiniteSets

CONSTANTS
    Clients,      \* concurrent requests
    Names,        \* names of servers
    Hosts,        \* BMC addresses, each with one machine behind it
    IsoIds,       \* ids of the ISO library
    None,
    MaxServers,   \* bound: servers enrolled in one behaviour
    Requests,     \* which requests the clients send
    Resets,       \* which ResetTypes the power requests ask for
    Faults,       \* of "refuse", "network", "empty", "abandon", "reboot"
    Coordinated   \* whether admins use a BMC one request at a time

Ids == 1..MaxServers

ResetTypes == {"On", "ForceOff", "GracefulShutdown", "GracefulRestart",
               "ForceRestart", "PowerCycle", "Nmi", "PushPowerButton"}

Kinds   == {"power", "mount", "boot"}
Results == {"reachable", "empty", "unreachable", "error"}
Powers  == {"On", "PoweringOff", "Off"}

ASSUME FleetAssumption ==
    /\ None \notin Hosts \union IsoIds \union Names \union ResetTypes
    /\ None \notin Kinds \union Results \union Powers \union {"disk"}
    /\ "disk" \notin IsoIds
    /\ MaxServers \in Nat
    /\ Resets \subseteq ResetTypes
    /\ Coordinated \in BOOLEAN

VARIABLES
    rows,     \* the servers table
    nextId,   \* its AUTOINCREMENT counter
    req,      \* requests in progress: program counter and locals
    bmc,      \* power, CD drive, one-shot boot override, what the machine runs
    life      \* the ISO library, as IsoCatalog has it

vars == <<rows, nextId, req, bmc, life>>

catalog == <<rows, nextId>>

NoRow == [status |-> "absent", name |-> None, host |-> None, power |-> None, serial |-> None]

Idle == [pc |-> "idle", kind |-> None, id |-> None, host |-> None, iso |-> None,
         reset |-> None, power |-> None, result |-> None]

Library == INSTANCE IsoCatalog WITH Ids <- IsoIds

Off     == [power |-> "Off", image |-> None, override |-> FALSE, running |-> None]
Running == [Off EXCEPT !.power = "On", !.running = "disk"]

Init ==
    /\ rows = [i \in Ids |-> NoRow] /\ nextId = 1
    /\ req = [c \in Clients |-> Idle]
    /\ bmc \in [Hosts -> {Off, Running}]
    /\ Library!Init

Fails(kinds) == Faults \intersect kinds # {}

---------------------------------------------------------------------------
(* The table *)

Exists(i) == rows[i].status # "absent"

\* Mutant: rowids are reused, as without AUTOINCREMENT.
InsertRowReusing(n, h) ==
    /\ \A i \in Ids : rows[i].name # n
    /\ LET new == CHOOSE i \in Ids : \A j \in Ids : Exists(j) => j < i IN
          rows' = [rows EXCEPT ![new] = [NoRow EXCEPT !.status = "unknown",
                                                      !.name = n, !.host = h]]
    /\ nextId \in Ids /\ nextId' = nextId + 1

\* UNIQUE(name); ids are never handed out twice (AUTOINCREMENT).
InsertRow(n, h) ==
    /\ nextId \in Ids
    /\ \A i \in Ids : rows[i].name # n
    /\ rows' = [rows EXCEPT ![nextId] = [NoRow EXCEPT !.status = "unknown",
                                                      !.name = n, !.host = h]]
    /\ nextId' = nextId + 1

\* The merge of a probe's result into a row: a failed probe keeps what is
\* known, an answer without a system forgets the power state only.
Observed(row, result, host, power) ==
    IF result \in {"unreachable", "error"} THEN [row EXCEPT !.status = result]
    ELSE [row EXCEPT !.status = "reachable", !.power = power,
                     !.serial = IF result = "empty" THEN row.serial ELSE host]

\* Mutant: an upsert, which brings a removed server back.
UpdateReachabilityUpserting(i, result, host, power) ==
    /\ rows' = [rows EXCEPT ![i] = Observed(rows[i], result, host, power)]
    /\ UNCHANGED nextId

\* UPDATE ... WHERE id = ?: a missing row is not an error.
UpdateReachability(i, result, host, power) ==
    /\ rows' = IF Exists(i)
               THEN [rows EXCEPT ![i] = Observed(rows[i], result, host, power)]
               ELSE rows
    /\ UNCHANGED nextId

---------------------------------------------------------------------------
(* A management controller *)

\* The machine starts, from the CD drive if the override says so.
Booted(b) == [b EXCEPT !.power = "On", !.override = FALSE,
                       !.running = IF b.override /\ b.image # None THEN b.image ELSE "disk"]

Restarts == {"ForceRestart", "GracefulRestart", "PowerCycle"}

\* "most are 'already in that state'" (servers.go)
Accepts(b, reset) ==
    CASE reset = "On"              -> b.power = "Off"
      [] reset = "PushPowerButton" -> TRUE
      [] OTHER                     -> b.power # "Off"

Reset(b, reset) ==
    IF reset \in Restarts \/ b.power = "Off" THEN Booted(b)
    ELSE CASE reset = "ForceOff" -> [b EXCEPT !.power = "Off", !.running = None]
           [] reset \in {"GracefulShutdown", "PushPowerButton"} ->
                 [b EXCEPT !.power = "PoweringOff"]
           [] OTHER -> b

\* The operating system finishes the shutdown it was asked for.
Halt(h) ==
    /\ bmc[h].power = "PoweringOff"
    /\ bmc' = [bmc EXCEPT ![h] = [@ EXCEPT !.power = "Off", !.running = None]]
    /\ UNCHANGED <<catalog, req, life>>

\* The machine restarts by itself.
Reboot(h) ==
    /\ Fails({"reboot"}) /\ bmc[h].power = "On"
    /\ bmc' = [bmc EXCEPT ![h] = Booted(@)]
    /\ UNCHANGED <<catalog, req, life>>

---------------------------------------------------------------------------
(* Requests and their calls *)

Arrives(c, kind) == kind \in Requests /\ req[c].pc = "idle"
At(c, pc)        == req[c].pc = pc
Goto(c, pc)      == req' = [req EXCEPT ![c].pc = pc]
Return(c)        == req' = [req EXCEPT ![c] = Idle]

\* The admins' discipline: one request at a time for a BMC.
MayUse(h) == Coordinated => \A c \in Clients : req[c].host # h

Apply(c, b) == bmc' = [bmc EXCEPT ![req[c].host] = b]

\* What the handler goes on with once the BMC has done what it asked for:
\* a boot is mount, override and reset; a reset is followed by a probe.
Following(c) ==
    CASE At(c, "insert") /\ req[c].kind = "boot" -> "override"
      [] At(c, "override")                       -> "reset"
      [] At(c, "reset")                          -> "probe"
      [] OTHER                                   -> "idle"

Continue(c) == IF Following(c) = "idle" THEN Return(c) ELSE Goto(c, Following(c))

(***************************************************************************)
(* A call that is to leave the BMC in state b.  It is carried out and      *)
(* acknowledged; or carried out, and the answer is lost; or refused, or    *)
(* lost on its way.  An error ends the request: nothing is rolled back.    *)
(***************************************************************************)
Call(c, accepted, b) ==
    \/ /\ accepted /\ Apply(c, b)
       /\ Continue(c) \/ (Fails({"network"}) /\ Return(c))
    \/ /\ ~accepted \/ Fails({"refuse", "network"})
       /\ Return(c) /\ UNCHANGED bmc

---------------------------------------------------------------------------
(* POST /api/servers, DELETE /api/servers/{id}, POST .../{id}/test *)

EnrollInsert(c) == \E n \in Names, h \in Hosts :
    /\ Arrives(c, "enroll") /\ MayUse(h)
    /\ InsertRow(n, h)
    /\ req' = [req EXCEPT ![c] =
                 [Idle EXCEPT !.pc = "reread", !.id = nextId, !.host = h]]
    /\ UNCHANGED <<bmc, life>>

\* CreateServer reads the row back in a second statement.
EnrollReread(c) ==
    /\ At(c, "reread")
    /\ IF Exists(req[c].id) THEN Goto(c, "probe") ELSE Return(c)
    /\ UNCHANGED <<catalog, bmc, life>>

\* No BMC is told, and no request for the server is stopped.
DeleteServer(i) ==
    /\ "delete" \in Requests /\ Exists(i)
    /\ rows' = [rows EXCEPT ![i] = NoRow]
    /\ UNCHANGED <<nextId, req, bmc, life>>

\* GetServer and GetCredentials; address and credentials never change.
TestLookup(c) == \E i \in Ids :
    /\ Arrives(c, "test") /\ Exists(i) /\ MayUse(rows[i].host)
    /\ req' = [req EXCEPT ![c] =
                 [Idle EXCEPT !.pc = "probe", !.id = i, !.host = rows[i].host]]
    /\ UNCHANGED <<catalog, bmc, life>>

\* How probe classifies an answer; "empty" is a BMC without a system.
Classified ==
    {"reachable"} \union (IF Fails({"empty"})   THEN {"empty"}       ELSE {})
                  \union (IF Fails({"network"}) THEN {"unreachable"} ELSE {})
                  \union (IF Fails({"refuse"})  THEN {"error"}       ELSE {})

\* What the BMC says now; it is written to the table in a later step.
Probe(c) ==
    /\ At(c, "probe")
    /\ \E result \in Classified :
          req' = [req EXCEPT ![c] = [@ EXCEPT !.pc = "report", !.result = result,
                       !.power = IF result = "reachable" THEN bmc[req[c].host].power ELSE None]]
    /\ UNCHANGED <<catalog, bmc, life>>

Report(c) ==
    /\ At(c, "report")
    /\ UpdateReachability(req[c].id, req[c].result, req[c].host, req[c].power)
    /\ Return(c)
    /\ UNCHANGED <<bmc, life>>

---------------------------------------------------------------------------
(* POST /api/servers/{id}/power *)

PowerLookup(c) == \E i \in Ids, reset \in Resets :
    /\ Arrives(c, "power") /\ Exists(i) /\ MayUse(rows[i].host)
    /\ req' = [req EXCEPT ![c] = [Idle EXCEPT
                 !.pc = "reset", !.kind = "power", !.id = i, !.host = rows[i].host,
                 !.reset = reset]]
    /\ UNCHANGED <<catalog, bmc, life>>

---------------------------------------------------------------------------
(* POST /api/servers/{id}/mount-iso, .../eject-iso, .../boot-from-iso *)

\* Mutant: an image is handed out whatever its status.
ResolveISOUnchecked(c) == \E i \in IsoIds, kind \in {"mount", "boot"} :
    /\ Arrives(c, kind)
    /\ req' = [req EXCEPT ![c] = [Idle EXCEPT !.pc = "lookup", !.kind = kind, !.iso = i]]
    /\ UNCHANGED <<catalog, bmc, life>>

\* The status is read here, long before the BMC fetches the image.
ResolveISO(c) == \E i \in IsoIds, kind \in {"mount", "boot"} :
    /\ Arrives(c, kind) /\ life[i] = "ready"
    /\ req' = [req EXCEPT ![c] = [Idle EXCEPT !.pc = "lookup", !.kind = kind, !.iso = i]]
    /\ UNCHANGED <<catalog, bmc, life>>

\* A boot request takes the power state from the row.
Lookup(c) == \E i \in Ids :
    /\ At(c, "lookup") /\ Exists(i) /\ MayUse(rows[i].host)
    /\ req' = [req EXCEPT ![c] = [@ EXCEPT !.pc = "insert", !.id = i, !.host = rows[i].host,
                                           !.power = rows[i].power]]
    /\ UNCHANGED <<catalog, bmc, life>>

LookupFails(c) ==
    /\ At(c, "lookup")
    /\ Return(c)
    /\ UNCHANGED <<catalog, bmc, life>>

\* A drive that holds an image refuses another one (409).
InsertMedia(c) ==
    /\ At(c, "insert")
    /\ LET b == bmc[req[c].host] IN
          Call(c, b.image = None, [b EXCEPT !.image = req[c].iso])
    /\ UNCHANGED <<catalog, life>>

\* An image that was deleted meanwhile may be out of the BMC's reach.
InsertUnreachable(c) ==
    /\ At(c, "insert") /\ life[req[c].iso] # "ready"
    /\ Return(c)
    /\ UNCHANGED <<catalog, bmc, life>>

EjectLookup(c) == \E i \in Ids :
    /\ Arrives(c, "eject") /\ Exists(i) /\ MayUse(rows[i].host)
    /\ req' = [req EXCEPT ![c] =
                 [Idle EXCEPT !.pc = "eject", !.id = i, !.host = rows[i].host]]
    /\ UNCHANGED <<catalog, bmc, life>>

EjectMedia(c) ==
    /\ At(c, "eject")
    /\ Call(c, TRUE, [bmc[req[c].host] EXCEPT !.image = None])
    /\ UNCHANGED <<catalog, life>>

\* Mutant: the error of the boot override is dropped.
SetBootOverrideIgnored(c) ==
    /\ At(c, "override")
    /\ \/ Apply(c, [bmc[req[c].host] EXCEPT !.override = TRUE])
       \/ Fails({"refuse", "network"}) /\ UNCHANGED bmc
    /\ Goto(c, "reset")
    /\ UNCHANGED <<catalog, life>>

SetBootOverride(c) ==
    /\ At(c, "override")
    /\ Call(c, TRUE, [bmc[req[c].host] EXCEPT !.override = TRUE])
    /\ UNCHANGED <<catalog, life>>

\* What a request asks of the BMC: a boot request goes by the stored state.
ResetType(c) ==
    IF req[c].kind = "power" THEN req[c].reset
    ELSE IF req[c].power = "Off" THEN "On" ELSE "ForceRestart"

\* Mutant: the power request reports the state it read before the reset.
PowerActionProbingFirst(c) ==
    /\ At(c, "reset")
    /\ LET b == bmc[req[c].host] IN
          /\ Accepts(b, ResetType(c)) /\ Apply(c, Reset(b, ResetType(c)))
          /\ req' = [req EXCEPT ![c] = [@ EXCEPT !.pc = "report", !.result = "reachable",
                                                 !.power = b.power]]
    /\ UNCHANGED <<catalog, life>>

PowerAction(c) ==
    /\ At(c, "reset")
    /\ LET b == bmc[req[c].host] IN
          Call(c, Accepts(b, ResetType(c)), Reset(b, ResetType(c)))
    /\ UNCHANGED <<catalog, life>>

---------------------------------------------------------------------------
(* The outside world *)

\* The client goes away, the 60 seconds are over or the process ends: every
\* later call and statement of the request fails, its report included.
Abandon(c) ==
    /\ Fails({"abandon"}) /\ req[c].pc # "idle"
    /\ Return(c)
    /\ UNCHANGED <<catalog, bmc, life>>

\* Uploads, imports and deletes of images, in the ISO library.
LibraryStep == Library!Next /\ UNCHANGED <<catalog, req, bmc>>

Rest == (\A c \in Clients : req[c] = Idle) /\ UNCHANGED vars

Handle(c) ==
    \/ EnrollInsert(c) \/ EnrollReread(c) \/ TestLookup(c) \/ Probe(c) \/ Report(c)
    \/ PowerLookup(c) \/ PowerAction(c)
    \/ ResolveISO(c) \/ Lookup(c) \/ LookupFails(c)
    \/ InsertMedia(c) \/ InsertUnreachable(c) \/ SetBootOverride(c)
    \/ EjectLookup(c) \/ EjectMedia(c)
    \/ Abandon(c)

Next ==
    \/ \E c \in Clients : Handle(c)
    \/ \E i \in Ids : DeleteServer(i)
    \/ \E h \in Hosts : Halt(h) \/ Reboot(h)
    \/ LibraryStep
    \/ Rest

Spec == Init /\ [][Next]_vars
---------------------------------------------------------------------------
(* Properties *)

Rows == {NoRow} \union
        [status : {"unknown", "reachable", "unreachable", "error"}, name : Names,
         host : Hosts, power : Powers \union {None}, serial : Hosts \union {None}]

Requesting ==
    {r \in [pc : {"idle", "reread", "probe", "report", "reset", "lookup", "insert", "eject",
                  "override"},
            kind : Kinds \union {None},
            id : Ids \union {None}, host : Hosts \union {None}, iso : IsoIds \union {None},
            reset : ResetTypes \union {None},
            power : Powers \union {None}, result : Results \union {None}] :
        /\ r.pc \notin {"idle", "lookup"} => r.id \in Ids /\ r.host \in Hosts
        /\ r.pc \in {"idle", "lookup"} => r.host = None
        /\ r.pc = "report" => r.result # None
        /\ r.pc \in {"lookup", "insert", "override"} \/ r.kind = "boot" => r.iso \in IsoIds
        /\ r.kind = "power" => r.reset \in ResetTypes}

Controllers ==
    [power : Powers, image : IsoIds \union {None},
     override : BOOLEAN, running : IsoIds \union {"disk", None}]

(***************************************************************************)
(* Every server that exists has a name and an address, every request past  *)
(* its lookup the server and the locals its next calls use.                *)
(***************************************************************************)
TypeOK ==
    /\ rows \in [Ids -> Rows] /\ nextId \in 1..(MaxServers + 1)
    /\ req \in [Clients -> Requesting]
    /\ bmc \in [Hosts -> Controllers]
    /\ life \in [IsoIds -> Library!States]

(***************************************************************************)
(* No BMC is ever given, and no machine ever runs, an image that was not   *)
(* complete when the admin asked for it; it may have been deleted since.   *)
(* ("enforce status=ready", servers.go)                                    *)
(***************************************************************************)
WasReady(i) == life[i] \in {"ready", "deleted"}

MountedWasReady == \A h \in Hosts :
    /\ bmc[h].image # None => WasReady(bmc[h].image)
    /\ bmc[h].running \in IsoIds => WasReady(bmc[h].running)

(***************************************************************************)
(* When a boot from an image is reported as triggered, the machine runs    *)
(* that image and the one-shot override is spent, if admins use a BMC one  *)
(* request at a time and machines do not restart by themselves; whatever   *)
(* the BMC refuses, the network loses or the client abandons.              *)
(***************************************************************************)
BootTriggeredRuns == \A c \in Clients :
    req[c].kind = "boot" /\ req[c].pc \in {"probe", "report"} =>
       bmc[req[c].host].running = req[c].iso /\ ~bmc[req[c].host].override

(***************************************************************************)
(* A power state that is about to be stored is the machine's, unless it    *)
(* finished its shutdown in between: "the returned Server row carries the  *)
(* fresh power_state" (Power, servers.go).                                 *)
(***************************************************************************)
ReportsAreFresh == \A c \in Clients :
    At(c, "report") /\ req[c].result = "reachable" =>
       LET power == bmc[req[c].host].power IN
          req[c].power = power \/ (req[c].power = "PoweringOff" /\ power = "Off")

(***************************************************************************)
(* The table as an inventory: see Inventory.  The serial number is the     *)
(* address of the machine it was read from.                                *)
(***************************************************************************)
entry == [i \in Ids |->
    IF Exists(i)
    THEN [state |-> rows[i].status, host |-> rows[i].host, serial |-> rows[i].serial]
    ELSE [state |-> IF i < nextId THEN "removed" ELSE "unborn", host |-> None, serial |-> None]]

Fleet == INSTANCE Inventory

InventorySpec == Fleet!Spec
===========================================================================
