------------------------ MODULE ServerFleet_proofs ------------------------
(***************************************************************************)
(* Proofs about ServerFleet for every set of clients, names, BMCs and      *)
(* images, every bound and every choice of Requests, Resets and Faults.    *)
(***************************************************************************)
EXTENDS ServerFleet, TLAPS

---------------------------------------------------------------------------
(* What the operations preserve *)

RowsType == rows \in [Ids -> Rows] /\ nextId \in 1..(MaxServers + 1)

LEMMA InsertType ==
  ASSUME RowsType, NEW n \in Names, NEW h \in Hosts, InsertRow(n, h)
  PROVE  RowsType' /\ nextId \in Ids
<1>1. nextId \in Ids /\ nextId' \in 1..(MaxServers + 1)
  BY FleetAssumption DEF InsertRow, Ids
<1>2. [NoRow EXCEPT !.status = "unknown", !.name = n, !.host = h] \in Rows
  BY DEF NoRow, Rows
<1>3. QED
  BY <1>1, <1>2 DEF RowsType, InsertRow

LEMMA ObservedType ==
  ASSUME NEW row \in Rows, row # NoRow, NEW h \in Hosts,
         NEW result \in Results,
         NEW power \in Powers \union {None}
  PROVE  Observed(row, result, h, power) \in Rows \ {NoRow}
BY DEF Observed, Rows, NoRow, Results

LEMMA UpdateType ==
  ASSUME RowsType, NEW i \in Ids, NEW h \in Hosts,
         NEW result \in Results,
         NEW power \in Powers \union {None},
         UpdateReachability(i, result, h, power)
  PROVE  RowsType'
<1>1. CASE Exists(i)
  <2>1. rows[i] \in Rows /\ rows[i] # NoRow
    BY <1>1 DEF RowsType, Exists, NoRow
  <2>2. Observed(rows[i], result, h, power) \in Rows
    BY <2>1, ObservedType
  <2>3. QED
    BY <1>1, <2>2 DEF RowsType, UpdateReachability
<1>2. CASE ~Exists(i)
  BY <1>2 DEF RowsType, UpdateReachability
<1>3. QED
  BY <1>1, <1>2

LEMMA BootedType ==
  ASSUME NEW b \in Controllers
  PROVE  /\ Booted(b) \in Controllers
         /\ Booted(b).power = "On" /\ Booted(b).image = b.image /\ ~Booted(b).override
         /\ b.override /\ b.image # None => Booted(b).running = b.image
         /\ Booted(b).running \in {b.image, "disk"}
BY DEF Booted, Controllers, Powers

LEMMA ResetEffect ==
  ASSUME NEW b \in Controllers, NEW reset \in ResetTypes
  PROVE  /\ Reset(b, reset) \in Controllers
         /\ Reset(b, reset).image = b.image
         /\ Reset(b, reset).running \in {b.image, b.running, "disk", None}
         /\ reset = "ForceRestart" \/ b.power = "Off" => Reset(b, reset) = Booted(b)
<1>1. CASE reset \in Restarts \/ b.power = "Off"
  BY <1>1, BootedType DEF Reset
<1>2. CASE ~(reset \in Restarts \/ b.power = "Off")
  BY <1>2 DEF Reset, Restarts, Controllers, ResetTypes, Powers
<1>3. QED
  BY <1>1, <1>2

LEMMA ReturnType ==
  ASSUME req \in [Clients -> Requesting], NEW c \in Clients, Return(c)
  PROVE  req' \in [Clients -> Requesting]
BY FleetAssumption DEF Return, Idle, Requesting, Kinds

LEMMA ContinueType ==
  ASSUME req \in [Clients -> Requesting], NEW c \in Clients, Continue(c),
         At(c, "insert") \/ At(c, "override") \/ At(c, "reset") \/ At(c, "eject")
  PROVE  req' \in [Clients -> Requesting]
<1>1. CASE Following(c) = "idle"
  BY <1>1, ReturnType DEF Continue
<1>2. CASE Following(c) # "idle"
  <2>1. Following(c) \in {"override", "reset", "probe"}
    BY <1>2 DEF Following
  <2>2. Following(c) = "override" => req[c].kind = "boot"
    BY DEF Following, At
  <2>3. req' = [req EXCEPT ![c].pc = Following(c)]
    BY <1>2 DEF Continue, Goto
  <2>4. req[c] \in Requesting /\ req[c].pc \notin {"idle", "lookup"}
    BY DEF At
  <2>5. [req[c] EXCEPT !.pc = Following(c)] \in Requesting
    BY <2>1, <2>2, <2>4 DEF Requesting
  <2>6. QED
    BY <2>3, <2>5
<1>3. QED
  BY <1>1, <1>2

\* A call touches the one BMC of its request, and the request itself.
LEMMA CallEffect ==
  ASSUME TypeOK, NEW c \in Clients, NEW accepted \in BOOLEAN, NEW b \in Controllers,
         At(c, "insert") \/ At(c, "override") \/ At(c, "reset") \/ At(c, "eject"),
         Call(c, accepted, b)
  PROVE  /\ req' \in [Clients -> Requesting]
         /\ bmc' \in [Hosts -> Controllers]
         /\ UNCHANGED bmc \/ (accepted /\ Apply(c, b))
         /\ Return(c) \/ (Continue(c) /\ accepted /\ Apply(c, b))
<1>1. Return(c) \/ Continue(c)
  BY DEF Call
<1>2. req' \in [Clients -> Requesting]
  BY <1>1, ReturnType, ContinueType DEF TypeOK
<1>3. QED
  BY <1>2 DEF Call, Apply, TypeOK

LEMMA ProbedType ==
  ASSUME NEW r \in Requesting, r.pc = "probe",
         NEW result \in Results, NEW power \in Powers \union {None}
  PROVE  [r EXCEPT !.pc = "report", !.result = result, !.power = power] \in Requesting
BY FleetAssumption DEF Requesting

LEMMA LookedUpType ==
  ASSUME NEW r \in Requesting, r.pc = "lookup",
         NEW i \in Ids, NEW h \in Hosts, NEW power \in Powers \union {None}
  PROVE  [r EXCEPT !.pc = "insert", !.id = i, !.host = h, !.power = power] \in Requesting
BY FleetAssumption DEF Requesting

---------------------------------------------------------------------------
(* Type correctness *)

LEMMA LibraryType == life \in [IsoIds -> Library!States] /\ Library!Next
                     => life' \in [IsoIds -> Library!States]
BY DEF Library!Next, Library!States, Library!Born, Library!Settle, Library!Die

LEMMA TypeInit == Init => TypeOK
<1> SUFFICES ASSUME Init PROVE TypeOK
  OBVIOUS
<1>1. rows \in [Ids -> Rows] /\ nextId \in 1..(MaxServers + 1)
  BY FleetAssumption DEF Init, Rows
<1>2. Idle \in Requesting
  BY FleetAssumption DEF Idle, Requesting, Kinds
<1>3. {Off, Running} \subseteq Controllers
  <2>1. Off \in Controllers
    BY DEF Off, Controllers, Powers
  <2>2. [Off EXCEPT !.power = "On", !.running = "disk"] \in Controllers
    BY <2>1 DEF Controllers, Powers
  <2>3. QED
    BY <2>1, <2>2 DEF Running
<1>4. life \in [IsoIds -> Library!States]
  BY DEF Init, Library!Init, Library!States
<1>5. QED
  BY <1>1, <1>2, <1>3, <1>4 DEF Init, TypeOK

LEMMA TypeStep == TypeOK /\ [Next]_vars => TypeOK'
<1> SUFFICES ASSUME TypeOK, [Next]_vars PROVE TypeOK'
  OBVIOUS
<1> USE DEF TypeOK, catalog
<1>1. ASSUME NEW c \in Clients, EnrollInsert(c) PROVE TypeOK'
  <2>1. PICK n \in Names, h \in Hosts :
             /\ InsertRow(n, h)
             /\ req' = [req EXCEPT ![c] =
                          [Idle EXCEPT !.pc = "reread", !.id = nextId, !.host = h]]
    BY <1>1 DEF EnrollInsert
  <2>2. RowsType' /\ nextId \in Ids
    BY <2>1, InsertType DEF RowsType
  <2>3. [Idle EXCEPT !.pc = "reread", !.id = nextId, !.host = h] \in Requesting
    BY <2>2, FleetAssumption DEF Idle, Requesting, Kinds
  <2>4. QED
    BY <1>1, <2>1, <2>2, <2>3 DEF EnrollInsert, RowsType
<1>2. ASSUME NEW c \in Clients, EnrollReread(c) PROVE TypeOK'
  <2>1. CASE Return(c)
    BY <1>2, <2>1, ReturnType DEF EnrollReread
  <2>2. CASE Goto(c, "probe")
    <3>1. [req[c] EXCEPT !.pc = "probe"] \in Requesting
      BY <1>2 DEF EnrollReread, At, Requesting
    <3>2. QED
      BY <1>2, <2>2, <3>1 DEF EnrollReread, Goto
  <2>3. QED
    BY <1>2, <2>1, <2>2 DEF EnrollReread
<1>3. ASSUME NEW i \in Ids, Exists(i) PROVE rows[i].host \in Hosts /\ rows[i] \in Rows
               /\ rows[i].power \in Powers \union {None}
  BY <1>3 DEF Exists, Rows, NoRow
<1>4. ASSUME NEW c \in Clients, TestLookup(c) PROVE TypeOK'
  <2>1. PICK i \in Ids :
             /\ Exists(i)
             /\ req' = [req EXCEPT ![c] =
                          [Idle EXCEPT !.pc = "probe", !.id = i, !.host = rows[i].host]]
    BY <1>4 DEF TestLookup
  <2>2. [Idle EXCEPT !.pc = "probe", !.id = i, !.host = rows[i].host] \in Requesting
    BY <1>3, <2>1, FleetAssumption DEF Idle, Requesting, Kinds
  <2>3. QED
    BY <1>4, <2>1, <2>2 DEF TestLookup
<1>5. ASSUME NEW c \in Clients, Probe(c) PROVE TypeOK'
  <2>1. PICK result \in Classified :
             req' = [req EXCEPT ![c] = [@ EXCEPT !.pc = "report", !.result = result,
                       !.power = IF result = "reachable" THEN bmc[req[c].host].power ELSE None]]
    BY <1>5 DEF Probe
  <2>2. result \in Results
    BY DEF Classified, Results
  <2>3. req[c].host \in Hosts /\ req[c].id \in Ids
    BY <1>5 DEF Probe, At, Requesting
  <2>4. bmc[req[c].host].power \in Powers
    BY <2>3 DEF Controllers
  <2>5. [req[c] EXCEPT !.pc = "report", !.result = result,
           !.power = IF result = "reachable" THEN bmc[req[c].host].power ELSE None]
          \in Requesting
    BY <1>5, <2>2, <2>4, ProbedType DEF Probe, At
  <2>6. QED
    BY <1>5, <2>1, <2>5 DEF Probe
<1>6. ASSUME NEW c \in Clients, Report(c) PROVE TypeOK'
  <2>1. /\ req[c].id \in Ids /\ req[c].host \in Hosts
        /\ req[c].result \in Results
        /\ req[c].power \in Powers \union {None}
    BY <1>6 DEF Report, At, Requesting
  <2>2. RowsType'
    BY <1>6, <2>1, UpdateType DEF Report, RowsType
  <2>3. QED
    BY <1>6, <2>2, ReturnType DEF Report, RowsType
<1>7. ASSUME NEW c \in Clients, PowerLookup(c) PROVE TypeOK'
  <2>1. PICK i \in Ids, reset \in Resets :
             /\ Exists(i)
             /\ req' = [req EXCEPT ![c] = [Idle EXCEPT !.pc = "reset", !.kind = "power",
                          !.id = i, !.host = rows[i].host, !.reset = reset]]
    BY <1>7 DEF PowerLookup
  <2>2. [Idle EXCEPT !.pc = "reset", !.kind = "power", !.id = i, !.host = rows[i].host,
                     !.reset = reset] \in Requesting
    BY <1>3, <2>1, FleetAssumption DEF Idle, Requesting, Kinds
  <2>3. QED
    BY <1>7, <2>1, <2>2 DEF PowerLookup
<1>8. ASSUME NEW c \in Clients, ResolveISO(c) PROVE TypeOK'
  <2>1. PICK i \in IsoIds, kind \in {"mount", "boot"} :
             req' = [req EXCEPT ![c] = [Idle EXCEPT !.pc = "lookup", !.kind = kind, !.iso = i]]
    BY <1>8 DEF ResolveISO
  <2>2. [Idle EXCEPT !.pc = "lookup", !.kind = kind, !.iso = i] \in Requesting
    BY FleetAssumption DEF Idle, Requesting, Kinds
  <2>3. QED
    BY <1>8, <2>1, <2>2 DEF ResolveISO
<1>9. ASSUME NEW c \in Clients, Lookup(c) PROVE TypeOK'
  <2>1. PICK i \in Ids :
             /\ Exists(i)
             /\ req' = [req EXCEPT ![c] = [@ EXCEPT !.pc = "insert", !.id = i,
                          !.host = rows[i].host, !.power = rows[i].power]]
    BY <1>9 DEF Lookup
  <2>2. [req[c] EXCEPT !.pc = "insert", !.id = i, !.host = rows[i].host,
                       !.power = rows[i].power] \in Requesting
    BY <1>3, <1>9, <2>1, LookedUpType DEF Lookup, At
  <2>3. QED
    BY <1>9, <2>1, <2>2 DEF Lookup
<1>10. ASSUME NEW c \in Clients, EjectLookup(c) PROVE TypeOK'
  <2>1. PICK i \in Ids :
             /\ Exists(i)
             /\ req' = [req EXCEPT ![c] =
                          [Idle EXCEPT !.pc = "eject", !.id = i, !.host = rows[i].host]]
    BY <1>10 DEF EjectLookup
  <2>2. [Idle EXCEPT !.pc = "eject", !.id = i, !.host = rows[i].host] \in Requesting
    BY <1>3, <2>1, FleetAssumption DEF Idle, Requesting, Kinds
  <2>3. QED
    BY <1>10, <2>1, <2>2 DEF EjectLookup
<1>11. ASSUME NEW c \in Clients, LookupFails(c) \/ InsertUnreachable(c) \/ Abandon(c) PROVE TypeOK'
  BY <1>11, ReturnType DEF LookupFails, InsertUnreachable, Abandon
<1>12. ASSUME NEW c \in Clients, At(c, "insert") \/ At(c, "override") \/ At(c, "reset") \/ At(c, "eject")
       PROVE  /\ bmc[req[c].host] \in Controllers /\ req[c].host \in Hosts
              /\ At(c, "insert") => req[c].iso \in IsoIds
              /\ ResetType(c) \in ResetTypes
  BY <1>12 DEF At, Requesting, ResetType, ResetTypes
<1>13. ASSUME NEW c \in Clients, InsertMedia(c) PROVE TypeOK'
  <2>1. [bmc[req[c].host] EXCEPT !.image = req[c].iso] \in Controllers
    BY <1>12, <1>13 DEF InsertMedia, Controllers
  <2>2. QED
    BY <1>13, <2>1, CallEffect DEF InsertMedia
<1>14. ASSUME NEW c \in Clients, EjectMedia(c) PROVE TypeOK'
  <2>1. [bmc[req[c].host] EXCEPT !.image = None] \in Controllers
    BY <1>12, <1>14 DEF EjectMedia, Controllers
  <2>2. QED
    BY <1>14, <2>1, CallEffect DEF EjectMedia
<1>15. ASSUME NEW c \in Clients, SetBootOverride(c) PROVE TypeOK'
  <2>1. [bmc[req[c].host] EXCEPT !.override = TRUE] \in Controllers
    BY <1>12, <1>15 DEF SetBootOverride, Controllers
  <2>2. QED
    BY <1>15, <2>1, CallEffect DEF SetBootOverride
<1>16. ASSUME NEW c \in Clients, PowerAction(c) PROVE TypeOK'
  <2>1. Reset(bmc[req[c].host], ResetType(c)) \in Controllers
    BY <1>12, <1>16, ResetEffect DEF PowerAction
  <2>2. Accepts(bmc[req[c].host], ResetType(c)) \in BOOLEAN
    BY DEF Accepts
  <2>3. QED
    BY <1>16, <2>1, <2>2, CallEffect DEF PowerAction
<1>17. ASSUME NEW i \in Ids, DeleteServer(i) PROVE TypeOK'
  BY <1>17 DEF DeleteServer, Rows
<1>18. ASSUME NEW h \in Hosts, Halt(h) PROVE TypeOK'
  <2>1. [bmc[h] EXCEPT !.power = "Off", !.running = None] \in Controllers
    BY DEF Controllers, Powers
  <2>2. QED
    BY <1>18, <2>1 DEF Halt
<1>19. ASSUME NEW h \in Hosts, Reboot(h) PROVE TypeOK'
  BY <1>19, BootedType DEF Reboot
<1>20. CASE LibraryStep
  BY <1>20, LibraryType DEF LibraryStep
<1>21. CASE UNCHANGED vars
  BY <1>21 DEF vars
<1>22. QED
  BY <1>1, <1>2, <1>4, <1>5, <1>6, <1>7, <1>8, <1>9, <1>10, <1>11, <1>13, <1>14, <1>15, <1>16,
     <1>17, <1>18, <1>19, <1>20, <1>21 DEF Next, Handle, Rest

(***************************************************************************)
(* Every server has its name and address, every request its locals, in     *)
(* every interleaving of requests, machines and failures.                  *)
(***************************************************************************)
THEOREM TypeCorrect == Spec => []TypeOK
BY TypeInit, TypeStep, PTL DEF Spec

---------------------------------------------------------------------------
(* Images *)

AskedWasReady == \A c \in Clients : req[c].iso # None => WasReady(req[c].iso)

ImagesWereReady == AskedWasReady /\ MountedWasReady

\* Once complete, an image can only be deleted.
LEMMA ReadyStays ==
  ASSUME TypeOK, [Next]_vars, NEW i \in IsoIds, WasReady(i)
  PROVE  WasReady(i)'
<1>1. CASE LibraryStep
  BY <1>1 DEF LibraryStep, WasReady, TypeOK, Library!Next, Library!States, Library!Born,
              Library!Settle, Library!Die
<1>2. CASE UNCHANGED life
  BY <1>2 DEF WasReady
<1>3. QED
  BY <1>1, <1>2
     DEF Next, Handle, Rest, vars, EnrollInsert, EnrollReread, TestLookup, Probe, Report,
         PowerLookup, PowerAction, ResolveISO, Lookup, LookupFails, InsertMedia,
         InsertUnreachable, SetBootOverride, EjectLookup, EjectMedia, Abandon, DeleteServer,
         Halt, Reboot

\* A step of one request leaves the others, and the BMCs of the others.
LEMMA OthersKept ==
  ASSUME TypeOK, NEW d \in Clients, Handle(d)
  PROVE  /\ \A c \in Clients : c # d => req'[c] = req[c]
         /\ \A h \in Hosts : h # req[d].host => bmc'[h] = bmc[h]
         /\ UNCHANGED life
<1> USE DEF TypeOK
<1>1. CASE \/ EnrollInsert(d) \/ EnrollReread(d) \/ TestLookup(d) \/ Probe(d) \/ Report(d)
           \/ PowerLookup(d) \/ ResolveISO(d) \/ Lookup(d) \/ LookupFails(d)
           \/ InsertUnreachable(d) \/ EjectLookup(d) \/ Abandon(d)
  BY <1>1 DEF EnrollInsert, EnrollReread, TestLookup, Probe, Report, PowerLookup, ResolveISO,
              Lookup, LookupFails, InsertUnreachable, EjectLookup, Abandon, Goto, Return
<1>2. CASE InsertMedia(d) \/ SetBootOverride(d) \/ EjectMedia(d) \/ PowerAction(d)
  BY <1>2 DEF InsertMedia, SetBootOverride, EjectMedia, PowerAction, Call, Continue, Goto,
              Return, Apply
<1>3. QED
  BY <1>1, <1>2 DEF Handle

LEMMA AskedStep ==
  ASSUME TypeOK, AskedWasReady, NEW d \in Clients, Handle(d)
  PROVE  req'[d].iso # None => WasReady(req'[d].iso)
<1> USE DEF TypeOK
<1>1. CASE ResolveISO(d)
  BY <1>1 DEF ResolveISO, WasReady
<1>2. CASE \/ EnrollInsert(d) \/ TestLookup(d) \/ PowerLookup(d) \/ EjectLookup(d)
  BY <1>2 DEF EnrollInsert, TestLookup, PowerLookup, EjectLookup, Idle
<1>3. ASSUME \/ EnrollReread(d) \/ Probe(d) \/ Report(d) \/ Lookup(d) \/ LookupFails(d)
             \/ InsertUnreachable(d) \/ Abandon(d)
             \/ InsertMedia(d) \/ SetBootOverride(d) \/ EjectMedia(d) \/ PowerAction(d)
      PROVE  req'[d].iso # None => WasReady(req'[d].iso)
  <2>1. req[d] \in Requesting
    OBVIOUS
  <2>2. ASSUME Return(d) PROVE req'[d].iso = None
    BY <2>2 DEF Return, Idle
  <2>3. ASSUME NEW pc, Goto(d, pc) PROVE req'[d].iso = req[d].iso
    BY <2>1, <2>3 DEF Goto, Requesting
  <2>4. ASSUME Continue(d) PROVE req'[d].iso \in {None, req[d].iso}
    BY <2>2, <2>3, <2>4 DEF Continue
  <2>5. ASSUME Probe(d) \/ Lookup(d) PROVE req'[d].iso = req[d].iso
    <3>1. CASE Probe(d)
      <4>1. PICK result \in Classified :
               req' = [req EXCEPT ![d] = [@ EXCEPT !.pc = "report", !.result = result,
                         !.power = IF result = "reachable" THEN bmc[req[d].host].power ELSE None]]
        BY <3>1 DEF Probe
      <4>2. QED
        BY <2>1, <4>1 DEF Requesting
    <3>2. CASE Lookup(d)
      <4>1. PICK i \in Ids :
               req' = [req EXCEPT ![d] = [@ EXCEPT !.pc = "insert", !.id = i,
                         !.host = rows[i].host, !.power = rows[i].power]]
        BY <3>2 DEF Lookup
      <4>2. QED
        BY <2>1, <4>1 DEF Requesting
    <3>3. QED
      BY <2>5, <3>1, <3>2
  <2>6. ASSUME InsertMedia(d) \/ SetBootOverride(d) \/ EjectMedia(d) \/ PowerAction(d)
        PROVE  req'[d].iso \in {None, req[d].iso}
    BY <2>2, <2>4, <2>6 DEF InsertMedia, SetBootOverride, EjectMedia, PowerAction, Call
  <2>7. req'[d].iso \in {None, req[d].iso}
    BY <1>3, <2>2, <2>3, <2>5, <2>6
       DEF EnrollReread, Report, LookupFails, InsertUnreachable, Abandon
  <2>8. QED
    BY <2>7 DEF AskedWasReady
<1>4. QED
  BY <1>1, <1>2, <1>3 DEF Handle

LEMMA MountedStep ==
  ASSUME TypeOK, ImagesWereReady, NEW d \in Clients, Handle(d), NEW h \in Hosts
  PROVE  /\ bmc'[h].image # None => WasReady(bmc'[h].image)
         /\ bmc'[h].running \in IsoIds => WasReady(bmc'[h].running)
<1> USE DEF TypeOK
<1>1. CASE bmc'[h] = bmc[h]
  BY <1>1 DEF ImagesWereReady, MountedWasReady
<1>2. CASE InsertMedia(d) /\ bmc'[h] # bmc[h]
  <2>1. h = req[d].host /\ bmc'[h] = [bmc[h] EXCEPT !.image = req[d].iso]
    BY <1>2 DEF InsertMedia, Call, Apply
  <2>2. bmc[h] \in Controllers
    OBVIOUS
  <2>3. bmc'[h].image = req[d].iso /\ bmc'[h].running = bmc[h].running
    BY <2>1, <2>2 DEF Controllers
  <2>4. QED
    BY <2>3 DEF ImagesWereReady, AskedWasReady, MountedWasReady
<1>3. CASE (EjectMedia(d) \/ SetBootOverride(d)) /\ bmc'[h] # bmc[h]
  <2>1. \/ bmc'[h] = [bmc[h] EXCEPT !.image = None]
        \/ bmc'[h] = [bmc[h] EXCEPT !.override = TRUE]
    BY <1>3 DEF EjectMedia, SetBootOverride, Call, Apply
  <2>2. bmc[h] \in Controllers
    OBVIOUS
  <2>3. bmc'[h].image \in {None, bmc[h].image} /\ bmc'[h].running = bmc[h].running
    BY <2>1, <2>2 DEF Controllers
  <2>4. QED
    BY <2>3 DEF ImagesWereReady, MountedWasReady
<1>4. CASE PowerAction(d) /\ bmc'[h] # bmc[h]
  <2>1. ResetType(d) \in ResetTypes
    BY <1>4 DEF ResetType, ResetTypes, PowerAction, At, Requesting
  <2>2. bmc'[h] = Reset(bmc[h], ResetType(d))
    BY <1>4 DEF PowerAction, Call, Apply
  <2>3. bmc'[h].image = bmc[h].image /\ bmc'[h].running \in {bmc[h].image, bmc[h].running, "disk", None}
    BY <2>1, <2>2, ResetEffect
  <2>4. QED
    BY <2>3, FleetAssumption DEF ImagesWereReady, MountedWasReady
<1>5. QED
  BY <1>1, <1>2, <1>3, <1>4
     DEF Handle, EnrollInsert, EnrollReread, TestLookup, Probe, Report, PowerLookup, ResolveISO,
         Lookup, LookupFails, InsertUnreachable, EjectLookup, Abandon

LEMMA ImagesStep == TypeOK /\ ImagesWereReady /\ [Next]_vars => ImagesWereReady'
<1> SUFFICES ASSUME TypeOK, ImagesWereReady, [Next]_vars PROVE ImagesWereReady'
  OBVIOUS
<1>1. ASSUME NEW d \in Clients, Handle(d) PROVE ImagesWereReady'
  <2>1. AskedWasReady /\ UNCHANGED life
    BY <1>1, OthersKept DEF ImagesWereReady
  <2>2. AskedWasReady'
    BY <1>1, <2>1, OthersKept, AskedStep DEF AskedWasReady, WasReady
  <2>3. MountedWasReady'
    BY <1>1, <2>1, MountedStep DEF MountedWasReady, WasReady
  <2>4. QED
    BY <2>2, <2>3 DEF ImagesWereReady
<1>2. CASE LibraryStep
  <2>1. \A i \in IsoIds : WasReady(i) => WasReady(i)'
    BY ReadyStays
  <2>2. /\ \A c \in Clients : req[c].iso \in IsoIds \union {None}
        /\ \A h \in Hosts : bmc[h].image \in IsoIds \union {None}
    BY DEF TypeOK, Requesting, Controllers
  <2>3. QED
    BY <1>2, <2>1, <2>2
       DEF LibraryStep, ImagesWereReady, AskedWasReady, MountedWasReady
<1>3. ASSUME NEW h \in Hosts, Halt(h) \/ Reboot(h) PROVE ImagesWereReady'
  <2>1. \A g \in Hosts : /\ bmc'[g].image = bmc[g].image
                         /\ bmc'[g].running \in {bmc[g].image, bmc[g].running, "disk", None}
    <3>1. bmc[h] \in Controllers
      BY DEF TypeOK
    <3>2. CASE Halt(h)
      BY <3>1, <3>2 DEF Halt, TypeOK, Controllers
    <3>3. CASE Reboot(h)
      BY <3>1, <3>3, BootedType DEF Reboot, TypeOK
    <3>4. QED
      BY <1>3, <3>2, <3>3
  <2>2. UNCHANGED <<req, life>>
    BY <1>3 DEF Halt, Reboot
  <2>3. QED
    BY <2>1, <2>2, FleetAssumption
       DEF ImagesWereReady, AskedWasReady, MountedWasReady, WasReady
<1>4. ASSUME NEW i \in Ids, DeleteServer(i) PROVE ImagesWereReady'
  BY <1>4 DEF DeleteServer, ImagesWereReady, AskedWasReady, MountedWasReady, WasReady
<1>5. CASE UNCHANGED vars
  BY <1>5 DEF vars, ImagesWereReady, AskedWasReady, MountedWasReady, WasReady
<1>6. QED
  BY <1>1, <1>2, <1>3, <1>4, <1>5 DEF Next, Rest

LEMMA ImagesInit == Init => ImagesWereReady
<1> SUFFICES ASSUME Init PROVE ImagesWereReady
  OBVIOUS
<1>1. \A c \in Clients : req[c].iso = None
  BY DEF Init, Idle
<1>2. /\ Off.image = None /\ Off.running = None
      /\ Running.image = None /\ Running.running = "disk"
  BY DEF Off, Running
<1>3. \A h \in Hosts : bmc[h].image = None /\ bmc[h].running \in {None, "disk"}
  BY <1>2 DEF Init
<1>4. QED
  BY <1>1, <1>3, FleetAssumption DEF ImagesWereReady, AskedWasReady, MountedWasReady

(***************************************************************************)
(* No BMC is given and no machine runs an image that was not ready when    *)
(* it was asked for, whoever deletes or settles images meanwhile.          *)
(***************************************************************************)
THEOREM MountedWasReadyCorrect == Spec => []MountedWasReady
<1>1. ImagesWereReady => MountedWasReady
  BY DEF ImagesWereReady
<1>2. QED
  BY <1>1, TypeCorrect, ImagesInit, ImagesStep, PTL DEF Spec

---------------------------------------------------------------------------
(* The table as an inventory *)

\* Ids not handed out yet name nothing, and a request that looked its server
\* up has the address of its row as long as there is one.
UnusedIds == \A i \in Ids : i >= nextId => rows[i] = NoRow

LinkedRequests == \A c \in Clients : req[c].pc \notin {"idle", "lookup"} =>
    /\ req[c].id < nextId
    /\ Exists(req[c].id) => rows[req[c].id].host = req[c].host

Linked == UnusedIds /\ LinkedRequests

LEMMA InventoryInit == Init => Linked /\ Fleet!Init
BY DEF Init, Linked, UnusedIds, LinkedRequests, Idle, Fleet!Init, Fleet!Unborn, entry, Exists,
       NoRow, Ids

LEMMA ExistingId ==
  ASSUME TypeOK, Linked, NEW i \in Ids, Exists(i)
  PROVE  i < nextId /\ rows[i] \in Rows \ {NoRow}
<1>1. i \in Int /\ nextId \in Int
  BY DEF TypeOK, Ids
<1>2. rows[i] # NoRow
  BY DEF Exists, NoRow
<1>3. ~(i >= nextId)
  BY <1>2 DEF Linked, UnusedIds
<1>4. QED
  BY <1>1, <1>2, <1>3 DEF TypeOK

LEMMA ObservedRow ==
  ASSUME NEW row \in Rows, row # NoRow, NEW h, NEW result \in Results, NEW power
  PROVE  /\ Observed(row, result, h, power).host = row.host
         /\ Observed(row, result, h, power).status \in {"reachable", "unreachable", "error"}
         /\ \/ Observed(row, result, h, power).serial = row.serial
            \/ /\ Observed(row, result, h, power).serial = h
               /\ Observed(row, result, h, power).status = "reachable"
BY DEF Observed, Rows, Results

LEMMA EnrollStep ==
  ASSUME TypeOK, Linked, NEW n \in Names, NEW h \in Hosts, InsertRow(n, h)
  PROVE  Fleet!Next
<1>1. nextId \in Ids /\ nextId \in Int /\ nextId' = nextId + 1
  BY DEF InsertRow, Ids
<1>2. rows[nextId] = NoRow
  BY <1>1 DEF Linked, UnusedIds
<1>3. entry[nextId] = Fleet!Unborn
  BY <1>1, <1>2 DEF entry, Exists, NoRow, Fleet!Unborn
<1>4. rows'[nextId] = [status |-> "unknown", name |-> n, host |-> h, power |-> None, serial |-> None]
  BY <1>1 DEF InsertRow, NoRow, TypeOK
<1>5. entry'[nextId] = [state |-> "unknown", host |-> h, serial |-> None]
  BY <1>1, <1>4 DEF entry, Exists
<1>6. \A i \in Ids : i # nextId => rows'[i] = rows[i] /\ (i < nextId' <=> i < nextId)
  BY <1>1 DEF InsertRow, TypeOK, Ids
<1>7. \A i \in Ids : i # nextId => entry'[i] = entry[i]
  BY <1>6 DEF entry, Exists
<1>8. entry' = [entry EXCEPT ![nextId] = [state |-> "unknown", host |-> h, serial |-> None]]
  BY <1>1, <1>5, <1>7 DEF entry
<1>9. Fleet!Enroll(nextId, h)
  BY <1>3, <1>8 DEF Fleet!Enroll
<1>10. QED
  BY <1>1, <1>9 DEF Fleet!Next

LEMMA UpdateStep ==
  ASSUME TypeOK, Linked, NEW i \in Ids, NEW h, NEW result \in Results, NEW power,
         UpdateReachability(i, result, h, power), Exists(i) => rows[i].host = h
  PROVE  Fleet!Next \/ UNCHANGED entry
<1>1. CASE ~Exists(i)
  BY <1>1 DEF UpdateReachability, entry, Exists
<1>2. CASE Exists(i)
  <2> DEFINE row == Observed(rows[i], result, h, power)
  <2>1. rows[i] \in Rows \ {NoRow}
    BY <1>2, ExistingId
  <2>2. rows' = [rows EXCEPT ![i] = row] /\ nextId' = nextId /\ rows'[i] = row
    BY <1>2 DEF UpdateReachability, TypeOK
  <2>3. /\ row.host = rows[i].host /\ row.status \in {"reachable", "unreachable", "error"}
        /\ row.serial = rows[i].serial \/ (row.serial = rows[i].host /\ row.status = "reachable")
    BY <1>2, <2>1, ObservedRow
  <2> HIDE DEF row
  <2>4. entry[i] = [state |-> rows[i].status, host |-> rows[i].host, serial |-> rows[i].serial]
    BY <1>2 DEF entry
  <2>5. entry'[i] = [state |-> row.status, host |-> rows[i].host, serial |-> row.serial]
    BY <2>2, <2>3 DEF entry, Exists
  <2>6. \A j \in Ids : j # i => entry'[j] = entry[j]
    BY <2>2 DEF entry, Exists, TypeOK
  <2>7. entry' = [entry EXCEPT ![i] = [state |-> row.status, host |-> entry[i].host,
                                      serial |-> row.serial]]
    BY <2>4, <2>5, <2>6 DEF entry
  <2>8. Fleet!Listed(i)
    BY <2>1, <2>4 DEF Fleet!Listed, Fleet!Outcomes, Rows, NoRow
  <2>9. row.serial \in {entry[i].serial} \union
                       (IF row.status = "reachable" THEN {entry[i].host} ELSE {})
    BY <2>3, <2>4
  <2>10. Fleet!Observe(i, row.status)
    BY <2>7, <2>8, <2>9 DEF Fleet!Observe
  <2>11. QED
    BY <2>3, <2>10 DEF Fleet!Next, Fleet!Outcomes
<1>3. QED
  BY <1>1, <1>2

LEMMA ObserveStep ==
  ASSUME TypeOK, Linked, NEW c \in Clients, Report(c)
  PROVE  Fleet!Next \/ UNCHANGED entry
<1>1. /\ req[c].id \in Ids /\ req[c].result \in Results
      /\ UpdateReachability(req[c].id, req[c].result, req[c].host, req[c].power)
  BY DEF Report, At, TypeOK, Requesting
<1>2. Exists(req[c].id) => rows[req[c].id].host = req[c].host
  BY DEF Linked, LinkedRequests, Report, At
<1>3. QED
  BY <1>1, <1>2, UpdateStep

LEMMA RemoveStep ==
  ASSUME TypeOK, Linked, NEW i \in Ids, DeleteServer(i)
  PROVE  Fleet!Next
<1>1. Exists(i) /\ rows' = [rows EXCEPT ![i] = NoRow] /\ nextId' = nextId
  BY DEF DeleteServer
<1>2. i < nextId /\ rows[i] \in Rows \ {NoRow}
  BY <1>1, ExistingId
<1>3. Fleet!Listed(i)
  BY <1>1, <1>2 DEF entry, Fleet!Listed, Fleet!Outcomes, Rows, NoRow
<1>4. entry'[i] = [state |-> "removed", host |-> None, serial |-> None]
  BY <1>1, <1>2 DEF entry, Exists, NoRow, TypeOK
<1>5. \A j \in Ids : j # i => entry'[j] = entry[j]
  BY <1>1 DEF entry, Exists, TypeOK
<1>6. entry' = [entry EXCEPT ![i] = [Fleet!Unborn EXCEPT !.state = "removed"]]
  BY <1>4, <1>5 DEF entry, Fleet!Unborn
<1>7. QED
  BY <1>3, <1>6 DEF Fleet!Remove, Fleet!Next

LEMMA InventoryStep == TypeOK /\ Linked /\ [Next]_vars => [Fleet!Next]_entry
<1> SUFFICES ASSUME TypeOK, Linked, [Next]_vars PROVE Fleet!Next \/ UNCHANGED entry
  OBVIOUS
<1>1. ASSUME UNCHANGED catalog PROVE UNCHANGED entry
  BY <1>1 DEF catalog, entry, Exists
<1>2. ASSUME NEW c \in Clients, EnrollInsert(c) PROVE Fleet!Next
  BY <1>2, EnrollStep DEF EnrollInsert
<1>3. ASSUME NEW c \in Clients, Report(c) PROVE Fleet!Next \/ UNCHANGED entry
  BY <1>3, ObserveStep
<1>4. ASSUME NEW i \in Ids, DeleteServer(i) PROVE Fleet!Next
  BY <1>4, RemoveStep
<1>5. CASE \E c \in Clients :
          \/ EnrollReread(c) \/ TestLookup(c) \/ Probe(c) \/ PowerLookup(c) \/ PowerAction(c)
          \/ ResolveISO(c) \/ Lookup(c) \/ LookupFails(c) \/ InsertMedia(c)
          \/ InsertUnreachable(c) \/ SetBootOverride(c) \/ EjectLookup(c) \/ EjectMedia(c)
          \/ Abandon(c)
  BY <1>1, <1>5
     DEF EnrollReread, TestLookup, Probe, PowerLookup, PowerAction, ResolveISO, Lookup,
         LookupFails, InsertMedia, InsertUnreachable, SetBootOverride, EjectLookup, EjectMedia,
         Abandon
<1>6. CASE (\E h \in Hosts : Halt(h) \/ Reboot(h)) \/ LibraryStep \/ UNCHANGED vars
  BY <1>1, <1>6 DEF Halt, Reboot, LibraryStep, vars, catalog
<1>7. QED
  BY <1>2, <1>3, <1>4, <1>5, <1>6 DEF Next, Handle, Rest

\* The table keeps its addresses and its unused ids.
LEMMA TableStep ==
  ASSUME TypeOK, Linked, [Next]_vars
  PROVE  /\ UnusedIds' /\ nextId' >= nextId
         /\ \A i \in Ids : i < nextId /\ Exists(i)' => Exists(i) /\ rows'[i].host = rows[i].host
<1> USE DEF TypeOK
<1>1. CASE UNCHANGED catalog
  BY <1>1 DEF catalog, Linked, UnusedIds, Exists
<1>2. ASSUME NEW n \in Names, NEW h \in Hosts, InsertRow(n, h)
      PROVE  /\ UnusedIds' /\ nextId' >= nextId
             /\ \A i \in Ids : i < nextId => rows'[i] = rows[i]
  BY <1>2 DEF InsertRow, Linked, UnusedIds, Ids
<1>3. ASSUME NEW c \in Clients, Report(c)
      PROVE  /\ UnusedIds' /\ nextId' = nextId
             /\ \A i \in Ids : Exists(i)' => Exists(i) /\ rows'[i].host = rows[i].host
  <2>1. /\ req[c].id \in Ids /\ req[c].result \in Results /\ nextId' = nextId
        /\ UpdateReachability(req[c].id, req[c].result, req[c].host, req[c].power)
    BY <1>3 DEF Report, At, Requesting, UpdateReachability
  <2>2. CASE ~Exists(req[c].id)
    BY <2>1, <2>2 DEF UpdateReachability, Linked, UnusedIds, Exists
  <2>3. CASE Exists(req[c].id)
    <3>1. req[c].id < nextId /\ rows[req[c].id] \in Rows \ {NoRow}
      BY <2>1, <2>3, ExistingId
    <3>2. Observed(rows[req[c].id], req[c].result, req[c].host, req[c].power).host
             = rows[req[c].id].host
      BY <2>1, <3>1, ObservedRow
    <3>3. QED
      BY <2>1, <2>3, <3>1, <3>2 DEF UpdateReachability, Linked, UnusedIds, Exists, Ids
  <2>4. QED
    BY <2>2, <2>3
<1>4. ASSUME NEW i \in Ids, DeleteServer(i)
      PROVE  /\ UnusedIds' /\ nextId' = nextId
             /\ \A j \in Ids : Exists(j)' => rows'[j] = rows[j]
  BY <1>4 DEF DeleteServer, Linked, UnusedIds, Exists, NoRow
<1>5. ASSUME NEW c \in Clients, Handle(c)
      PROVE  \/ UNCHANGED catalog \/ Report(c)
             \/ \E n \in Names, h \in Hosts : InsertRow(n, h)
  BY <1>5
     DEF Handle, EnrollInsert, EnrollReread, TestLookup, Probe, PowerLookup, PowerAction,
         ResolveISO, Lookup, LookupFails, InsertMedia, InsertUnreachable, SetBootOverride,
         EjectLookup, EjectMedia, Abandon
<1>6. CASE (\E h \in Hosts : Halt(h) \/ Reboot(h)) \/ LibraryStep \/ UNCHANGED vars
  <2>1. UNCHANGED catalog
    BY <1>6 DEF Halt, Reboot, LibraryStep, vars, catalog
  <2>2. QED
    BY <1>1, <2>1
<1>7. CASE \E c \in Clients : Handle(c)
  BY <1>1, <1>2, <1>3, <1>5, <1>7 DEF Exists, Ids
<1>8. CASE \E i \in Ids : DeleteServer(i)
  BY <1>4, <1>8 DEF Exists
<1>9. QED
  BY <1>6, <1>7, <1>8 DEF Next, Rest

\* A step of a request ends it, keeps its server, or gives it one of the table.
LEMMA ServerKept ==
  ASSUME TypeOK, NEW d \in Clients, Handle(d)
  PROVE  \/ req'[d].pc \in {"idle", "lookup"}
         \/ /\ req[d].pc \notin {"idle", "lookup"}
            /\ req'[d].id = req[d].id /\ req'[d].host = req[d].host
         \/ \E i \in Ids : /\ Exists(i) /\ UNCHANGED catalog /\ MayUse(rows[i].host)
                           /\ req'[d].id = i /\ req'[d].host = rows[i].host
         \/ \E n \in Names, h \in Hosts : /\ InsertRow(n, h) /\ MayUse(h)
                                          /\ req'[d].id = nextId /\ req'[d].host = h
<1> USE DEF TypeOK
<1>1. req[d] \in Requesting
  OBVIOUS
<1>2. ASSUME Return(d) PROVE req'[d].pc = "idle"
  BY <1>2 DEF Return, Idle
<1>3. ASSUME NEW pc, Goto(d, pc)
      PROVE  req'[d].id = req[d].id /\ req'[d].host = req[d].host
  BY <1>1, <1>3 DEF Goto, Requesting
<1>4. CASE EnrollInsert(d)
  BY <1>4 DEF EnrollInsert, Idle
<1>5. CASE TestLookup(d)
  BY <1>5 DEF TestLookup, Idle
<1>6. CASE PowerLookup(d)
  BY <1>6 DEF PowerLookup, Idle
<1>7. CASE EjectLookup(d)
  BY <1>7 DEF EjectLookup, Idle
<1>8. CASE Lookup(d)
  <2>1. PICK i \in Ids :
           /\ Exists(i) /\ UNCHANGED catalog /\ MayUse(rows[i].host)
           /\ req' = [req EXCEPT ![d] = [@ EXCEPT !.pc = "insert", !.id = i,
                         !.host = rows[i].host, !.power = rows[i].power]]
    BY <1>8 DEF Lookup
  <2>2. req'[d].id = i /\ req'[d].host = rows[i].host
    BY <1>1, <2>1 DEF Requesting
  <2>3. QED
    BY <2>1, <2>2
<1>9. CASE ResolveISO(d)
  BY <1>9 DEF ResolveISO, Idle
<1>10. CASE Probe(d)
  <2>1. PICK result \in Classified :
           req' = [req EXCEPT ![d] = [@ EXCEPT !.pc = "report", !.result = result,
                     !.power = IF result = "reachable" THEN bmc[req[d].host].power ELSE None]]
    BY <1>10 DEF Probe
  <2>2. QED
    BY <1>1, <1>10, <2>1 DEF Probe, At, Requesting
<1>11. CASE EnrollReread(d)
  BY <1>2, <1>3, <1>11 DEF EnrollReread, At
<1>12. CASE Report(d) \/ LookupFails(d) \/ InsertUnreachable(d) \/ Abandon(d)
  BY <1>2, <1>12 DEF Report, LookupFails, InsertUnreachable, Abandon
<1>13. CASE InsertMedia(d) \/ SetBootOverride(d) \/ EjectMedia(d) \/ PowerAction(d)
  <2>1. Return(d) \/ Continue(d)
    BY <1>13 DEF InsertMedia, SetBootOverride, EjectMedia, PowerAction, Call
  <2>2. req[d].pc \notin {"idle", "lookup"}
    BY <1>13 DEF InsertMedia, SetBootOverride, EjectMedia, PowerAction, At
  <2>3. QED
    BY <1>2, <1>3, <2>1, <2>2 DEF Continue
<1>14. QED
  BY <1>4, <1>5, <1>6, <1>7, <1>8, <1>9, <1>10, <1>11, <1>12, <1>13 DEF Handle

LEMMA LinkedStep == TypeOK /\ Linked /\ [Next]_vars => Linked'
<1> SUFFICES ASSUME TypeOK, Linked, [Next]_vars PROVE Linked'
  OBVIOUS
<1> DEFINE Links(c) == req[c].pc \notin {"idle", "lookup"} =>
               /\ req[c].id < nextId
               /\ Exists(req[c].id) => rows[req[c].id].host = req[c].host
<1>1. /\ UnusedIds' /\ nextId' >= nextId /\ nextId \in Int /\ nextId' \in Int
      /\ \A i \in Ids : i < nextId /\ Exists(i)' => Exists(i) /\ rows'[i].host = rows[i].host
  <2>1. TypeOK'
    BY TypeStep
  <2>2. QED
    BY <2>1, TableStep DEF TypeOK
<1>2. \A c \in Clients : req[c] \in Requesting
  BY DEF TypeOK
<1>3. ASSUME NEW c \in Clients, req'[c].pc \notin {"idle", "lookup"},
             req[c].pc \notin {"idle", "lookup"},
             req'[c].id = req[c].id, req'[c].host = req[c].host
      PROVE  Links(c)'
  <2>1. req[c].id \in Ids /\ req[c].id \in Int
    BY <1>2, <1>3 DEF Requesting, Ids
  <2>2. QED
    BY <1>1, <1>3, <2>1 DEF Linked, LinkedRequests, Exists
<1>4. ASSUME NEW d \in Clients, Handle(d), NEW c \in Clients PROVE Links(c)'
  <2>1. CASE c # d
    <3>1. req'[c] = req[c]
      BY <1>4, <2>1, OthersKept
    <3>2. QED
      BY <1>3, <3>1
  <2>2. CASE c = d /\ req[c].pc \notin {"idle", "lookup"}
             /\ req'[c].id = req[c].id /\ req'[c].host = req[c].host
    BY <1>3, <2>2
  <2>3. ASSUME c = d, NEW i \in Ids, Exists(i), UNCHANGED catalog,
               req'[d].id = i, req'[d].host = rows[i].host
        PROVE  Links(c)'
    <3>1. i < nextId
      BY <2>3, ExistingId
    <3>2. QED
      BY <2>3, <3>1 DEF catalog
  <2>4. ASSUME c = d, NEW n \in Names, NEW h \in Hosts, InsertRow(n, h),
               req'[d].id = nextId, req'[d].host = h
        PROVE  Links(c)'
    <3>1. nextId' = nextId + 1 /\ rows'[nextId].host = h
      BY <2>4 DEF InsertRow, NoRow, TypeOK
    <3>2. QED
      BY <1>1, <2>4, <3>1
  <2>5. CASE c = d /\ req'[c].pc \in {"idle", "lookup"}
    BY <2>5
  <2>6. QED
    BY <1>4, <2>1, <2>2, <2>3, <2>4, <2>5, ServerKept
<1>5. \A c \in Clients : Links(c)'
  <2>1. CASE (\E i \in Ids : DeleteServer(i)) \/ (\E h \in Hosts : Halt(h) \/ Reboot(h))
             \/ LibraryStep \/ UNCHANGED vars
    <3>1. UNCHANGED req
      BY <2>1 DEF DeleteServer, Halt, Reboot, LibraryStep, vars
    <3>2. QED
      BY <1>3, <3>1
  <2>2. QED
    BY <1>4, <2>1 DEF Next, Rest
<1>6. QED
  BY <1>1, <1>5 DEF Linked, LinkedRequests

(***************************************************************************)
(* The table is an inventory: ids name one machine, a server that is gone  *)
(* stays gone, and the serial number stored for a server was read from its *)
(* own BMC, however late the report of a probe arrives.                    *)
(***************************************************************************)
THEOREM InventoryCorrect == Spec => InventorySpec
BY TypeCorrect, InventoryInit, LinkedStep, InventoryStep, PTL
   DEF Spec, InventorySpec, Fleet!Spec

---------------------------------------------------------------------------
(* What the admins' discipline gives *)

\* No two requests work on one BMC.
OneEach == \A c, d \in Clients :
    c # d => req[c].host = None \/ req[c].host # req[d].host

LEMMA OneEachStep ==
  ASSUME Coordinated, TypeOK, OneEach, [Next]_vars
  PROVE  OneEach'
<1>1. TypeOK'
  BY TypeStep
<1>2. ASSUME NEW d \in Clients, Handle(d) PROVE OneEach'
  <2>1. \A c \in Clients : c # d => req'[c] = req[c]
    BY <1>2, OthersKept
  <2>2. \/ req'[d].host = None \/ req'[d].host = req[d].host
        \/ \A c \in Clients : req[c].host # req'[d].host
    <3>1. req'[d].pc \in {"idle", "lookup"} => req'[d].host = None
      BY <1>1 DEF TypeOK, Requesting
    <3>2. QED
      BY <1>2, <3>1, ServerKept DEF MayUse
  <2>3. QED
    BY <2>1, <2>2 DEF OneEach
<1>3. CASE (\E i \in Ids : DeleteServer(i)) \/ (\E h \in Hosts : Halt(h) \/ Reboot(h))
           \/ LibraryStep \/ UNCHANGED vars
  BY <1>3 DEF DeleteServer, Halt, Reboot, LibraryStep, vars, OneEach
<1>4. QED
  BY <1>2, <1>3 DEF Next, Rest

LEMMA OneEachInit == Init => OneEach
BY DEF Init, OneEach, Idle

\* Under it a step of another request is no step of this one, nor of its BMC.
LEMMA Undisturbed ==
  ASSUME TypeOK, OneEach, NEW d \in Clients, Handle(d),
         NEW c \in Clients, c # d, req[c].pc \notin {"idle", "lookup"}
  PROVE  req'[c] = req[c] /\ bmc'[req[c].host] = bmc[req[c].host]
<1>1. req[c].host \in Hosts /\ req[c].host # req[d].host
  BY FleetAssumption DEF TypeOK, Requesting, OneEach
<1>2. QED
  BY <1>1, OthersKept

\* A machine that finishes its shutdown, or restarts, by itself.
LEMMA MachineStep ==
  ASSUME TypeOK, NEW g \in Hosts, Halt(g) \/ Reboot(g), NEW h \in Hosts
  PROVE  /\ UNCHANGED req
         /\ \/ bmc'[h] = bmc[h]
            \/ bmc[h].power = "PoweringOff" /\ bmc'[h].power = "Off"
               /\ bmc'[h].image = bmc[h].image /\ bmc'[h].override = bmc[h].override
            \/ "reboot" \in Faults /\ bmc[h].power = "On" /\ bmc'[h].power = "On"
<1>1. bmc[g] \in Controllers
  BY DEF TypeOK
<1>2. CASE Halt(g)
  BY <1>1, <1>2 DEF Halt, TypeOK, Controllers
<1>3. CASE Reboot(g)
  BY <1>1, <1>3, BootedType DEF Reboot, TypeOK, Fails
<1>4. QED
  BY <1>2, <1>3

---------------------------------------------------------------------------
(* The reported power state *)

LEMMA FreshStep ==
  ASSUME Coordinated, TypeOK, OneEach, ReportsAreFresh, [Next]_vars
  PROVE  ReportsAreFresh'
<1> DEFINE Fresh(c) == At(c, "report") /\ req[c].result = "reachable" =>
               \/ req[c].power = bmc[req[c].host].power
               \/ req[c].power = "PoweringOff" /\ bmc[req[c].host].power = "Off"
<1>1. \A c \in Clients : Fresh(c)
  BY DEF ReportsAreFresh
<1>2. ASSUME NEW c \in Clients, req'[c] = req[c],
             req[c].pc \notin {"idle", "lookup"} => bmc'[req[c].host] = bmc[req[c].host]
      PROVE  Fresh(c)'
  BY <1>1, <1>2 DEF At
<1>3. ASSUME NEW d \in Clients, Handle(d) PROVE Fresh(d)'
  <2>1. req[d] \in Requesting
    BY DEF TypeOK
  <2>2. CASE Probe(d)
    <3>1. PICK result \in Classified :
             req' = [req EXCEPT ![d] = [@ EXCEPT !.pc = "report", !.result = result,
                       !.power = IF result = "reachable" THEN bmc[req[d].host].power ELSE None]]
      BY <2>2 DEF Probe
    <3>2. /\ req'[d].host = req[d].host /\ req'[d].result = result
          /\ result = "reachable" => req'[d].power = bmc[req[d].host].power
      BY <2>1, <3>1 DEF Requesting, TypeOK
    <3>3. QED
      BY <2>2, <3>2 DEF Probe
  <2>3. CASE EnrollInsert(d) \/ TestLookup(d) \/ PowerLookup(d) \/ EjectLookup(d) \/ ResolveISO(d)
    BY <2>3 DEF EnrollInsert, TestLookup, PowerLookup, EjectLookup, ResolveISO, Idle, At, TypeOK
  <2>4. CASE Lookup(d)
    <3>1. PICK i \in Ids :
             req' = [req EXCEPT ![d] = [@ EXCEPT !.pc = "insert", !.id = i,
                       !.host = rows[i].host, !.power = rows[i].power]]
      BY <2>4 DEF Lookup
    <3>2. req'[d].pc = "insert"
      BY <2>1, <3>1 DEF Requesting, TypeOK
    <3>3. QED
      BY <3>2 DEF At
  <2>5. ASSUME Return(d) PROVE req'[d].pc = "idle"
    BY <2>5 DEF Return, Idle, TypeOK
  <2>6. ASSUME NEW pc \in {"probe", "override", "reset"}, Goto(d, pc) PROVE req'[d].pc = pc
    BY <2>1, <2>6 DEF Goto, Requesting, TypeOK
  <2>7. ASSUME Continue(d) PROVE req'[d].pc # "report"
    <3>1. Following(d) \in {"idle", "probe", "override", "reset"}
      BY DEF Following
    <3>2. QED
      BY <2>5, <2>6, <2>7, <3>1 DEF Continue
  <2>8. CASE \/ EnrollReread(d) \/ Report(d) \/ LookupFails(d) \/ InsertUnreachable(d) \/ Abandon(d)
             \/ InsertMedia(d) \/ SetBootOverride(d) \/ EjectMedia(d) \/ PowerAction(d)
    <3>1. req'[d].pc # "report"
      BY <2>5, <2>6, <2>7, <2>8
         DEF EnrollReread, Report, LookupFails, InsertUnreachable, Abandon,
             InsertMedia, SetBootOverride, EjectMedia, PowerAction, Call
    <3>2. QED
      BY <3>1 DEF At
  <2>9. QED
    BY <1>3, <2>2, <2>3, <2>4, <2>8 DEF Handle
<1>4. ASSUME NEW d \in Clients, Handle(d), NEW c \in Clients PROVE Fresh(c)'
  <2>1. CASE c # d
    BY <1>2, <1>4, <2>1, Undisturbed, OthersKept
  <2>2. QED
    BY <1>3, <1>4, <2>1
<1>5. ASSUME NEW g \in Hosts, Halt(g) \/ Reboot(g), NEW c \in Clients PROVE Fresh(c)'
  <2>1. CASE At(c, "report")
    <3>1. req[c].host \in Hosts
      BY <2>1 DEF At, TypeOK, Requesting
    <3>2. QED
      BY <1>1, <1>5, <3>1, MachineStep DEF At
  <2>2. CASE ~At(c, "report")
    BY <1>5, <2>2, MachineStep DEF At, Halt, Reboot
  <2>3. QED
    BY <2>1, <2>2
<1>6. ASSUME (\E i \in Ids : DeleteServer(i)) \/ LibraryStep \/ UNCHANGED vars,
             NEW c \in Clients
      PROVE  Fresh(c)'
  BY <1>2, <1>6 DEF DeleteServer, LibraryStep, vars
<1>7. \A c \in Clients : Fresh(c)'
  BY <1>4, <1>5, <1>6 DEF Next, Rest
<1>8. QED
  BY <1>7 DEF ReportsAreFresh

(***************************************************************************)
(* The power state a request stores is the machine's, as long as admins    *)
(* use a BMC one request at a time; machines may restart by themselves.    *)
(***************************************************************************)
THEOREM ReportsFreshCorrect ==
  ASSUME Coordinated
  PROVE  Spec => []ReportsAreFresh
<1>1. Init => ReportsAreFresh
  BY DEF Init, ReportsAreFresh, At, Idle
<1>2. TypeOK /\ OneEach /\ [Next]_vars => OneEach'
  BY OneEachStep
<1>3. TypeOK /\ OneEach /\ ReportsAreFresh /\ [Next]_vars => ReportsAreFresh'
  BY FreshStep
<1>4. QED
  BY <1>1, <1>2, <1>3, TypeCorrect, OneEachInit, PTL DEF Spec

---------------------------------------------------------------------------
(* Booting from an image *)

\* How far the BMC is with a boot request that has come to pc.
Progress(c) == req[c].kind = "boot" =>
    LET b == bmc[req[c].host] IN
    /\ req[c].pc # "reread"
    /\ req[c].pc \in {"override", "reset"} => b.image = req[c].iso
    /\ req[c].pc = "reset" => b.override
    /\ req[c].pc \in {"probe", "report"} =>
          b.running = req[c].iso /\ ~b.override /\ b.power = "On"

BootProgress == \A c \in Clients : Progress(c)

\* The calls of a boot request, each on what the one before left.
LEMMA BootCalls ==
  ASSUME TypeOK, BootProgress, NEW d \in Clients, req[d].kind = "boot",
         InsertMedia(d) \/ SetBootOverride(d) \/ EjectMedia(d) \/ PowerAction(d)
  PROVE  Progress(d)'
<1> DEFINE b == bmc[req[d].host]
<1>1. req[d] \in Requesting /\ Progress(d)
  BY DEF TypeOK, BootProgress
<1>2. req[d].host \in Hosts /\ b \in Controllers /\ req[d].iso \in IsoIds
  BY <1>1 DEF InsertMedia, SetBootOverride, EjectMedia, PowerAction, At, Requesting, TypeOK
<1>3. ASSUME Return(d) PROVE Progress(d)'
  <2>1. req'[d].kind = None
    BY <1>3 DEF Return, Idle, TypeOK
  <2>2. QED
    BY <2>1, FleetAssumption DEF Progress, Kinds
<1>4. ASSUME NEW pc, Goto(d, pc)
      PROVE  /\ req'[d].pc = pc /\ req'[d].host = req[d].host
             /\ req'[d].iso = req[d].iso
  BY <1>1, <1>4 DEF Goto, Requesting, TypeOK
<1>5. ASSUME NEW x, Apply(d, x) PROVE bmc'[req[d].host] = x
  BY <1>2, <1>5 DEF Apply, TypeOK
<1>6. CASE InsertMedia(d)
  <2>1. \/ Return(d)
        \/ Goto(d, "override") /\ Apply(d, [b EXCEPT !.image = req[d].iso])
    BY <1>6 DEF InsertMedia, Call, Continue, Following, At
  <2>2. [b EXCEPT !.image = req[d].iso].image = req[d].iso
    BY <1>2 DEF Controllers
  <2>3. ASSUME Goto(d, "override"), Apply(d, [b EXCEPT !.image = req[d].iso])
        PROVE  Progress(d)'
    <3>1. bmc'[req[d].host].image = req[d].iso
      BY <1>5, <2>2, <2>3
    <3>2. QED
      BY <1>4, <2>3, <3>1 DEF Progress
  <2>4. QED
    BY <1>3, <2>1, <2>3
<1>7. CASE SetBootOverride(d)
  <2>1. Return(d) \/ (Goto(d, "reset") /\ Apply(d, [b EXCEPT !.override = TRUE]))
    BY <1>7 DEF SetBootOverride, Call, Continue, Following, At
  <2>2. /\ [b EXCEPT !.override = TRUE].override
        /\ [b EXCEPT !.override = TRUE].image = req[d].iso
    BY <1>1, <1>2, <1>7 DEF Controllers, Progress, SetBootOverride, At
  <2>3. ASSUME Goto(d, "reset"), Apply(d, [b EXCEPT !.override = TRUE])
        PROVE  Progress(d)'
    <3>1. bmc'[req[d].host].override /\ bmc'[req[d].host].image = req[d].iso
      BY <1>5, <2>2, <2>3
    <3>2. QED
      BY <1>4, <2>3, <3>1 DEF Progress
  <2>4. QED
    BY <1>3, <2>1, <2>3
<1>8. CASE EjectMedia(d)
  BY <1>3, <1>8 DEF EjectMedia, Call, Continue, Following, At
<1>9. CASE PowerAction(d)
  <2>1. \/ Return(d)
        \/ /\ Goto(d, "probe") /\ Accepts(b, ResetType(d))
           /\ Apply(d, Reset(b, ResetType(d)))
    BY <1>9 DEF PowerAction, Call, Continue, Following, At
  <2>2. ResetType(d) = "ForceRestart" \/ (ResetType(d) = "On" /\ (Accepts(b, "On") => b.power = "Off"))
    BY DEF ResetType, Accepts
  <2>3. ResetType(d) \in ResetTypes
    BY <2>2 DEF ResetTypes
  <2>4. Accepts(b, ResetType(d)) => Reset(b, ResetType(d)) = Booted(b)
    BY <1>2, <2>2, <2>3, ResetEffect
  <2>5. b.override /\ b.image = req[d].iso /\ b.image # None
    BY <1>1, <1>2, <1>9, FleetAssumption DEF Progress, PowerAction, At
  <2>6. Booted(b).running = req[d].iso /\ ~Booted(b).override /\ Booted(b).power = "On"
    BY <1>2, <2>5, BootedType
  <2>7. ASSUME Goto(d, "probe"), bmc'[req[d].host] = Booted(b) PROVE Progress(d)'
    BY <1>4, <2>6, <2>7 DEF Progress
  <2>8. QED
    BY <1>3, <1>5, <2>1, <2>4, <2>7
<1>10. QED
  BY <1>6, <1>7, <1>8, <1>9

LEMMA BootOwnStep ==
  ASSUME TypeOK, BootProgress, NEW d \in Clients, Handle(d)
  PROVE  Progress(d)'
<1>1. req[d] \in Requesting /\ Progress(d)
  BY DEF TypeOK, BootProgress
<1>2. ASSUME req'[d].kind # "boot" \/ req'[d].pc \in {"idle", "lookup", "insert"} PROVE Progress(d)'
  BY <1>2 DEF Progress
<1>3. ASSUME Return(d) PROVE Progress(d)'
  BY <1>2, <1>3 DEF Return, Idle, TypeOK
<1>4. CASE \/ EnrollInsert(d) \/ TestLookup(d) \/ PowerLookup(d) \/ EjectLookup(d) \/ ResolveISO(d)
  <2>1. None # "boot"
    BY FleetAssumption DEF Kinds
  <2>2. QED
    BY <1>2, <1>4, <2>1
       DEF EnrollInsert, TestLookup, PowerLookup, EjectLookup, ResolveISO, Idle, TypeOK
<1>5. CASE Lookup(d)
  <2>1. PICK i \in Ids :
           req' = [req EXCEPT ![d] = [@ EXCEPT !.pc = "insert", !.id = i,
                     !.host = rows[i].host, !.power = rows[i].power]]
    BY <1>5 DEF Lookup
  <2>2. req'[d].pc = "insert"
    BY <1>1, <2>1 DEF Requesting, TypeOK
  <2>3. QED
    BY <1>2, <2>2
<1>6. CASE Probe(d)
  <2>1. PICK result \in Classified :
           req' = [req EXCEPT ![d] = [@ EXCEPT !.pc = "report", !.result = result,
                     !.power = IF result = "reachable" THEN bmc[req[d].host].power ELSE None]]
    BY <1>6 DEF Probe
  <2>2. /\ req'[d].pc = "report" /\ req'[d].kind = req[d].kind
        /\ req'[d].host = req[d].host /\ req'[d].iso = req[d].iso
    BY <1>1, <2>1 DEF Requesting, TypeOK
  <2>3. UNCHANGED bmc /\ req[d].pc = "probe"
    BY <1>6 DEF Probe, At
  <2>4. QED
    BY <1>1, <2>2, <2>3 DEF Progress
<1>7. CASE EnrollReread(d)
  <2>1. CASE Return(d)
    BY <1>3, <2>1
  <2>2. CASE Goto(d, "probe")
    <3>1. req[d].kind # "boot"
      BY <1>1, <1>7 DEF EnrollReread, At, Progress
    <3>2. req'[d].kind = req[d].kind
      BY <1>1, <2>2 DEF Goto, Requesting, TypeOK
    <3>3. QED
      BY <1>2, <3>1, <3>2
  <2>3. QED
    BY <1>7, <2>1, <2>2 DEF EnrollReread
<1>8. CASE Report(d) \/ LookupFails(d) \/ InsertUnreachable(d) \/ Abandon(d)
  BY <1>3, <1>8 DEF Report, LookupFails, InsertUnreachable, Abandon
<1>9. CASE InsertMedia(d) \/ SetBootOverride(d) \/ EjectMedia(d) \/ PowerAction(d)
  <2>1. CASE req[d].kind = "boot"
    BY <1>9, <2>1, BootCalls
  <2>2. CASE req[d].kind # "boot"
    <3>1. Return(d) \/ \E pc \in {"override", "reset", "probe"} : Goto(d, pc)
      BY <1>9 DEF InsertMedia, SetBootOverride, EjectMedia, PowerAction, Call, Continue, Following
    <3>2. ASSUME NEW pc, Goto(d, pc) PROVE req'[d].kind = req[d].kind
      BY <1>1, <3>2 DEF Goto, Requesting, TypeOK
    <3>3. QED
      BY <1>2, <1>3, <2>2, <3>1, <3>2
  <2>3. QED
    BY <2>1, <2>2
<1>10. QED
  BY <1>4, <1>5, <1>6, <1>7, <1>8, <1>9 DEF Handle

LEMMA BootStep ==
  ASSUME "reboot" \notin Faults, TypeOK, OneEach, BootProgress, [Next]_vars
  PROVE  BootProgress'
<1>1. ASSUME NEW c \in Clients, req'[c] = req[c],
             req[c].pc \notin {"idle", "lookup"} => bmc'[req[c].host] = bmc[req[c].host]
      PROVE  Progress(c)'
  BY <1>1 DEF BootProgress, Progress
<1>2. ASSUME NEW d \in Clients, Handle(d), NEW c \in Clients PROVE Progress(c)'
  <2>1. CASE c # d
    BY <1>1, <1>2, <2>1, Undisturbed, OthersKept
  <2>2. CASE c = d
    BY <1>2, <2>2, BootOwnStep
  <2>3. QED
    BY <2>1, <2>2
<1>3. ASSUME NEW g \in Hosts, Halt(g) \/ Reboot(g), NEW c \in Clients PROVE Progress(c)'
  <2>1. UNCHANGED req
    BY <1>3 DEF Halt, Reboot
  <2>2. CASE req[c].pc \in {"idle", "lookup"}
    BY <1>1, <2>1, <2>2
  <2>3. CASE req[c].pc \notin {"idle", "lookup"}
    <3>1. req[c].host \in Hosts
      BY <2>3 DEF TypeOK, Requesting
    <3>2. \/ bmc'[req[c].host] = bmc[req[c].host]
          \/ /\ bmc[req[c].host].power = "PoweringOff"
             /\ bmc'[req[c].host].image = bmc[req[c].host].image
             /\ bmc'[req[c].host].override = bmc[req[c].host].override
      BY <1>3, <3>1, MachineStep
    <3>3. QED
      BY <2>1, <3>2 DEF BootProgress, Progress
  <2>4. QED
    BY <2>2, <2>3
<1>4. ASSUME (\E i \in Ids : DeleteServer(i)) \/ LibraryStep \/ UNCHANGED vars,
             NEW c \in Clients
      PROVE  Progress(c)'
  BY <1>1, <1>4 DEF DeleteServer, LibraryStep, vars
<1>5. QED
  BY <1>2, <1>3, <1>4 DEF Next, Rest, BootProgress

(***************************************************************************)
(* A boot request that reports success has its machine running the image,  *)
(* with the one-shot override spent, whatever calls fail, as long as       *)
(* admins use a BMC one request at a time and machines do not restart by   *)
(* themselves; the table's power state need not be right for that.         *)
(***************************************************************************)
THEOREM BootTriggeredCorrect ==
  ASSUME Coordinated, "reboot" \notin Faults
  PROVE  Spec => []BootTriggeredRuns
<1>1. Init => BootProgress
  <2>1. None # "boot"
    BY FleetAssumption DEF Kinds
  <2>2. QED
    BY <2>1 DEF Init, BootProgress, Progress, Idle
<1>2. TypeOK /\ OneEach /\ [Next]_vars => OneEach'
  BY OneEachStep
<1>3. TypeOK /\ OneEach /\ BootProgress /\ [Next]_vars => BootProgress'
  BY BootStep
<1>4. BootProgress => BootTriggeredRuns
  BY DEF BootProgress, Progress, BootTriggeredRuns
<1>5. QED
  BY <1>1, <1>2, <1>3, <1>4, TypeCorrect, OneEachInit, PTL DEF Spec
===========================================================================
