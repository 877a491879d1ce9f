---------------------- MODULE DeviceInventory_proofs ----------------------
(***************************************************************************)
(* Proofs about Startup and DeviceInventory for every set of tools,        *)
(* clients, names, addresses and settings, every number of migrations,     *)
(* every bound and every choice of Chosen, Detects and Faults.             *)
(***************************************************************************)
EXTENDS DeviceInventory, TLAPS

---------------------------------------------------------------------------
(* Start-up: type correctness *)

LEMMA NeedsFacts ==
  /\ Needs("serve") = <<"jwt", "secrets">> /\ Needs("network-add") = <<"secrets">>
  /\ Needs("migrate") = <<>>
BY DEF Needs

LEMMA NeedsType ==
  ASSUME NEW cmd \in {"serve", "network-add", "migrate"}
  PROVE  /\ Len(Needs(cmd)) \in 0..2 /\ DOMAIN Needs(cmd) = 1..Len(Needs(cmd))
         /\ \A i \in DOMAIN Needs(cmd) : Needs(cmd)[i] \in Files
         /\ cmd # "migrate" => /\ Len(Needs(cmd)) \in 1..2
                               /\ Needs(cmd)[Len(Needs(cmd))] = "secrets"
         /\ \A i, j \in DOMAIN Needs(cmd) : Needs(cmd)[i] = Needs(cmd)[j] => i = j
<1>1. CASE cmd = "serve"
  BY <1>1, NeedsFacts DEF Files
<1>2. CASE cmd = "network-add"
  BY <1>2, NeedsFacts DEF Files
<1>3. CASE cmd = "migrate"
  BY <1>3, NeedsFacts DEF Files
<1>4. QED
  BY <1>1, <1>2, <1>3

LEMMA DownType == Down \in Processes
<1>1. [f \in Files |-> None] \in [Files -> Keys \union {None}]
  OBVIOUS
<1>2. 1 \in 1..(Migrations + 3)
  BY StartupAssumption
<1>3. QED
  BY <1>1, <1>2 DEF Down, Processes, Records, Consistent

\* A process ends, by itself or not.
Ends(p) == proc' = [proc EXCEPT ![p] = Down] /\ UNCHANGED <<files, applied, generated>>

\* What the parts of a record are.
LEMMA RecordParts ==
  ASSUME NEW r \in Records
  PROVE  /\ r.pc \in {"down", "check", "apply", "load", "create", "write", "running"}
         /\ r.cmd \in {"serve", "network-add", "migrate"}
         /\ r.step \in 1..(Migrations + 3) /\ r.step \in Int
         /\ r.new \in Keys \union {None}
         /\ r.held \in [Files -> Keys \union {None}]
         /\ r = [pc |-> r.pc, cmd |-> r.cmd, step |-> r.step, new |-> r.new, held |-> r.held]
BY StartupAssumption DEF Records

LEMMA HoldingParts ==
  ASSUME NEW p \in Procs, proc[p] \in Records, File(p) \in Files, NEW k
  PROVE  Holding(p, k) =
           [pc |-> "load", cmd |-> proc[p].cmd, step |-> proc[p].step + 1, new |-> None,
            held |-> [proc[p].held EXCEPT ![File(p)] = k]]
<1> DEFINE r == proc[p]
           s == Past(r, r.step)
<1>1. s \in [pc : {r.pc}, cmd : {r.cmd}, step : {r.step + 1}, new : {r.new}, held : {r.held}]
  BY DEF Past, Records
<1>2. Holding(p, k) = [s EXCEPT !.pc = "load", !.new = None, !.held[File(p)] = k]
  BY DEF Holding
<1> HIDE DEF s
<1>3. QED
  BY <1>1, <1>2

LEMMA HoldingType ==
  ASSUME StartupTypeOK, NEW p \in Procs, NEW k \in Keys,
         Loads(p) \/ proc[p].pc = "write"
  PROVE  /\ File(p) \in Files
         /\ Holding(p, k) \in Processes
         /\ Holding(p, k).pc = "load" /\ Holding(p, k).cmd = proc[p].cmd
         /\ Holding(p, k).held[File(p)] = k
         /\ \A f \in Files : f # File(p) => Holding(p, k).held[f] = proc[p].held[f]
<1> DEFINE r == proc[p]
           n == Needs(r.cmd)
<1>1. r \in Records /\ Consistent(r)
  BY DEF StartupTypeOK, Processes
<1>2. r.cmd \in {"serve", "network-add", "migrate"} /\ r.step \in 1..(Migrations + 3)
      /\ r.step \in Int /\ r.held \in [Files -> Keys \union {None}]
  BY <1>1, RecordParts
<1>3. r.step \in DOMAIN n
  BY <1>1, <1>2, NeedsType DEF Loads, Consistent
<1>4. \A i \in DOMAIN n : i < r.step => r.held[n[i]] \in Keys
  BY <1>1 DEF Loads, Consistent
<1>5. File(p) = n[r.step] /\ File(p) \in Files
  BY <1>2, <1>3, NeedsType DEF File
<1> DEFINE h == [r.held EXCEPT ![File(p)] = k]
           s == [pc |-> "load", cmd |-> r.cmd, step |-> r.step + 1, new |-> None, held |-> h]
<1>6. Holding(p, k) = s
  BY <1>1, <1>5, HoldingParts
<1>7. h \in [Files -> Keys \union {None}] /\ h[File(p)] = k
      /\ \A f \in Files : f # File(p) => h[f] = r.held[f]
  BY <1>2, <1>5
<1>8. r.step + 1 \in 1..(Migrations + 3)
  BY <1>2, <1>3, NeedsType, StartupAssumption
<1>9. \A i \in DOMAIN n : i < r.step + 1 => h[n[i]] \in Keys
  <2> SUFFICES ASSUME NEW i \in DOMAIN n, i < r.step + 1 PROVE h[n[i]] \in Keys
    OBVIOUS
  <2>1. n[i] \in Files /\ i \in Int /\ r.step \in Int
    BY <1>2, NeedsType
  <2>2. CASE i = r.step
    BY <2>2, <1>5, <1>7
  <2>3. CASE i # r.step
    <3>1. i < r.step
      BY <2>1, <2>3
    <3>2. QED
      BY <3>1, <2>1, <1>4, <1>7
  <2>4. QED
    BY <2>2, <2>3
<1> HIDE DEF h
<1>10. s.pc = "load" /\ s.cmd = r.cmd /\ s.step = r.step + 1 /\ s.held = h
  OBVIOUS
<1>11. s \in Records
  BY <1>2, <1>7, <1>8 DEF Records
<1> HIDE DEF s
<1>12. Consistent(s)
  BY <1>9, <1>10 DEF Consistent
<1>13. QED
  BY <1>5, <1>6, <1>7, <1>10, <1>11, <1>12 DEF Processes

LEMMA StartupTypeStep ==
  ASSUME StartupTypeOK, StartupStep \/ \E p \in Procs : Ends(p)
  PROVE  StartupTypeOK'
<1> USE DEF StartupTypeOK
<1>1. ASSUME NEW p \in Procs, Start(p) PROVE StartupTypeOK'
  <2>1. PICK cmd \in Commands(p) :
             proc' = [proc EXCEPT ![p] = [Down EXCEPT !.pc = "check", !.cmd = cmd]]
    BY <1>1 DEF Start
  <2>2. cmd \in {"serve", "network-add", "migrate"}
    BY DEF Commands
  <2>3. [Down EXCEPT !.pc = "check", !.cmd = cmd] \in Processes
    BY <2>2, DownType DEF Processes, Records, Consistent
  <2>4. QED
    BY <1>1, <2>1, <2>3 DEF Start
<1>2. ASSUME NEW p \in Procs, Check(p) PROVE StartupTypeOK'
  <2> DEFINE r == proc[p]
  <2>1. r \in Records /\ r.pc = "check"
    BY <1>2 DEF Check, Processes
  <2>2. r.cmd \in {"serve", "network-add", "migrate"} /\ r.step \in 1..(Migrations + 3)
    BY <2>1, RecordParts
  <2>3. CASE r.step > Migrations
    <3> DEFINE s == [r EXCEPT !.pc = "load", !.step = 1]
    <3>1. s \in Records /\ s.pc = "load" /\ s.cmd = r.cmd /\ s.step = 1
      <4>1. 1 \in 1..(Migrations + 3)
        BY StartupAssumption
      <4>2. QED
        BY <2>1, <4>1 DEF Records
    <3> HIDE DEF s
    <3>2. \A i \in DOMAIN Needs(r.cmd) : ~(i < 1)
      BY <2>2, NeedsType
    <3>3. s \in Processes
      BY <3>1, <3>2 DEF Processes, Consistent
    <3>4. proc' = [proc EXCEPT ![p] = s]
      BY <1>2, <2>3 DEF Check, s
    <3>5. QED
      BY <1>2, <3>3, <3>4 DEF Check
  <2>4. CASE ~(r.step > Migrations) /\ Done(r.step)
    <3> DEFINE s == Past(r, r.step)
    <3>1. s \in Records /\ s.pc = "check"
      BY <2>1, <2>2, <2>4, StartupAssumption DEF Past, Records
    <3> HIDE DEF s
    <3>2. s \in Processes
      BY <3>1 DEF Processes, Consistent
    <3>3. proc' = [proc EXCEPT ![p] = s]
      BY <1>2, <2>4 DEF Check, s
    <3>4. QED
      BY <1>2, <3>2, <3>3 DEF Check
  <2>5. CASE ~(r.step > Migrations) /\ ~Done(r.step)
    <3> DEFINE s == [r EXCEPT !.pc = "apply"]
    <3>1. s \in Records /\ s.pc = "apply" /\ s.step = r.step
      BY <2>1 DEF Records
    <3> HIDE DEF s
    <3>2. s \in Processes
      BY <3>1, <2>2, <2>5, StartupAssumption DEF Processes, Consistent
    <3>3. proc' = [proc EXCEPT ![p] = s]
      BY <1>2, <2>5 DEF Check, s
    <3>4. QED
      BY <1>2, <3>2, <3>3 DEF Check
  <2>6. QED
    BY <2>3, <2>4, <2>5
<1>3. ASSUME NEW p \in Procs, Apply(p) PROVE StartupTypeOK'
  <2> DEFINE r == proc[p]
             s == [Past(r, r.step) EXCEPT !.pc = "check"]
  <2>1. r \in Records /\ r.step \in 1..Migrations
    BY <1>3 DEF Apply, Processes, Consistent
  <2>2. Append(applied, r.step) \in Seq(1..Migrations)
    BY <2>1
  <2>3. s \in Records /\ s.pc = "check"
    <3>1. r.step + 1 \in 1..(Migrations + 3)
      BY <2>1, StartupAssumption
    <3>2. QED
      BY <2>1, <3>1 DEF Past, Records
  <2>4. \/ proc' = [proc EXCEPT ![p] = Down] /\ UNCHANGED applied
        \/ proc' = [proc EXCEPT ![p] = s] /\ applied' = Append(applied, r.step)
    BY <1>3 DEF Apply
  <2> HIDE DEF s
  <2>5. s \in Processes
    BY <2>3 DEF Processes, Consistent
  <2>6. QED
    BY <1>3, <2>2, <2>4, <2>5, DownType DEF Apply
<1>4. ASSUME NEW p \in Procs, LoadOrCreate(p) PROVE StartupTypeOK'
  <2> DEFINE r == proc[p]
             s == [r EXCEPT !.pc = "create"]
  <2>1. r \in Records /\ Consistent(r) /\ r.pc = "load" /\ r.step <= Len(Needs(r.cmd))
    BY <1>4 DEF LoadOrCreate, Loads, Processes
  <2>2. r.step \in DOMAIN Needs(r.cmd) /\ File(p) \in Files
    BY <2>1, RecordParts, NeedsType DEF File
  <2>3. s \in Records /\ s.pc = "create" /\ s.cmd = r.cmd /\ s.step = r.step /\ s.held = r.held
    BY <2>1 DEF Records
  <2>4. \/ proc' = [proc EXCEPT ![p] = s]
        \/ proc' = [proc EXCEPT ![p] = Down]
        \/ /\ files[File(p)] \notin {None, Short}
           /\ proc' = [proc EXCEPT ![p] = Holding(p, files[File(p)])]
    BY <1>4 DEF LoadOrCreate
  <2> HIDE DEF s
  <2>5. s \in Processes
    BY <2>1, <2>2, <2>3 DEF Processes, Consistent
  <2>6. ASSUME files[File(p)] \notin {None, Short} PROVE Holding(p, files[File(p)]) \in Processes
    BY <1>4, <2>2, <2>6, HoldingType DEF LoadOrCreate
  <2>7. QED
    BY <1>4, <2>4, <2>5, <2>6, DownType DEF LoadOrCreate
<1>5. ASSUME NEW p \in Procs, Create(p) PROVE StartupTypeOK'
  <2> DEFINE r == proc[p]
             s == [r EXCEPT !.pc = "write", !.new = generated + 1]
  <2>1. r \in Records /\ Consistent(r) /\ r.pc = "create" /\ generated + 1 \in 0..MaxKeys
    BY <1>5, StartupAssumption DEF Create, Processes
  <2>2. r.step \in DOMAIN Needs(r.cmd) /\ File(p) \in Files
    BY <2>1, RecordParts, NeedsType DEF File, Consistent
  <2>3. /\ s \in Records /\ s.pc = "write" /\ s.new \in Keys
        /\ s.cmd = r.cmd /\ s.step = r.step /\ s.held = r.held
    BY <2>1 DEF Records, Keys
  <2>4. proc' = [proc EXCEPT ![p] = s]
    BY <1>5 DEF Create
  <2> HIDE DEF s
  <2>5. s \in Processes
    BY <2>1, <2>2, <2>3 DEF Processes, Consistent
  <2>6. QED
    BY <1>5, <2>1, <2>4, <2>5 DEF Create
<1>6. ASSUME NEW p \in Procs, Write(p) PROVE StartupTypeOK'
  <2>1. proc[p].new \in Keys
    BY <1>6 DEF Write, Processes, Consistent
  <2>2. Holding(p, proc[p].new) \in Processes /\ File(p) \in Files
    BY <1>6, <2>1, HoldingType DEF Write
  <2>3. QED
    BY <1>6, <2>1, <2>2 DEF Write
<1>7. ASSUME NEW p \in Procs, Begin(p) PROVE StartupTypeOK'
  <2> DEFINE r == proc[p]
             s == [r EXCEPT !.pc = "running"]
             n == Len(Needs(r.cmd))
  <2>1. r \in Records /\ Consistent(r) /\ r.pc = "load" /\ ~(r.step <= n)
    BY <1>7 DEF Begin, Loads, Processes
  <2>2. ASSUME r.cmd # "migrate" PROVE s \in Processes
    <3>1. n \in 1..2 /\ n \in DOMAIN Needs(r.cmd) /\ Needs(r.cmd)[n] = "secrets"
      <4>1. r.cmd \in {"serve", "network-add", "migrate"}
        BY <2>1, RecordParts
      <4>2. n \in 1..2 /\ Needs(r.cmd)[n] = "secrets" /\ DOMAIN Needs(r.cmd) = 1..n
        BY <2>2, <4>1, NeedsType
      <4> HIDE DEF n
      <4>3. QED
        BY <4>2
    <3>2. n < r.step
      BY <2>1, <3>1, RecordParts
    <3>3. r.held["secrets"] \in Keys
      BY <2>1, <3>1, <3>2 DEF Consistent
    <3>4. s \in Records /\ s.pc = "running" /\ s.cmd = r.cmd /\ s.held = r.held
      BY <2>1 DEF Records
    <3> HIDE DEF s
    <3>5. QED
      BY <2>2, <3>3, <3>4 DEF Processes, Consistent
  <2>3. proc' = [proc EXCEPT ![p] = IF r.cmd = "migrate" THEN Down ELSE s]
    BY <1>7 DEF Begin
  <2> HIDE DEF s
  <2>4. QED
    BY <1>7, <2>2, <2>3, DownType DEF Begin
<1>8. ASSUME NEW f \in Files, RemoveShort(f) PROVE StartupTypeOK'
  BY <1>8 DEF RemoveShort
<1>9. ASSUME NEW p \in Procs, Ends(p) PROVE StartupTypeOK'
  BY <1>9, DownType DEF Ends
<1>10. QED
  BY <1>1, <1>2, <1>3, <1>4, <1>5, <1>6, <1>7, <1>8, <1>9 DEF StartupStep

---------------------------------------------------------------------------
(* Type correctness *)

\* A step of a worker.
Handle(w) ==
    \/ EnrollInsert(w) \/ EnrollReread(w) \/ Probe(w) \/ Report(w) \/ Classify(w)
    \/ w \in Clients /\ (TestLookup(w) \/ Credentials(w) \/ Abandon(w))

\* A step of an administrator that no other step follows.
Administer ==
    \/ \E i \in Ids : SetRole(i) \/ DeleteDevice(i)
    \/ \E s \in Settings : SetSetting(s) \/ DeleteSetting(s)

RequestsType == req \in [Workers -> Requesting]

OfRunning == \A w \in Workers : ~At(w, "idle") => Running(ProcOf(w))

LEMMA WorkerFacts ==
  /\ \A w \in Workers : ProcOf(w) \in Procs
  /\ \A w \in Tools : ProcOf(w) = w /\ w \in Procs
  /\ \A w \in Workers, p \in Tools : ProcOf(w) = p => w = p
BY StartupAssumption, DeviceAssumption DEF Workers, Procs, ProcOf

LEMMA RequestParts ==
  ASSUME NEW r \in Requesting, r.pc # "idle"
  PROVE  r \in Requests /\ Reportable(r)
BY DEF Requesting, Idle

\* The server's or a command's secrets key is a key.
LEMMA HeldType ==
  ASSUME StartupTypeOK, NEW p \in Procs, Running(p)
  PROVE  proc[p].held["secrets"] \in Keys
BY DEF StartupTypeOK, Processes, Consistent, Running

\* What a step does to start-up.
LEMMA ReturnEnds ==
  ASSUME NEW w \in Workers, Return(w)
  PROVE  UNCHANGED startup \/ (w \in Tools /\ Ends(w))
BY DEF Return, startup, Ends

LEMMA HandleMoves ==
  ASSUME NEW w \in Workers, Handle(w)
  PROVE  UNCHANGED startup \/ (w \in Tools /\ Ends(w))
BY ReturnEnds DEF Handle, EnrollInsert, EnrollReread, Probe, Report, Classify, TestLookup,
       Credentials, Abandon, Goto, startup

LEMMA NextSteps ==
  ASSUME [Next]_vars
  PROVE  \/ \E w \in Workers : Handle(w)
         \/ Administer
         \/ \E p \in Procs : Stop(p)
         \/ Starts
         \/ UNCHANGED vars
<1>1. CASE \E w \in Workers : \/ EnrollInsert(w) \/ EnrollReread(w)
                              \/ Probe(w) \/ Report(w) \/ Classify(w)
  BY <1>1 DEF Handle
<1>2. CASE \E c \in Clients : TestLookup(c) \/ Credentials(c) \/ Abandon(c)
  BY <1>2 DEF Handle, Workers
<1>3. CASE \/ \E i \in Ids : SetRole(i) \/ DeleteDevice(i)
           \/ \E s \in Settings : SetSetting(s) \/ DeleteSetting(s)
  BY <1>3 DEF Administer
<1>4. QED
  BY <1>1, <1>2, <1>3 DEF Next

LEMMA StartupMoves ==
  ASSUME [Next]_vars
  PROVE  StartupStep \/ (\E p \in Procs : Ends(p)) \/ UNCHANGED startup
<1>1. ASSUME NEW w \in Workers, Handle(w)
      PROVE  (\E p \in Procs : Ends(p)) \/ UNCHANGED startup
  BY <1>1, HandleMoves, WorkerFacts
<1>2. CASE Administer
  BY <1>2 DEF Administer, SetRole, DeleteDevice, SetSetting, DeleteSetting
<1>3. ASSUME NEW p \in Procs, Stop(p) PROVE Ends(p)
  BY <1>3 DEF Stop, StopProcess, Ends
<1>4. CASE Starts \/ UNCHANGED vars
  BY <1>4 DEF Starts, vars
<1>5. QED
  BY <1>1, <1>2, <1>3, <1>4, NextSteps

LEMMA StartupTypeKept ==
  ASSUME StartupTypeOK, [Next]_vars
  PROVE  StartupTypeOK'
<1>1. CASE UNCHANGED startup
  BY <1>1 DEF startup, StartupTypeOK
<1>2. QED
  BY <1>1, StartupMoves, StartupTypeStep

\* What a step of a request does to the request: it ends it, goes on with the
\* same device, or begins with a device of the table.
Follows(w, r) ==
    \/ ~At(w, "idle") /\ r.id = req[w].id /\ r.host = req[w].host
    \/ \E i \in Ids : Exists(i) /\ UNCHANGED tables /\ r.id = i /\ r.host = rows[i].host
    \/ \E n \in Names, h \in Hosts, role \in Roles :
          /\ InsertRow(n, h, role, Held(w))
          /\ r.id = nextId /\ r.host = h

Continues(w, r) ==
    /\ r \in Requesting /\ r # Idle /\ r.pc # "idle"
    /\ req' = [req EXCEPT ![w] = r] /\ UNCHANGED startup
    /\ Running(ProcOf(w)) /\ Follows(w, r)

LEMMA IdleType == Idle \in Requesting /\ Idle.pc = "idle"
BY DEF Idle, Requesting

\* A request at a later step.
LEMMA GotoContinues ==
  ASSUME TypeOK, NEW w \in Workers, ~At(w, "idle"),
         NEW pc \in {"probe", "report", "classify"},
         NEW status \in {"reachable", "unreachable", "error", None},
         NEW model \in Hosts \union {None}, NEW serial \in {req[w].host, None},
         pc \in {"report", "classify"} => status # None,
         pc = "classify" => model # None,
         req' = [req EXCEPT ![w] = [@ EXCEPT !.pc = pc, !.status = status, !.model = model,
                                             !.serial = serial]],
         UNCHANGED startup
  PROVE  \E r : Continues(w, r)
<1> DEFINE q == req[w]
           r == [q EXCEPT !.pc = pc, !.status = status, !.model = model, !.serial = serial]
<1>1. q \in Requests /\ Reportable(q)
  BY RequestParts DEF TypeOK, At
<1>2. /\ r \in Requests
      /\ r.pc = pc /\ r.status = status /\ r.model = model /\ r.serial = serial
      /\ r.id = q.id /\ r.host = q.host
  BY <1>1 DEF Requests, Reportable
<1>3. req' = [req EXCEPT ![w] = r]
  OBVIOUS
<1> HIDE DEF r
<1>4. Reportable(r)
  BY <1>1, <1>2 DEF Reportable
<1>5. r # Idle /\ r.pc # "idle"
  BY <1>2, IdleType
<1>6. Running(ProcOf(w))
  BY DEF TypeOK
<1>7. QED
  BY <1>2, <1>3, <1>4, <1>5, <1>6 DEF Continues, Follows, Requesting

LEMMA RequestStep ==
  ASSUME TypeOK, NEW w \in Workers, Handle(w)
  PROVE  Return(w) \/ \E r : Continues(w, r)
<1>1. req[w] \in Requesting
  BY DEF TypeOK
<1>2. ASSUME NEW pc \in {"probe", "classify"}, Goto(w, pc), ~At(w, "idle"),
             pc = "classify" => req[w].model # None /\ req[w].status # None
      PROVE  \E r : Continues(w, r)
  <2>1. req[w] \in Requests
    BY <1>1, <1>2, RequestParts DEF At
  <2>2. /\ req[w].status \in {"reachable", "unreachable", "error", None}
        /\ req[w].model \in Hosts \union {None} /\ req[w].serial \in {req[w].host, None}
        /\ [req[w] EXCEPT !.pc = pc] =
             [req[w] EXCEPT !.pc = pc, !.status = req[w].status, !.model = req[w].model,
                            !.serial = req[w].serial]
    BY <1>1, <1>2, <2>1, RequestParts DEF Requests, Reportable, At
  <2>3. QED
    BY <1>2, <2>2, GotoContinues DEF Goto
<1>3. ASSUME NEW n \in Names, NEW h \in Hosts, NEW role \in Roles, NEW probes \in BOOLEAN,
             Free(w), InsertRow(n, h, role, Held(w)), UNCHANGED startup,
             req' = [req EXCEPT ![w] = [Idle EXCEPT !.pc = "reread", !.id = nextId, !.host = h,
                                              !.probes = probes]]
      PROVE  \E r : Continues(w, r)
  <2> DEFINE r == [Idle EXCEPT !.pc = "reread", !.id = nextId, !.host = h, !.probes = probes]
  <2>1. r \in [pc : {"reread"}, id : {nextId}, host : {h}, probes : BOOLEAN, status : {None},
               model : {None}, serial : {None}]
    BY DEF Idle
  <2>2. r \in Requests /\ Reportable(r) /\ r # Idle /\ r.pc # "idle"
    BY <1>3, <2>1 DEF Requests, Reportable, Idle, InsertRow
  <2>3. Follows(w, r)
    BY <1>3, <2>1 DEF Follows
  <2>4. QED
    BY <1>3, <2>2, <2>3 DEF Continues, Requesting, Free
<1>4. ASSUME NEW i \in Ids, Free(w), Exists(i), UNCHANGED <<startup, tables>>,
             req' = [req EXCEPT ![w] = [Idle EXCEPT !.pc = "credentials", !.id = i,
                                              !.host = rows[i].host]]
      PROVE  \E r : Continues(w, r)
  <2> DEFINE r == [Idle EXCEPT !.pc = "credentials", !.id = i, !.host = rows[i].host]
  <2>1. r \in [pc : {"credentials"}, id : {i}, host : {rows[i].host}, probes : BOOLEAN,
               status : {None}, model : {None}, serial : {None}]
    BY DEF Idle
  <2>2. rows[i].host \in Hosts
    BY <1>4 DEF TypeOK, Rows, NoRow, Exists
  <2>3. r \in Requests /\ Reportable(r) /\ r # Idle /\ r.pc # "idle"
    BY <2>1, <2>2 DEF Requests, Reportable, Idle
  <2>4. Follows(w, r)
    BY <1>4, <2>1 DEF Follows
  <2>5. QED
    BY <1>4, <2>3, <2>4 DEF Continues, Requesting, Free
<1>5. CASE EnrollInsert(w)
  <2>1. Chosen \union {"unknown"} \subseteq Roles
    BY DeviceAssumption DEF Roles
  <2>2. QED
    BY <1>3, <1>5, <2>1 DEF EnrollInsert
<1>6. CASE TestLookup(w)
  BY <1>4, <1>6 DEF TestLookup
<1>7. CASE EnrollReread(w) \/ Credentials(w)
  BY <1>2, <1>7 DEF EnrollReread, Credentials, At
<1>8. CASE Probe(w)
  <2>1. At(w, "probe") /\ req[w] \in Requests /\ UNCHANGED startup
    BY <1>1, <1>8, RequestParts DEF Probe, At
  <2>2. CASE \E model, serial \in Told(req[w].host) :
               req' = [req EXCEPT ![w] = [@ EXCEPT !.pc = "report", !.status = "reachable",
                                                 !.model = model, !.serial = serial]]
    <3>1. PICK model \in Told(req[w].host), serial \in Told(req[w].host) :
               req' = [req EXCEPT ![w] = [@ EXCEPT !.pc = "report", !.status = "reachable",
                                                 !.model = model, !.serial = serial]]
      BY <2>2
    <3>2. model \in Hosts \union {None} /\ serial \in {req[w].host, None}
      BY <2>1 DEF Told, Requests
    <3>3. "reachable" # None
      BY DeviceAssumption
    <3>4. QED
      BY <2>1, <3>1, <3>2, <3>3, GotoContinues DEF At
  <2>3. ASSUME NEW status \in {"unreachable", "error"},
               req' = [req EXCEPT ![w] = [@ EXCEPT !.pc = "report", !.status = status]]
        PROVE  \E r : Continues(w, r)
    <3>1. /\ req[w].model \in Hosts \union {None} /\ req[w].serial \in {req[w].host, None}
          /\ [req[w] EXCEPT !.pc = "report", !.status = status] =
               [req[w] EXCEPT !.pc = "report", !.status = status, !.model = req[w].model,
                              !.serial = req[w].serial]
      BY <1>1, <2>1, RequestParts DEF Requests, Reportable, At
    <3>2. status # None
      BY DeviceAssumption
    <3>3. QED
      BY <2>1, <2>3, <3>1, <3>2, GotoContinues DEF At
  <2>4. QED
    BY <1>8, <2>2, <2>3 DEF Probe
<1>9. CASE Report(w)
  <2>1. req[w].status # None /\ At(w, "report")
    BY <1>1, <1>9, RequestParts DEF Report, At, Reportable
  <2>2. QED
    BY <1>2, <1>9, <2>1 DEF Report, Suggests, At
<1>10. CASE Classify(w) \/ Abandon(w)
  BY <1>10 DEF Classify, Abandon
<1>11. QED
  BY <1>5, <1>6, <1>7, <1>8, <1>9, <1>10 DEF Handle

\* What a step of a request does to the tables.
Inserted(w) == \E n \in Names, h \in Hosts, role \in Roles :
    Free(w) /\ InsertRow(n, h, role, Held(w))

Reported(w) ==
    /\ ~At(w, "idle") /\ nextId' = nextId
    /\ req[w].id \in Ids /\ req[w].status \in {"reachable", "unreachable", "error"}
    /\ req[w].serial \in {req[w].host, None} /\ req[w].host \in Hosts
    /\ UpdateReachability(req[w].id, req[w].status, req[w].serial)

Classified(w) ==
    /\ req[w].id \in Ids /\ nextId' = nextId
    /\ \E role \in Roles : SetRoleIfUnknown(req[w].id, role)

LEMMA HandleTables ==
  ASSUME TypeOK, NEW w \in Workers, Handle(w)
  PROVE  /\ UNCHANGED settings
         /\ UNCHANGED <<rows, nextId>> \/ Inserted(w) \/ Reported(w) \/ Classified(w)
<1>1. req[w] \in Requesting
  BY DEF TypeOK
<1>2. CASE EnrollInsert(w)
  <2>1. Chosen \union {"unknown"} \subseteq Roles
    BY DeviceAssumption DEF Roles
  <2>2. QED
    BY <1>2, <2>1 DEF EnrollInsert, Inserted
<1>3. CASE Report(w)
  <2>1. req[w] \in Requests /\ Reportable(req[w]) /\ req[w].pc = "report"
    BY <1>1, <1>3, RequestParts DEF Report, At
  <2>2. QED
    BY <1>3, <2>1 DEF Report, Requests, Reportable, Reported, At
<1>4. CASE Classify(w)
  <2>1. req[w] \in Requests /\ Reportable(req[w]) /\ req[w].pc = "classify"
    BY <1>1, <1>4, RequestParts DEF Classify, At
  <2>2. req[w].id \in Ids /\ Detects[req[w].model] \in Roles
    BY <2>1, DeviceAssumption DEF Requests, Reportable
  <2>3. QED
    BY <1>4, <2>2 DEF Classify, Classified
<1>5. CASE EnrollReread(w) \/ Probe(w) \/ TestLookup(w) \/ Credentials(w) \/ Abandon(w)
  BY <1>5 DEF EnrollReread, Probe, TestLookup, Credentials, Abandon, tables
<1>6. QED
  BY <1>2, <1>3, <1>4, <1>5 DEF Handle

RowsType == rows \in [Ids -> Rows] /\ nextId \in 1..(MaxDevices + 1)

LEMMA ExistingRow ==
  ASSUME RowsType, NEW i \in Ids, Exists(i)
  PROVE  rows[i] \in Rows \ {NoRow}
BY DEF RowsType, Exists, NoRow

LEMMA InsertedRow ==
  ASSUME NEW n \in Names, NEW h \in Hosts, NEW role \in Roles, NEW key \in Keys,
         RowsType, InsertRow(n, h, role, key)
  PROVE  /\ RowsType' /\ nextId \in Ids /\ nextId \in Int /\ nextId' = nextId + 1
         /\ rows'[nextId] = [status |-> "unknown", name |-> n, host |-> h, role |-> role,
                             serial |-> None, key |-> key]
         /\ \A i \in Ids : i # nextId => rows'[i] = rows[i]
<1> DEFINE row == [NoRow EXCEPT !.status = "unknown", !.name = n, !.host = h, !.role = role,
                                !.key = key]
<1>1. row \in [status : {"unknown"}, name : {n}, host : {h}, role : {role}, serial : {None},
               key : {key}]
  BY DEF NoRow
<1>2. row = [status |-> "unknown", name |-> n, host |-> h, role |-> role, serial |-> None,
             key |-> key]
  <2> HIDE DEF row
  <2>1. QED
    BY <1>1
<1>3. row \in Rows
  BY <1>2 DEF Rows
<1>4. rows' = [rows EXCEPT ![nextId] = row] /\ nextId \in Ids /\ nextId' = nextId + 1
  BY DEF InsertRow
<1> HIDE DEF row
<1>5. nextId \in Int /\ nextId + 1 \in 1..(MaxDevices + 1)
  BY <1>4, DeviceAssumption DEF Ids
<1>6. QED
  BY <1>2, <1>3, <1>4, <1>5 DEF RowsType

LEMMA ObservedRow ==
  ASSUME NEW row \in Rows \ {NoRow}, NEW status \in {"reachable", "unreachable", "error"},
         NEW serial \in Hosts \union {None}
  PROVE  /\ Observed(row, status, serial) \in Rows \ {NoRow}
         /\ Observed(row, status, serial).status = status
         /\ Observed(row, status, serial).host = row.host
         /\ Observed(row, status, serial).role = row.role
         /\ Observed(row, status, serial).key = row.key
         /\ \/ Observed(row, status, serial).serial = row.serial
            \/ /\ Observed(row, status, serial).serial = serial
               /\ status = "reachable" /\ serial # None
BY DEF Observed, Rows, NoRow

\* What is left of a row by the steps of a request other than its insertion.
Kept(i) ==
    /\ Exists(i)' <=> Exists(i)
    /\ Exists(i) => rows'[i].host = rows[i].host /\ rows'[i].key = rows[i].key
    /\ ~Exists(i) => rows'[i] = rows[i]

LEMMA ReportedRow ==
  ASSUME RowsType, NEW w \in Workers, Reported(w)
  PROVE  /\ RowsType' /\ \A i \in Ids : Kept(i)
         /\ \A i \in Ids : rows'[i].role = rows[i].role
         /\ \A i \in Ids : i # req[w].id => rows'[i] = rows[i]
         /\ ~Exists(req[w].id) => rows' = rows
<1> DEFINE i == req[w].id
           row == Observed(rows[i], req[w].status, req[w].serial)
<1>1. CASE ~Exists(i)
  BY <1>1 DEF Reported, UpdateReachability, RowsType, Kept, Exists
<1>2. CASE Exists(i)
  <2>1. i \in Ids /\ rows' = [rows EXCEPT ![i] = row] /\ nextId' = nextId
    BY <1>2 DEF Reported, UpdateReachability
  <2>2. /\ row \in Rows \ {NoRow} /\ row.status \in {"reachable", "unreachable", "error"}
        /\ row.host = rows[i].host /\ row.role = rows[i].role /\ row.key = rows[i].key
    <3> DEFINE old == rows[i]
               status == req[w].status
               serial == req[w].serial
    <3>1. old \in Rows \ {NoRow}
      BY <1>2, <2>1, ExistingRow
    <3>2. status \in {"reachable", "unreachable", "error"} /\ serial \in Hosts \union {None}
      BY DEF Reported
    <3> HIDE DEF old, status, serial
    <3>3. /\ Observed(old, status, serial) \in Rows \ {NoRow}
          /\ Observed(old, status, serial).status = status
          /\ Observed(old, status, serial).host = old.host
          /\ Observed(old, status, serial).role = old.role
          /\ Observed(old, status, serial).key = old.key
      BY <3>1, <3>2, ObservedRow
    <3>4. QED
      BY <3>2, <3>3 DEF old, status, serial
  <2> HIDE DEF row
  <2>3. QED
    BY <1>2, <2>1, <2>2 DEF RowsType, Kept, Exists
<1>3. QED
  BY <1>1, <1>2

LEMMA ClassifiedRow ==
  ASSUME RowsType, NEW w \in Workers, Classified(w)
  PROVE  /\ RowsType' /\ \A i \in Ids : Kept(i)
         /\ \A i \in Ids : rows'[i].status = rows[i].status /\ rows'[i].serial = rows[i].serial
         /\ \A i \in Ids : Exists(i) /\ rows[i].role # "unknown" => rows'[i] = rows[i]
<1> DEFINE i == req[w].id
<1>1. PICK role \in Roles : SetRoleIfUnknown(i, role)
  BY DEF Classified
<1>2. i \in Ids /\ nextId' = nextId
  BY DEF Classified
<1>3. CASE ~(Exists(i) /\ rows[i].role = "unknown")
  BY <1>1, <1>2, <1>3 DEF SetRoleIfUnknown, RowsType, Kept, Exists
<1>4. CASE Exists(i) /\ rows[i].role = "unknown"
  <2> DEFINE row == [rows[i] EXCEPT !.role = role]
  <2>1. rows' = [rows EXCEPT ![i] = row]
    BY <1>1, <1>4 DEF SetRoleIfUnknown
  <2>2. /\ row \in Rows \ {NoRow} /\ row.status = rows[i].status /\ row.serial = rows[i].serial
        /\ row.host = rows[i].host /\ row.key = rows[i].key
    BY <1>2, <1>4, ExistingRow DEF Rows, NoRow
  <2> HIDE DEF row
  <2>3. QED
    BY <1>2, <1>4, <2>1, <2>2 DEF RowsType, Kept, Exists
<1>5. QED
  BY <1>3, <1>4

LEMMA SetRoleRow ==
  ASSUME RowsType, NEW i \in Ids, SetRole(i)
  PROVE  /\ RowsType' /\ \A j \in Ids : Kept(j)
         /\ \A j \in Ids : rows'[j].status = rows[j].status /\ rows'[j].serial = rows[j].serial
         /\ \A j \in Ids : j # i => rows'[j] = rows[j]
<1>1. PICK role \in Chosen : rows' = [rows EXCEPT ![i].role = role]
  BY DEF SetRole
<1> DEFINE row == [rows[i] EXCEPT !.role = role]
<1>2. Exists(i) /\ rows' = [rows EXCEPT ![i] = row] /\ nextId' = nextId
  BY <1>1 DEF SetRole
<1>3. /\ row \in Rows \ {NoRow} /\ row.status = rows[i].status /\ row.serial = rows[i].serial
      /\ row.host = rows[i].host /\ row.key = rows[i].key
  BY <1>2, ExistingRow, DeviceAssumption DEF Rows, NoRow
<1> HIDE DEF row
<1>4. QED
  BY <1>2, <1>3 DEF RowsType, Kept, Exists

LEMMA DeletedRow ==
  ASSUME RowsType, NEW i \in Ids, DeleteDevice(i)
  PROVE  /\ RowsType' /\ nextId' = nextId /\ Exists(i)
         /\ rows' = [rows EXCEPT ![i] = NoRow] /\ rows'[i] = NoRow /\ ~Exists(i)'
         /\ \A j \in Ids : j # i => rows'[j] = rows[j]
BY DEF DeleteDevice, RowsType, Rows, Exists, NoRow

LEMMA TypeInit == Init => TypeOK
<1> SUFFICES ASSUME Init PROVE TypeOK
  OBVIOUS
<1>1. proc \in [Procs -> Processes] /\ generated \in 0..MaxKeys
  BY DownType, StartupAssumption DEF Init, StartupInit
<1>2. applied \in Seq(1..Migrations)
  <2>1. PICK n \in 0..Migrations : applied = [i \in 1..n |-> i]
    BY DEF Init, StartupInit
  <2>2. n \in Nat /\ \A i \in 1..n : i \in 1..Migrations
    BY StartupAssumption
  <2>3. QED
    BY <2>1, <2>2
<1>3. files \in [Files -> Keys \union {None, Short}]
  <2>1. 0 \in Keys
    BY StartupAssumption DEF Keys
  <2>2. QED
    BY <2>1 DEF Init, StartupInit
<1>4. rows \in [Ids -> Rows] /\ nextId \in 1..(MaxDevices + 1)
  BY DeviceAssumption DEF Init, Rows
<1>5. /\ req \in [Workers -> Requesting] /\ settings \in [Settings -> Keys \union {None}]
      /\ \A w \in Workers : At(w, "idle")
  BY IdleType DEF Init, At
<1>6. QED
  BY <1>1, <1>2, <1>3, <1>4, <1>5 DEF TypeOK, StartupTypeOK

\* A process that runs goes on running until it ends.
LEMMA RunningKept ==
  ASSUME StartupTypeOK, StartupStep, NEW q \in Procs, Running(q)
  PROVE  proc'[q] = proc[q]
<1>1. ASSUME NEW p \in Procs, p # q, NEW r, proc' = [proc EXCEPT ![p] = r]
      PROVE  proc'[q] = proc[q]
  BY <1>1 DEF StartupTypeOK
<1>2. ASSUME NEW p \in Procs, \/ Start(p) \/ Check(p) \/ Apply(p)
                              \/ LoadOrCreate(p) \/ Create(p) \/ Write(p) \/ Begin(p)
      PROVE  p # q /\ \E r : proc' = [proc EXCEPT ![p] = r]
  <2>1. p # q
    <3>1. Down.pc = "down"
      BY DEF Down
    <3>2. Start(p) => proc[p].pc = "down"
      BY <3>1 DEF Start
    <3>3. QED
      BY <1>2, <3>2 DEF Check, Apply, LoadOrCreate, Loads, Create, Write, Begin, Running
  <2>2. \E r : proc' = [proc EXCEPT ![p] = r]
    BY <1>2 DEF Start, Check, Apply, LoadOrCreate, Create, Write, Begin
  <2>3. QED
    BY <2>1, <2>2
<1>3. ASSUME NEW f \in Files, RemoveShort(f) PROVE proc'[q] = proc[q]
  BY <1>3 DEF RemoveShort
<1>4. QED
  BY <1>1, <1>2, <1>3 DEF StartupStep

LEMMA HandleType ==
  ASSUME TypeOK, NEW w \in Workers, Handle(w)
  PROVE  RowsType' /\ RequestsType' /\ OfRunning' /\ UNCHANGED settings
<1>1. RowsType' /\ UNCHANGED settings
  <2>1. RowsType
    BY DEF TypeOK, RowsType
  <2>2. ASSUME Inserted(w) PROVE RowsType'
    <3>1. PICK n \in Names, h \in Hosts, role \in Roles :
               Free(w) /\ InsertRow(n, h, role, Held(w))
      BY <2>2 DEF Inserted
    <3>2. Held(w) \in Keys
      BY <3>1, HeldType, WorkerFacts DEF Free, Held, TypeOK
    <3>3. QED
      BY <2>1, <3>1, <3>2, InsertedRow
  <2>3. ASSUME UNCHANGED <<rows, nextId>> PROVE RowsType'
    BY <2>1, <2>3 DEF RowsType
  <2>4. QED
    BY <2>1, <2>2, <2>3, HandleTables, ReportedRow, ClassifiedRow
<1>2. CASE Return(w)
  <2>1. req' = [req EXCEPT ![w] = Idle]
    BY <1>2 DEF Return
  <2>2. RequestsType'
    BY <2>1, IdleType DEF TypeOK, RequestsType
  <2>3. ASSUME NEW v \in Workers, ~At(v, "idle")' PROVE Running(ProcOf(v))'
    <3>1. v # w /\ ~At(v, "idle")
      BY <2>1, <2>3, IdleType DEF At, TypeOK
    <3>2. Running(ProcOf(v)) /\ ProcOf(v) \in Procs
      BY <3>1, WorkerFacts DEF TypeOK
    <3>3. w \in Tools => ProcOf(v) # w
      BY <3>1, WorkerFacts
    <3>4. proc'[ProcOf(v)] = proc[ProcOf(v)]
      BY <1>2, <3>2, <3>3 DEF Return, TypeOK, StartupTypeOK
    <3>5. QED
      BY <3>2, <3>4 DEF Running
  <2>4. QED
    BY <1>1, <2>2, <2>3 DEF OfRunning
<1>3. ASSUME NEW r, Continues(w, r) PROVE RequestsType' /\ OfRunning'
  <2>1. /\ r \in Requesting /\ req' = [req EXCEPT ![w] = r] /\ proc' = proc
        /\ Running(ProcOf(w))
    BY <1>3 DEF Continues, startup
  <2>2. RequestsType'
    BY <2>1 DEF TypeOK, RequestsType
  <2>3. ASSUME NEW v \in Workers, ~At(v, "idle")' PROVE Running(ProcOf(v))'
    <3>1. v = w \/ ~At(v, "idle")
      BY <2>1, <2>3 DEF At, TypeOK
    <3>2. QED
      BY <2>1, <3>1 DEF TypeOK, Running
  <2>4. QED
    BY <2>2, <2>3 DEF OfRunning
<1>4. QED
  BY <1>1, <1>2, <1>3, RequestStep

LEMMA AdministerType ==
  ASSUME TypeOK, Administer
  PROVE  RowsType' /\ settings' \in [Settings -> Keys \union {None}]
<1>1. RowsType
  BY DEF TypeOK, RowsType
<1>2. ASSUME NEW i \in Ids, SetRole(i) \/ DeleteDevice(i) PROVE RowsType' /\ UNCHANGED settings
  BY <1>1, <1>2, SetRoleRow, DeletedRow DEF SetRole, DeleteDevice
<1>3. ASSUME NEW s \in Settings, SetSetting(s) \/ DeleteSetting(s)
      PROVE  settings' \in [Settings -> Keys \union {None}] /\ UNCHANGED <<rows, nextId>>
  <2>1. Server \in Procs
    BY DEF Procs
  <2>2. SetSetting(s) => proc[Server].held["secrets"] \in Keys
    BY <2>1, HeldType DEF SetSetting, TypeOK
  <2>3. QED
    BY <1>3, <2>2 DEF SetSetting, DeleteSetting, TypeOK
<1>4. QED
  BY <1>1, <1>2, <1>3 DEF Administer, TypeOK, RowsType

LEMMA TypeStep == TypeOK /\ [Next]_vars => TypeOK'
<1> SUFFICES ASSUME TypeOK, [Next]_vars PROVE TypeOK'
  OBVIOUS
<1>1. StartupTypeOK'
  BY StartupTypeKept DEF TypeOK
<1>2. ASSUME UNCHANGED <<tables, req>>, \A q \in Procs : Running(q) => proc'[q] = proc[q]
      PROVE  TypeOK'
  <2>1. \A w \in Workers : Running(ProcOf(w)) => Running(ProcOf(w))'
    BY <1>2, WorkerFacts DEF Running
  <2>2. OfRunning'
    BY <1>2, <2>1 DEF TypeOK, OfRunning, At
  <2>3. QED
    BY <1>1, <1>2, <2>2 DEF TypeOK, tables, OfRunning
<1>3. ASSUME NEW w \in Workers, Handle(w) PROVE TypeOK'
  BY <1>1, <1>3, HandleType DEF TypeOK, RowsType, RequestsType, OfRunning
<1>4. CASE Administer
  <2>1. UNCHANGED <<startup, req>>
    BY <1>4 DEF Administer, SetRole, DeleteDevice, SetSetting, DeleteSetting
  <2>2. OfRunning'
    BY <2>1 DEF TypeOK, OfRunning, At, Running, startup
  <2>3. QED
    BY <1>1, <1>4, <2>1, <2>2, AdministerType DEF TypeOK, RowsType, OfRunning
<1>5. ASSUME NEW p \in Procs, Stop(p) PROVE TypeOK'
  <2>1. /\ req' = [w \in Workers |-> IF ProcOf(w) = p THEN Idle ELSE req[w]]
        /\ proc' = [proc EXCEPT ![p] = Down] /\ UNCHANGED tables
    BY <1>5 DEF Stop, StopProcess
  <2>2. RequestsType'
    BY <2>1, IdleType DEF TypeOK, RequestsType
  <2>3. ASSUME NEW v \in Workers, ~At(v, "idle")' PROVE Running(ProcOf(v))'
    <3>1. ProcOf(v) # p /\ ~At(v, "idle")
      BY <2>1, <2>3, IdleType DEF At
    <3>2. Running(ProcOf(v)) /\ ProcOf(v) \in Procs
      BY <3>1, WorkerFacts DEF TypeOK
    <3>3. QED
      BY <2>1, <3>1, <3>2 DEF Running, TypeOK, StartupTypeOK
  <2>4. OfRunning'
    BY <2>3 DEF OfRunning
  <2>5. QED
    BY <1>1, <2>1, <2>2, <2>4 DEF TypeOK, RequestsType, OfRunning, tables
<1>6. CASE Starts
  BY <1>2, <1>6, RunningKept DEF Starts, TypeOK
<1>7. CASE UNCHANGED vars
  BY <1>2, <1>7 DEF vars, startup
<1>8. QED
  BY <1>3, <1>4, <1>5, <1>6, <1>7, NextSteps

(***************************************************************************)
(* Every row has a key, every process the keys of the files it is past,    *)
(* every request its locals and a process that runs, wherever processes    *)
(* end and however requests interleave.                                    *)
(***************************************************************************)
THEOREM TypeCorrect == Spec => []TypeOK
BY TypeInit, TypeStep, PTL DEF Spec

---------------------------------------------------------------------------
(* Migrations *)

\* A process that looks at migration n has seen n - 1 committed.
SeenApplied == \A p \in Procs :
    proc[p].pc \in {"check", "apply"} => Len(applied) >= proc[p].step - 1

InOrder == MigrationsOnce /\ SeenApplied

LEMMA AppliedFacts ==
  ASSUME StartupTypeOK, InOrder
  PROVE  /\ Len(applied) \in 0..Migrations /\ Len(applied) \in Int /\ Migrations \in Int
         /\ \A v \in Int : Done(v) <=> v \in 1..Len(applied)
         /\ \A p \in Procs : proc[p].step \in Int /\ proc[p].step >= 1
<1>1. applied \in Seq(1..Migrations) /\ \A i \in DOMAIN applied : applied[i] = i
  BY DEF StartupTypeOK, InOrder, MigrationsOnce
<1>2. Len(applied) \in Nat /\ DOMAIN applied = 1..Len(applied)
  BY <1>1
<1>3. Len(applied) > 0 => Len(applied) \in 1..Migrations
  <2> SUFFICES ASSUME Len(applied) > 0 PROVE Len(applied) \in 1..Migrations
    OBVIOUS
  <2>1. Len(applied) \in DOMAIN applied
    BY <1>2
  <2>2. applied[Len(applied)] = Len(applied)
    BY <1>1, <2>1
  <2>3. applied[Len(applied)] \in 1..Migrations
    <3>1. ASSUME NEW S, NEW t \in Seq(S), NEW i \in 1..Len(t) PROVE t[i] \in S
      OBVIOUS
    <3>2. QED
      BY <1>1, <1>2, <2>1, <3>1
  <2>4. QED
    BY <2>2, <2>3
<1>4. \A v \in Int : Done(v) <=> v \in 1..Len(applied)
  BY <1>1, <1>2 DEF Done
<1>5. \A p \in Procs : proc[p].step \in Int /\ proc[p].step >= 1
  BY RecordParts DEF StartupTypeOK, Processes
<1>6. QED
  BY <1>2, <1>3, <1>4, <1>5, StartupAssumption

\* A process that moves to another step of its own, with nothing committed.
LEMMA OrderKept ==
  ASSUME StartupTypeOK, InOrder, NEW p \in Procs, NEW r, proc' = [proc EXCEPT ![p] = r],
         UNCHANGED applied,
         r.pc \in {"check", "apply"} => Len(applied) >= r.step - 1,
         r.pc \in {"load", "create", "write", "running"} => Len(applied) = Migrations
  PROVE  InOrder'
<1>1. proc'[p] = r /\ \A q \in Procs : q # p => proc'[q] = proc[q]
  BY DEF StartupTypeOK
<1>2. QED
  BY <1>1 DEF InOrder, MigrationsOnce, SeenApplied

LEMMA OrderStep ==
  ASSUME StartupTypeOK, InOrder, StartupStep \/ \E p \in Procs : Ends(p)
  PROVE  InOrder'
<1> USE AppliedFacts
<1>1. ASSUME NEW p \in Procs, Start(p) PROVE InOrder'
  <2>1. PICK cmd \in Commands(p) :
             proc' = [proc EXCEPT ![p] = [Down EXCEPT !.pc = "check", !.cmd = cmd]]
    BY <1>1 DEF Start
  <2> DEFINE r == [Down EXCEPT !.pc = "check", !.cmd = cmd]
  <2>2. r.pc = "check" /\ r.step = 1 /\ proc' = [proc EXCEPT ![p] = r] /\ UNCHANGED applied
    BY <1>1, <2>1 DEF Start, Down
  <2> HIDE DEF r
  <2>3. Len(applied) >= r.step - 1
    BY <2>2
  <2>4. QED
    BY <2>2, <2>3, OrderKept
<1>2. ASSUME NEW p \in Procs, Check(p) PROVE InOrder'
  <2> DEFINE r == proc[p]
             s == IF r.step > Migrations THEN [r EXCEPT !.pc = "load", !.step = 1]
                  ELSE IF Done(r.step) THEN Past(r, r.step)
                  ELSE [r EXCEPT !.pc = "apply"]
  <2>1. r \in Records /\ r.pc = "check" /\ Len(applied) >= r.step - 1
    BY <1>2 DEF Check, StartupTypeOK, Processes, InOrder, SeenApplied
  <2>2. proc' = [proc EXCEPT ![p] = s] /\ UNCHANGED applied
    BY <1>2 DEF Check
  <2>3. CASE r.step > Migrations
    <3>1. s.pc = "load"
      BY <2>1, <2>3 DEF Records
    <3>2. Len(applied) = Migrations
      BY <2>1, <2>3
    <3> HIDE DEF s
    <3>3. QED
      BY <2>2, <3>1, <3>2, OrderKept
  <2>4. CASE ~(r.step > Migrations) /\ Done(r.step)
    <3>1. s.pc = "check" /\ s.step = r.step + 1
      BY <2>1, <2>4 DEF Past, Records
    <3>2. Len(applied) >= (r.step + 1) - 1
      BY <2>4
    <3> HIDE DEF s
    <3>3. QED
      BY <2>2, <3>1, <3>2, OrderKept
  <2>5. CASE ~(r.step > Migrations) /\ ~Done(r.step)
    <3>1. s.pc = "apply" /\ s.step = r.step
      BY <2>1, <2>5 DEF Records
    <3> HIDE DEF s
    <3>2. QED
      BY <2>1, <2>2, <3>1, OrderKept
  <2>6. QED
    BY <2>3, <2>4, <2>5
<1>3. ASSUME NEW p \in Procs, Apply(p) PROVE InOrder'
  <2> DEFINE r == proc[p]
             s == [Past(r, r.step) EXCEPT !.pc = "check"]
  <2>1. /\ r \in Records /\ r.pc = "apply" /\ Len(applied) >= r.step - 1
        /\ r.step \in 1..Migrations
    BY <1>3 DEF Apply, StartupTypeOK, Processes, Consistent, InOrder, SeenApplied
  <2>2. CASE Done(r.step)
    <3>1. proc' = [proc EXCEPT ![p] = Down] /\ UNCHANGED applied /\ Down.pc = "down"
      BY <1>3, <2>2 DEF Apply, Down
    <3>2. QED
      BY <3>1, OrderKept
  <2>3. CASE ~Done(r.step)
    <3>1. proc' = [proc EXCEPT ![p] = s] /\ applied' = Append(applied, r.step)
      BY <1>3, <2>3 DEF Apply
    <3>2. Len(applied) = r.step - 1
      BY <2>1, <2>3
    <3>3. s.pc = "check" /\ s.step = r.step + 1
      BY <2>1 DEF Past, Records
    <3> HIDE DEF s
    <3>4. Len(applied') = r.step /\ \A i \in DOMAIN applied' : applied'[i] = i
      <4>1. applied \in Seq(1..Migrations) /\ r.step = Len(applied) + 1
        BY <3>2 DEF StartupTypeOK
      <4>2. \A i \in DOMAIN applied : applied[i] = i
        BY DEF InOrder, MigrationsOnce
      <4>3. QED
        BY <3>1, <4>1, <4>2
    <3>5. proc'[p] = s /\ \A q \in Procs : q # p => proc'[q] = proc[q]
      BY <3>1 DEF StartupTypeOK
    <3>6. \A q \in Procs : proc[q].pc \notin {"load", "create", "write", "running"}
      BY <2>1, <3>2 DEF InOrder, MigrationsOnce
    <3>7. MigrationsOnce'
      BY <3>3, <3>4, <3>5, <3>6 DEF MigrationsOnce
    <3>8. \A q \in Procs : proc[q].pc \in {"check", "apply"} => Len(applied') >= proc[q].step - 1
      BY <2>1, <3>2, <3>4 DEF InOrder, SeenApplied
    <3>9. SeenApplied'
      BY <2>1, <3>3, <3>4, <3>5, <3>8 DEF SeenApplied
    <3>10. QED
      BY <3>7, <3>9 DEF InOrder
  <2>4. QED
    BY <2>2, <2>3
<1>4. ASSUME NEW p \in Procs, NEW r, proc' = [proc EXCEPT ![p] = r], UNCHANGED applied,
             proc[p].pc \in {"load", "create", "write", "running"},
             r.pc \notin {"check", "apply"}
      PROVE  InOrder'
  BY <1>4, OrderKept DEF InOrder, MigrationsOnce
<1>5. Down.pc = "down"
  BY DEF Down
<1>6. ASSUME NEW p \in Procs, LoadOrCreate(p) \/ Create(p) \/ Write(p) \/ Begin(p) PROVE InOrder'
  <2>1. proc[p] \in Records /\ UNCHANGED applied
    BY <1>6 DEF LoadOrCreate, Create, Write, Begin, StartupTypeOK, Processes
  <2>2. proc[p].pc \in {"load", "create", "write", "running"}
    BY <1>6 DEF LoadOrCreate, Loads, Create, Write, Begin
  <2>3. \A k : Holding(p, k).pc \notin {"check", "apply"}
    BY <2>1 DEF Holding, Past, Records
  <2>4. CASE LoadOrCreate(p)
    BY <1>4, <1>5, <2>1, <2>2, <2>3, <2>4 DEF LoadOrCreate, Records
  <2>5. CASE Create(p)
    BY <1>4, <2>1, <2>2, <2>5 DEF Create, Records
  <2>6. CASE Write(p)
    BY <1>4, <2>1, <2>2, <2>3, <2>6 DEF Write
  <2>7. CASE Begin(p)
    BY <1>4, <1>5, <2>1, <2>2, <2>7 DEF Begin, Records
  <2>8. QED
    BY <1>6, <2>4, <2>5, <2>6, <2>7
<1>7. ASSUME NEW f \in Files, RemoveShort(f) PROVE InOrder'
  BY <1>7 DEF RemoveShort, InOrder, MigrationsOnce, SeenApplied
<1>8. ASSUME NEW p \in Procs, Ends(p) PROVE InOrder'
  BY <1>5, <1>8, OrderKept DEF Ends
<1>9. QED
  BY <1>1, <1>2, <1>3, <1>6, <1>7, <1>8 DEF StartupStep

(***************************************************************************)
(* Whatever starts together, and wherever processes end, each migration is *)
(* committed once and in order, and no process gets past them before all   *)
(* are.                                                                    *)
(***************************************************************************)
THEOREM MigrationsOnceCorrect == Spec => []MigrationsOnce
<1>1. Init => InOrder
  <2> SUFFICES ASSUME Init PROVE InOrder
    OBVIOUS
  <2>1. PICK n \in 0..Migrations : applied = [i \in 1..n |-> i]
    BY DEF Init, StartupInit
  <2>2. \A p \in Procs : proc[p].pc = "down"
    BY DEF Init, StartupInit, Down
  <2>3. QED
    BY <2>1, <2>2 DEF InOrder, MigrationsOnce, SeenApplied
<1>2. TypeOK /\ InOrder /\ [Next]_vars => InOrder'
  <2> SUFFICES ASSUME TypeOK, InOrder, [Next]_vars PROVE InOrder'
    OBVIOUS
  <2>1. CASE UNCHANGED startup
    BY <2>1 DEF startup, InOrder, MigrationsOnce, SeenApplied
  <2>2. QED
    BY <2>1, StartupMoves, OrderStep DEF TypeOK
<1>3. InOrder => MigrationsOnce
  BY DEF InOrder
<1>4. QED
  BY <1>1, <1>2, <1>3, TypeCorrect, PTL DEF Spec

---------------------------------------------------------------------------
(* Keys, if a host's first process starts alone *)

\* Two processes start together only when the files are there, and the one that
\* is about to make a file, or is making it, is alone with it.
KeysInv ==
    /\ KeysAreOnDisk
    /\ \A p, q \in Procs : p # q /\ Starting(p) /\ Starting(q) => Intact
    /\ \A p \in Procs : proc[p].pc = "create" => files[File(p)] = None
    /\ \A p \in Procs : proc[p].pc = "write" => files[File(p)] = Short

LEMMA FileType ==
  ASSUME StartupTypeOK, NEW p \in Procs,
         Loads(p) \/ proc[p].pc \in {"create", "write"}
  PROVE  File(p) \in Files
<1>1. proc[p] \in Records /\ Consistent(proc[p])
  BY DEF StartupTypeOK, Processes
<1>2. proc[p].cmd \in {"serve", "network-add", "migrate"} /\ proc[p].step \in 1..(Migrations + 3)
  BY <1>1, RecordParts
<1>3. proc[p].step \in DOMAIN Needs(proc[p].cmd)
  BY <1>1, <1>2, NeedsType DEF Loads, Consistent
<1>4. QED
  BY <1>2, <1>3, NeedsType DEF File

\* A file with nothing or too little in it is nobody's key, and at most one
\* process is starting.
LEMMA NobodyHolds ==
  ASSUME StartupTypeOK, KeysInv, NEW f \in Files, files[f] \in {None, Short}
  PROVE  /\ ~Intact /\ \A p \in Procs : proc[p].held[f] = None
         /\ \A p, q \in Procs : Starting(p) /\ Starting(q) => p = q
<1>1. None \notin Keys /\ Short \notin Keys
  BY StartupAssumption
<1>2. \A p \in Procs : proc[p].held[f] \in Keys \union {None}
  BY RecordParts DEF StartupTypeOK, Processes
<1>3. QED
  BY <1>1, <1>2 DEF KeysInv, KeysAreOnDisk, Intact

\* A process that goes on with the keys it has, or with none.
LEMMA KeysKept ==
  ASSUME StartupTypeOK, KeysInv, NEW p \in Procs, NEW r, proc' = [proc EXCEPT ![p] = r],
         UNCHANGED files,
         \A f \in Files : r.held[f] \in {None, proc[p].held[f], files[f]},
         r.pc \in {"down", "running"} \/ Starting(p) \/ Intact \/ \A q \in Procs : ~Starting(q),
         r.pc = "create" => File(p)' \in Files /\ files[File(p)'] = None, r.pc # "write"
  PROVE  KeysInv'
<1>1. proc'[p] = r /\ \A q \in Procs : q # p => proc'[q] = proc[q] /\ File(q)' = File(q)
  BY DEF StartupTypeOK, File
<1>2. KeysAreOnDisk'
  BY <1>1 DEF KeysInv, KeysAreOnDisk
<1>3. ASSUME NEW q \in Procs, NEW s \in Procs, q # s, Starting(q)', Starting(s)' PROVE Intact'
  BY <1>1, <1>3 DEF KeysInv, Starting, Intact
<1>4. ASSUME NEW q \in Procs, proc'[q].pc \in {"create", "write"}
      PROVE  /\ proc'[q].pc = "create" => files'[File(q)'] = None
             /\ proc'[q].pc = "write" => files'[File(q)'] = Short
  BY <1>1, <1>4 DEF KeysInv
<1>5. QED
  BY <1>2, <1>3, <1>4 DEF KeysInv

LEMMA KeysStep ==
  ASSUME Coordinated, StartupTypeOK, KeysInv, StartupStep \/ \E p \in Procs : Ends(p)
  PROVE  KeysInv'
<1>1. Down.pc = "down" /\ \A f \in Files : Down.held[f] = None
  BY DEF Down
<1>2. ASSUME NEW p \in Procs, Ends(p) PROVE KeysInv'
  <2> DEFINE r == Down
  <2>1. /\ proc' = [proc EXCEPT ![p] = r] /\ UNCHANGED files
        /\ r.pc = "down" /\ \A f \in Files : r.held[f] = None
    BY <1>1, <1>2 DEF Ends
  <2> HIDE DEF r
  <2>2. \A f \in Files : r.held[f] \in {None, proc[p].held[f], files[f]}
    BY <2>1
  <2>3. r.pc # "create" /\ r.pc # "write"
    BY <2>1
  <2>4. QED
    BY <2>1, <2>2, <2>3, KeysKept
<1>3. ASSUME NEW p \in Procs, Start(p) PROVE KeysInv'
  <2>1. PICK cmd \in Commands(p) :
             proc' = [proc EXCEPT ![p] = [Down EXCEPT !.pc = "check", !.cmd = cmd]]
    BY <1>3 DEF Start
  <2> DEFINE r == [Down EXCEPT !.pc = "check", !.cmd = cmd]
  <2>2. r.pc = "check" /\ \A f \in Files : r.held[f] = None
    BY DEF Down
  <2>3. proc' = [proc EXCEPT ![p] = r]
    BY <2>1
  <2> HIDE DEF r
  <2>4. Intact \/ \A q \in Procs : ~Starting(q)
    BY <1>3 DEF Start, MayStart
  <2>5. UNCHANGED files
    BY <1>3 DEF Start
  <2>6. \A f \in Files : r.held[f] \in {None, proc[p].held[f], files[f]}
    BY <2>2
  <2>7. r.pc \in {"down", "running"} \/ Starting(p) \/ Intact \/ \A q \in Procs : ~Starting(q)
    BY <2>4
  <2>8. r.pc # "create" /\ r.pc # "write"
    BY <2>2
  <2>9. QED
    BY <2>3, <2>5, <2>6, <2>7, <2>8, KeysKept
<1>4. ASSUME NEW p \in Procs, NEW r, proc' = [proc EXCEPT ![p] = r], UNCHANGED files, Starting(p),
             r.held = proc[p].held, r.pc \notin {"create", "write"}
      PROVE  KeysInv'
  BY <1>4, KeysKept
<1>5. ASSUME NEW p \in Procs, Check(p) PROVE KeysInv'
  <2> DEFINE r == proc[p]
             s == IF r.step > Migrations THEN [r EXCEPT !.pc = "load", !.step = 1]
                  ELSE IF Done(r.step) THEN Past(r, r.step)
                  ELSE [r EXCEPT !.pc = "apply"]
  <2>1. r \in Records /\ r.pc = "check"
    BY <1>5 DEF Check, StartupTypeOK, Processes
  <2>2. s.held = r.held /\ s.pc \in {"load", "check", "apply"}
    BY <2>1 DEF Past, Records
  <2>3. proc' = [proc EXCEPT ![p] = s] /\ UNCHANGED files
    BY <1>5 DEF Check
  <2> HIDE DEF s
  <2>4. QED
    BY <1>4, <2>1, <2>2, <2>3 DEF Starting
<1>6. ASSUME NEW p \in Procs, Apply(p) PROVE KeysInv'
  <2> DEFINE r == proc[p]
             s == [Past(r, r.step) EXCEPT !.pc = "check"]
  <2>1. r \in Records /\ r.pc = "apply" /\ UNCHANGED files
    BY <1>6 DEF Apply, StartupTypeOK, Processes
  <2>2. s.held = r.held /\ s.pc = "check"
    BY <2>1 DEF Past, Records
  <2>3. proc' = [proc EXCEPT ![p] = Down] \/ proc' = [proc EXCEPT ![p] = s]
    BY <1>6 DEF Apply
  <2> HIDE DEF s
  <2>4. QED
    BY <1>1, <1>4, <2>1, <2>2, <2>3, KeysKept DEF Starting
<1>7. ASSUME NEW p \in Procs, LoadOrCreate(p) PROVE KeysInv'
  <2> DEFINE r == proc[p]
             s == [r EXCEPT !.pc = "create"]
             h == Holding(p, files[File(p)])
  <2>1. r \in Records /\ Loads(p) /\ r.pc = "load" /\ File(p) \in Files /\ UNCHANGED files
    BY <1>7, FileType DEF LoadOrCreate, Loads, StartupTypeOK, Processes
  <2>2. /\ proc' = [proc EXCEPT ![p] =
                      IF files[File(p)] = None THEN s ELSE IF files[File(p)] = Short THEN Down ELSE h]
    BY <1>7 DEF LoadOrCreate
  <2>3. s.held = r.held /\ s.pc = "create" /\ s.cmd = r.cmd /\ s.step = r.step
    BY <2>1 DEF Records
  <2> HIDE DEF s, h
  <2>4. CASE files[File(p)] = None
    <3>1. proc' = [proc EXCEPT ![p] = s] /\ proc'[p] = s
      BY <2>2, <2>4 DEF StartupTypeOK
    <3>2. File(p)' = File(p)
      BY <2>3, <3>1 DEF File
    <3>3. QED
      BY <2>1, <2>3, <2>4, <3>1, <3>2, KeysKept DEF Starting
  <2>5. CASE files[File(p)] = Short
    <3>1. None # Short
      BY StartupAssumption
    <3>2. QED
      BY <1>1, <2>1, <2>2, <2>5, <3>1, KeysKept
  <2>6. CASE files[File(p)] \notin {None, Short}
    <3>1. files[File(p)] \in Keys
      BY <2>1, <2>6 DEF StartupTypeOK
    <3>2. /\ h.pc = "load" /\ \A f \in Files : h.held[f] \in {r.held[f], files[f]}
      BY <2>1, <3>1, HoldingType DEF h
    <3>3. proc' = [proc EXCEPT ![p] = h]
      BY <2>2, <2>6
    <3>4. \A f \in Files : h.held[f] \in {None, r.held[f], files[f]}
      BY <3>2
    <3>5. Starting(p)
      BY <2>1 DEF Starting
    <3>6. h.pc # "create" /\ h.pc # "write"
      BY <3>2
    <3>7. QED
      BY <2>1, <3>3, <3>4, <3>5, <3>6, KeysKept
  <2>7. QED
    BY <2>4, <2>5, <2>6
<1>8. ASSUME NEW p \in Procs, Begin(p) PROVE KeysInv'
  <2> DEFINE s == [proc[p] EXCEPT !.pc = "running"]
  <2>1. proc[p] \in Records /\ proc[p].pc = "load" /\ UNCHANGED files
    BY <1>8 DEF Begin, StartupTypeOK, Processes
  <2>2. s.held = proc[p].held /\ s.pc = "running"
    BY <2>1 DEF Records
  <2>3. proc' = [proc EXCEPT ![p] = Down] \/ proc' = [proc EXCEPT ![p] = s]
    BY <1>8 DEF Begin
  <2> HIDE DEF s
  <2>4. QED
    BY <1>1, <1>4, <2>1, <2>2, <2>3, KeysKept DEF Starting
<1>9. ASSUME NEW p \in Procs, Create(p) PROVE KeysInv'
  <2> DEFINE r == proc[p]
             s == [r EXCEPT !.pc = "write", !.new = generated + 1]
             f == File(p)
  <2>1. r \in Records /\ r.pc = "create" /\ f \in Files /\ files[f] = None
    BY <1>9, FileType DEF Create, StartupTypeOK, Processes, KeysInv
  <2>2. s.held = r.held /\ s.pc = "write" /\ s.cmd = r.cmd /\ s.step = r.step
    BY <2>1 DEF Records
  <2>3. proc' = [proc EXCEPT ![p] = s] /\ files' = [files EXCEPT ![f] = Short]
    BY <1>9 DEF Create
  <2> HIDE DEF s
  <2>4. /\ proc'[p] = s /\ \A q \in Procs : q # p => proc'[q] = proc[q]
        /\ files'[f] = Short /\ \A g \in Files : g # f => files'[g] = files[g]
    BY <2>1, <2>3 DEF StartupTypeOK
  <2>5. f' = f
    BY <2>2, <2>4 DEF File
  <2>6. /\ \A q \in Procs : proc[q].held[f] = None
        /\ \A q \in Procs : q # p => ~Starting(q)
    BY <2>1, NobodyHolds DEF Starting
  <2>7. KeysAreOnDisk'
    BY <2>2, <2>4, <2>6 DEF KeysInv, KeysAreOnDisk
  <2>8. \A q \in Procs : Starting(q)' => q = p
    BY <2>4, <2>6 DEF Starting
  <2>9. QED
    BY <2>2, <2>4, <2>5, <2>7, <2>8 DEF KeysInv, Starting
<1>10. ASSUME NEW p \in Procs, Write(p) PROVE KeysInv'
  <2> DEFINE r == proc[p]
             f == File(p)
             s == Holding(p, r.new)
  <2>1. r \in Records /\ r.pc = "write" /\ r.new \in Keys /\ f \in Files /\ files[f] = Short
    BY <1>10, FileType DEF Write, StartupTypeOK, Processes, Consistent, KeysInv
  <2>2. s.pc = "load" /\ s.held[f] = r.new /\ \A g \in Files : g # f => s.held[g] = r.held[g]
    BY <2>1, HoldingType
  <2>3. proc' = [proc EXCEPT ![p] = s] /\ files' = [files EXCEPT ![f] = r.new]
    BY <1>10 DEF Write
  <2> HIDE DEF s
  <2>4. /\ proc'[p] = s /\ \A q \in Procs : q # p => proc'[q] = proc[q]
        /\ files'[f] = r.new /\ \A g \in Files : g # f => files'[g] = files[g]
    BY <2>1, <2>3 DEF StartupTypeOK
  <2>5. /\ \A q \in Procs : proc[q].held[f] = None
        /\ \A q \in Procs : q # p => ~Starting(q)
    BY <2>1, NobodyHolds DEF Starting
  <2>6. KeysAreOnDisk'
    BY <2>2, <2>4, <2>5 DEF KeysInv, KeysAreOnDisk
  <2>7. \A q \in Procs : Starting(q)' => q = p
    BY <2>4, <2>5 DEF Starting
  <2>8. \A q \in Procs : proc'[q].pc \notin {"create", "write"}
    BY <2>2, <2>4, <2>5 DEF Starting
  <2>9. QED
    BY <2>6, <2>7, <2>8 DEF KeysInv
<1>11. ASSUME NEW f \in Files, RemoveShort(f) PROVE KeysInv'
  <2>1. /\ files[f] = Short /\ proc' = proc /\ files' = [files EXCEPT ![f] = None]
        /\ \A p \in Procs : ~Starting(p)
    BY <1>11 DEF RemoveShort
  <2>2. \A p \in Procs : proc[p].held[f] = None
    BY <2>1, NobodyHolds
  <2>3. \A g \in Files : g # f => files'[g] = files[g]
    BY <2>1
  <2>4. KeysAreOnDisk'
    BY <2>1, <2>2, <2>3 DEF KeysInv, KeysAreOnDisk
  <2>5. QED
    BY <2>1, <2>4 DEF KeysInv, Starting
<1>12. QED
  BY <1>2, <1>3, <1>5, <1>6, <1>7, <1>8, <1>9, <1>10, <1>11 DEF StartupStep

\* A key that is in its file stays there.
LEMMA FilesStay ==
  ASSUME StartupTypeOK, KeysInv, StartupStep \/ \E p \in Procs : Ends(p),
         NEW f \in Files, files[f] \in Keys
  PROVE  files'[f] = files[f]
<1>1. None \notin Keys /\ Short \notin Keys
  BY StartupAssumption
<1>2. ASSUME NEW p \in Procs, Create(p) \/ Write(p) PROVE files'[f] = files[f]
  <2>1. File(p) \in Files /\ files[File(p)] \in {None, Short}
    BY <1>2, FileType DEF Create, Write, KeysInv
  <2>2. \E content : files' = [files EXCEPT ![File(p)] = content]
    BY <1>2 DEF Create, Write
  <2>3. QED
    BY <1>1, <2>1, <2>2 DEF StartupTypeOK
<1>3. ASSUME NEW p \in Procs, Start(p) \/ Check(p) \/ Apply(p) \/ LoadOrCreate(p) \/ Begin(p) \/ Ends(p)
      PROVE  files' = files
  BY <1>3 DEF Start, Check, Apply, LoadOrCreate, Begin, Ends
<1>4. ASSUME NEW g \in Files, RemoveShort(g) PROVE files'[f] = files[f]
  BY <1>1, <1>4 DEF RemoveShort, StartupTypeOK
<1>5. QED
  BY <1>2, <1>3, <1>4 DEF StartupStep

LEMMA KeysInit == Init => KeysInv
<1> SUFFICES ASSUME Init PROVE KeysInv
  OBVIOUS
<1>1. \A p \in Procs : proc[p].pc = "down" /\ \A f \in Files : proc[p].held[f] = None
  BY DEF Init, StartupInit, Down
<1>2. QED
  BY <1>1 DEF KeysInv, KeysAreOnDisk, Starting

LEMMA KeysNext ==
  ASSUME Coordinated, TypeOK, KeysInv, [Next]_vars
  PROVE  /\ KeysInv'
         /\ \A f \in Files : files[f] \in Keys => files'[f] = files[f]
<1>1. CASE UNCHANGED startup
  BY <1>1 DEF startup, KeysInv, KeysAreOnDisk, Starting, Intact, File
<1>2. CASE StartupStep \/ \E p \in Procs : Ends(p)
  BY <1>2, KeysStep, FilesStay DEF TypeOK
<1>3. QED
  BY <1>1, <1>2, StartupMoves

(***************************************************************************)
(* If a host's first process starts alone, a key in use is the one in its  *)
(* file, wherever that process ended and whatever starts later.            *)
(***************************************************************************)
THEOREM KeysOnDiskCorrect ==
  ASSUME Coordinated
  PROVE  Spec => []KeysAreOnDisk
<1>1. KeysInv => KeysAreOnDisk
  BY DEF KeysInv
<1>2. TypeOK /\ KeysInv /\ [Next]_vars => KeysInv'
  BY KeysNext
<1>3. QED
  BY <1>1, <1>2, KeysInit, TypeCorrect, PTL DEF Spec

\* What is stored is encrypted with the key in the file.
StoredOnDisk ==
    /\ \A i \in Ids : Exists(i) => rows[i].key = files["secrets"]
    /\ \A s \in Settings : settings[s] # None => settings[s] = files["secrets"]

LEMMA HeldOnDisk ==
  ASSUME StartupTypeOK, KeysInv, NEW p \in Procs, Running(p)
  PROVE  /\ proc[p].held["secrets"] = files["secrets"] /\ files["secrets"] \in Keys
         /\ None \notin Keys
<1>1. proc[p].held["secrets"] \in Keys /\ None \notin Keys
  BY HeldType, StartupAssumption
<1>2. QED
  BY <1>1 DEF KeysInv, KeysAreOnDisk, Files

LEMMA StoredKept ==
  ASSUME TypeOK, StoredOnDisk,
         files["secrets"] \in Keys => files'["secrets"] = files["secrets"],
         \A i \in Ids : Exists(i)' => \/ Exists(i) /\ rows'[i].key = rows[i].key
                                     \/ rows'[i].key = files'["secrets"],
         \A s \in Settings : settings'[s] \in {None, settings[s], files'["secrets"]}
  PROVE  StoredOnDisk'
<1>1. \A i \in Ids : Exists(i) => rows[i].key \in Keys
  BY DEF TypeOK, Rows, Exists, NoRow
<1>2. \A s \in Settings : settings[s] # None => settings[s] \in Keys
  BY DEF TypeOK
<1>3. ASSUME NEW i \in Ids, Exists(i)' PROVE rows'[i].key = files'["secrets"]
  BY <1>1, <1>3 DEF StoredOnDisk
<1>4. ASSUME NEW s \in Settings, settings'[s] # None PROVE settings'[s] = files'["secrets"]
  BY <1>2, <1>4 DEF StoredOnDisk
<1>5. QED
  BY <1>3, <1>4 DEF StoredOnDisk

LEMMA StoredStep ==
  ASSUME Coordinated, TypeOK, KeysInv, StoredOnDisk, [Next]_vars
  PROVE  StoredOnDisk'
<1>1. files["secrets"] \in Keys => files'["secrets"] = files["secrets"]
  BY KeysNext DEF Files
<1>2. RowsType /\ StartupTypeOK
  BY DEF TypeOK, RowsType
<1>3. CASE UNCHANGED tables
  BY <1>1, <1>3, StoredKept DEF tables, Exists
<1>4. ASSUME NEW w \in Workers, Handle(w) PROVE StoredOnDisk'
  <2>1. UNCHANGED settings
    BY <1>4, HandleTables
  <2>2. ASSUME \A i \in Ids : Kept(i) PROVE StoredOnDisk'
    BY <1>1, <2>1, <2>2, StoredKept DEF Kept
  <2>3. CASE Inserted(w)
    <3>1. PICK n \in Names, h \in Hosts, role \in Roles :
               Free(w) /\ InsertRow(n, h, role, Held(w))
      BY <2>3 DEF Inserted
    <3>2. /\ Held(w) = files["secrets"] /\ files'["secrets"] = files["secrets"]
          /\ Held(w) \in Keys
      BY <1>1, <1>2, <3>1, HeldOnDisk, WorkerFacts DEF Free, Held
    <3>3. /\ rows'[nextId].key = Held(w) /\ \A i \in Ids : i # nextId => rows'[i] = rows[i]
      <4>1. /\ rows'[nextId] = [status |-> "unknown", name |-> n, host |-> h, role |-> role,
                                serial |-> None, key |-> Held(w)]
            /\ \A i \in Ids : i # nextId => rows'[i] = rows[i]
        BY <1>2, <3>1, <3>2, InsertedRow
      <4>2. QED
        BY <4>1
    <3>4. \A i \in Ids : Exists(i)' => \/ Exists(i) /\ rows'[i].key = rows[i].key
                                      \/ rows'[i].key = files'["secrets"]
      BY <3>2, <3>3 DEF Exists
    <3>5. QED
      BY <1>1, <2>1, <3>4, StoredKept
  <2>4. CASE UNCHANGED <<rows, nextId>>
    BY <1>3, <2>1, <2>4 DEF tables
  <2>5. QED
    BY <1>2, <1>4, <2>2, <2>3, <2>4, HandleTables, ReportedRow, ClassifiedRow
<1>5. ASSUME NEW i \in Ids, SetRole(i) PROVE StoredOnDisk'
  <2>1. UNCHANGED settings /\ \A j \in Ids : Kept(j)
    BY <1>2, <1>5, SetRoleRow DEF SetRole
  <2>2. QED
    BY <1>1, <2>1, StoredKept DEF Kept
<1>6. ASSUME NEW i \in Ids, DeleteDevice(i) PROVE StoredOnDisk'
  <2>1. UNCHANGED settings /\ \A j \in Ids : Exists(j)' => Exists(j) /\ rows'[j] = rows[j]
    <3>1. /\ ~Exists(i)' /\ \A j \in Ids : j # i => rows'[j] = rows[j]
      BY <1>2, <1>6, DeletedRow
    <3>2. QED
      BY <1>6, <3>1 DEF DeleteDevice, Exists
  <2>2. QED
    BY <1>1, <2>1, StoredKept
<1>7. ASSUME NEW s \in Settings, SetSetting(s) \/ DeleteSetting(s) PROVE StoredOnDisk'
  <2>1. SetSetting(s) => proc[Server].held["secrets"] = files'["secrets"]
    BY <1>1, <1>2, HeldOnDisk DEF SetSetting, Procs
  <2>2. UNCHANGED rows /\ \A t \in Settings : settings'[t] \in {None, settings[t], files'["secrets"]}
    BY <1>7, <2>1 DEF SetSetting, DeleteSetting, TypeOK
  <2>3. QED
    BY <1>1, <2>2, StoredKept DEF Exists
<1>8. CASE (\E p \in Procs : Stop(p)) \/ Starts \/ UNCHANGED vars
  BY <1>3, <1>8 DEF Stop, Starts, vars
<1>9. QED
  BY <1>4, <1>5, <1>6, <1>7, <1>8, NextSteps DEF Administer

(***************************************************************************)
(* If a host's first process starts alone, everything stored is encrypted  *)
(* with the key in the file and with the one every other process holds.    *)
(***************************************************************************)
THEOREM DecryptableCorrect ==
  ASSUME Coordinated
  PROVE  Spec => []Decryptable
<1>1. Init => StoredOnDisk
  BY DEF Init, StoredOnDisk, Exists, NoRow
<1>2. TypeOK /\ KeysInv /\ StoredOnDisk => Decryptable
  <2> SUFFICES ASSUME TypeOK, KeysInv, StoredOnDisk, NEW k \in Stored
               PROVE  /\ files["secrets"] = k
                      /\ \A p \in Procs : proc[p].held["secrets"] \in {None, k}
    BY DEF Decryptable
  <2>1. files["secrets"] = k
    BY DEF Stored, StoredOnDisk
  <2>2. QED
    BY <2>1 DEF KeysInv, KeysAreOnDisk, Files
<1>3. TypeOK /\ KeysInv /\ StoredOnDisk /\ [Next]_vars => KeysInv' /\ StoredOnDisk'
  BY KeysNext, StoredStep
<1>4. QED
  BY <1>1, <1>2, <1>3, KeysInit, TypeCorrect, PTL DEF Spec

(***************************************************************************)
(* Then the server decrypts every device there is, whoever added it.       *)
(***************************************************************************)
THEOREM DecryptedByServeCorrect ==
  ASSUME Coordinated
  PROVE  Spec => []DecryptedByServe
<1>1. TypeOK /\ Decryptable => DecryptedByServe
  <2> SUFFICES ASSUME TypeOK, Decryptable, NEW i \in Ids, Exists(i), Running(Server)
               PROVE  rows[i].key = proc[Server].held["secrets"]
    BY DEF DecryptedByServe
  <2>1. rows[i].key \in Stored /\ Server \in Procs
    BY DEF Stored, Procs
  <2>2. proc[Server].held["secrets"] \in Keys
    BY <2>1, HeldType DEF TypeOK
  <2>3. None \notin Keys
    BY StartupAssumption
  <2>4. QED
    BY <2>1, <2>2, <2>3 DEF Decryptable
<1>2. QED
  BY <1>1, DecryptableCorrect, TypeCorrect, PTL

---------------------------------------------------------------------------
(* The table *)

\* Ids not handed out yet name nothing, and a request has the address of its
\* device's row as long as there is one.
UnusedIds == \A i \in Ids : i >= nextId => rows[i] = NoRow

LinkedRequests == \A w \in Workers : ~At(w, "idle") =>
    /\ req[w].id < nextId
    /\ Exists(req[w].id) => rows[req[w].id].host = req[w].host

Linked == UnusedIds /\ LinkedRequests

LEMMA ExistingId ==
  ASSUME TypeOK, UnusedIds, NEW i \in Ids, Exists(i)
  PROVE  i < nextId
<1>1. i \in Int /\ nextId \in Int
  BY DEF TypeOK, Ids
<1>2. rows[i] # NoRow
  BY DEF Exists, NoRow
<1>3. QED
  BY <1>1, <1>2 DEF UnusedIds

\* What any step leaves of the rows.
LEMMA TableStep ==
  ASSUME TypeOK, UnusedIds, [Next]_vars
  PROVE  /\ UnusedIds' /\ nextId' >= nextId
         /\ \A i \in Ids : i < nextId /\ Exists(i)' => Exists(i) /\ rows'[i].host = rows[i].host
<1> DEFINE Goal == /\ UnusedIds' /\ nextId' >= nextId
                   /\ \A i \in Ids : i < nextId /\ Exists(i)' =>
                         Exists(i) /\ rows'[i].host = rows[i].host
<1>1. RowsType /\ nextId \in Int /\ \A i \in Ids : i \in Int
  BY DEF TypeOK, RowsType, Ids
<1>2. CASE UNCHANGED <<rows, nextId>>
  BY <1>1, <1>2 DEF UnusedIds, Exists
<1>3. ASSUME nextId' = nextId, \A i \in Ids : Kept(i) PROVE Goal
  <2>1. \A i \in Ids : i >= nextId => ~Exists(i)
    BY <1>1, ExistingId
  <2>2. QED
    BY <1>1, <1>3, <2>1 DEF UnusedIds, Kept
<1>4. ASSUME NEW w \in Workers, Inserted(w) PROVE Goal
  <2>1. PICK n \in Names, h \in Hosts, role \in Roles :
             Free(w) /\ InsertRow(n, h, role, Held(w))
    BY <1>4 DEF Inserted
  <2>2. Held(w) \in Keys
    BY <2>1, HeldType, WorkerFacts DEF Free, Held, TypeOK
  <2>3. nextId' = nextId + 1 /\ \A i \in Ids : i # nextId => rows'[i] = rows[i]
    BY <1>1, <2>1, <2>2, InsertedRow
  <2>4. QED
    BY <1>1, <2>3 DEF UnusedIds, Exists
<1>5. ASSUME NEW i \in Ids, DeleteDevice(i) PROVE Goal
  <2>1. /\ nextId' = nextId /\ rows'[i] = NoRow /\ ~Exists(i)'
        /\ \A j \in Ids : j # i => rows'[j] = rows[j]
    BY <1>1, <1>5, DeletedRow
  <2>2. QED
    BY <1>1, <2>1 DEF UnusedIds, Exists
<1>6. ASSUME NEW i \in Ids, SetRole(i) PROVE Goal
  <2>1. nextId' = nextId
    BY <1>6 DEF SetRole
  <2>2. QED
    BY <1>1, <1>3, <1>6, <2>1, SetRoleRow
<1>7. ASSUME NEW w \in Workers, Handle(w) PROVE Goal
  <2>1. CASE Reported(w)
    BY <1>1, <1>3, <2>1, ReportedRow DEF Reported
  <2>2. CASE Classified(w)
    BY <1>1, <1>3, <2>2, ClassifiedRow DEF Classified
  <2>3. QED
    BY <1>2, <1>4, <1>7, <2>1, <2>2, HandleTables
<1>8. CASE \/ \E s \in Settings : SetSetting(s) \/ DeleteSetting(s)
           \/ (\E p \in Procs : Stop(p)) \/ Starts \/ UNCHANGED vars
  BY <1>2, <1>8 DEF SetSetting, DeleteSetting, Stop, Starts, vars, tables
<1>9. QED
  BY <1>5, <1>6, <1>7, <1>8, NextSteps DEF Administer

LEMMA LinkedStep == TypeOK /\ Linked /\ [Next]_vars => Linked'
<1> SUFFICES ASSUME TypeOK, Linked, [Next]_vars PROVE Linked'
  OBVIOUS
<1> DEFINE Link(w) == ~At(w, "idle") =>
               /\ req[w].id < nextId
               /\ Exists(req[w].id) => rows[req[w].id].host = req[w].host
<1>1. /\ UnusedIds' /\ nextId' >= nextId /\ nextId \in Int /\ nextId' \in Int
      /\ \A i \in Ids : i < nextId /\ Exists(i)' => Exists(i) /\ rows'[i].host = rows[i].host
  <2>1. TypeOK'
    BY TypeStep
  <2>2. QED
    BY <2>1, TableStep DEF TypeOK, Linked
<1>2. ASSUME NEW w \in Workers, ~At(w, "idle"),
             req'[w].id = req[w].id, req'[w].host = req[w].host
      PROVE  Link(w)'
  <2>1. req[w].id \in Ids /\ req[w].id \in Int
    BY <1>2, RequestParts DEF TypeOK, At, Requests, Ids
  <2>2. QED
    BY <1>1, <1>2, <2>1 DEF Linked, LinkedRequests, Exists
<1>3. ASSUME NEW v \in Workers, NEW w \in Workers, NEW r, Continues(v, r) PROVE Link(w)'
  <2>1. req'[v] = r /\ \A u \in Workers : u # v => req'[u] = req[u]
    BY <1>3 DEF Continues, TypeOK
  <2>2. CASE w # v
    BY <1>2, <2>1, <2>2 DEF At
  <2>3. CASE w = v /\ ~At(w, "idle") /\ r.id = req[w].id /\ r.host = req[w].host
    BY <1>2, <2>1, <2>3
  <2>4. ASSUME w = v, NEW i \in Ids, Exists(i), UNCHANGED tables, r.id = i, r.host = rows[i].host
        PROVE  Link(w)'
    <3>1. i < nextId
      BY <2>4, ExistingId DEF Linked
    <3>2. QED
      BY <2>1, <2>4, <3>1 DEF tables
  <2>5. ASSUME w = v, NEW n \in Names, NEW h \in Hosts, NEW role \in Roles,
               InsertRow(n, h, role, Held(w)), r.id = nextId, r.host = h
        PROVE  Link(w)'
    <3>1. Held(w) \in Keys /\ RowsType
      BY <1>3, <2>5, HeldType, WorkerFacts DEF Continues, Held, TypeOK, RowsType
    <3>2. /\ nextId' = nextId + 1
          /\ rows'[nextId] = [status |-> "unknown", name |-> n, host |-> h, role |-> role,
                              serial |-> None, key |-> Held(w)]
      BY <2>5, <3>1, InsertedRow
    <3>3. rows'[nextId].host = h
      BY <3>2
    <3>4. QED
      BY <1>1, <2>1, <2>5, <3>2, <3>3
  <2>6. Follows(v, r)
    BY <1>3 DEF Continues
  <2>7. QED
    BY <2>2, <2>3, <2>4, <2>5, <2>6 DEF Follows
<1>4. ASSUME NEW w \in Workers, req'[w] \in {req[w], Idle} PROVE Link(w)'
  BY <1>2, <1>4, IdleType DEF At
<1>5. ASSUME NEW v \in Workers, Handle(v), NEW w \in Workers PROVE Link(w)'
  <2>1. CASE Return(v)
    BY <1>4, <2>1 DEF Return, TypeOK
  <2>2. QED
    BY <1>3, <1>5, <2>1, RequestStep
<1>6. ASSUME NEW w \in Workers, Administer \/ (\E p \in Procs : Stop(p)) \/ Starts \/ UNCHANGED vars
      PROVE  Link(w)'
  <2>1. req'[w] \in {req[w], Idle}
    BY <1>6 DEF Administer, SetRole, DeleteDevice, SetSetting, DeleteSetting, Stop, Starts, vars
  <2>2. QED
    BY <1>4, <2>1
<1>7. \A w \in Workers : Link(w)'
  BY <1>5, <1>6, NextSteps
<1>8. QED
  BY <1>1, <1>7 DEF Linked, LinkedRequests

LEMMA EnrollStep ==
  ASSUME TypeOK, Linked, NEW w \in Workers, Inserted(w)
  PROVE  Devices!Next
<1>1. PICK n \in Names, h \in Hosts, role \in Roles :
           Free(w) /\ InsertRow(n, h, role, Held(w))
  BY DEF Inserted
<1>2. Held(w) \in Keys /\ RowsType
  BY <1>1, HeldType, WorkerFacts DEF Free, Held, TypeOK, RowsType
<1>3. /\ nextId \in Ids /\ nextId \in Int /\ nextId' = nextId + 1
      /\ rows'[nextId] = [status |-> "unknown", name |-> n, host |-> h, role |-> role,
                          serial |-> None, key |-> Held(w)]
      /\ \A i \in Ids : i # nextId => rows'[i] = rows[i]
  BY <1>1, <1>2, InsertedRow
<1>4. rows[nextId] = NoRow
  BY <1>3 DEF Linked, UnusedIds
<1>5. entry[nextId] = Devices!Unborn
  BY <1>3, <1>4 DEF entry, Exists, NoRow, Devices!Unborn
<1>6. entry'[nextId] = [state |-> "unknown", host |-> h, serial |-> None]
  BY <1>3 DEF entry, Exists
<1>7. \A i \in Ids : i # nextId => (i < nextId' <=> i < nextId)
  BY <1>3 DEF Ids
<1>8. \A i \in Ids : i # nextId => entry'[i] = entry[i]
  BY <1>3, <1>7 DEF entry, Exists
<1>9. entry' = [entry EXCEPT ![nextId] = [state |-> "unknown", host |-> h, serial |-> None]]
  BY <1>3, <1>6, <1>8 DEF entry
<1>10. Devices!Enroll(nextId, h)
  BY <1>5, <1>9 DEF Devices!Enroll
<1>11. QED
  BY <1>3, <1>10 DEF Devices!Next

LEMMA ObserveStep ==
  ASSUME TypeOK, Linked, NEW w \in Workers, Reported(w)
  PROVE  Devices!Next \/ UNCHANGED entry
<1> DEFINE i == req[w].id
           status == req[w].status
           row == Observed(rows[i], status, req[w].serial)
<1>1. /\ RowsType /\ i \in Ids /\ nextId' = nextId
      /\ status \in {"reachable", "unreachable", "error"}
      /\ req[w].serial \in {req[w].host, None} /\ req[w].host \in Hosts
  BY DEF Reported, TypeOK, RowsType
<1>2. CASE ~Exists(i)
  <2>1. rows' = rows
    BY <1>1, <1>2, ReportedRow
  <2>2. QED
    BY <1>1, <2>1 DEF entry, Exists
<1>3. CASE Exists(i)
  <2>1. rows[i] \in Rows \ {NoRow} /\ rows[i].host = req[w].host
    BY <1>1, <1>3, ExistingRow DEF Reported, Linked, LinkedRequests
  <2>2. rows' = [rows EXCEPT ![i] = row] /\ rows'[i] = row
        /\ \A j \in Ids : j # i => rows'[j] = rows[j]
    BY <1>1, <1>3 DEF Reported, UpdateReachability, RowsType
  <2>3. /\ row.status = status /\ row.host = rows[i].host
        /\ row.serial = rows[i].serial \/ (row.serial = rows[i].host /\ status = "reachable")
    <3> DEFINE old == rows[i]
               serial == req[w].serial
    <3>1. old \in Rows \ {NoRow} /\ serial \in {old.host, None} /\ serial \in Hosts \union {None}
      BY <1>1, <2>1
    <3> HIDE DEF old, serial, status
    <3>2. /\ Observed(old, status, serial).status = status
          /\ Observed(old, status, serial).host = old.host
          /\ \/ Observed(old, status, serial).serial = old.serial
             \/ /\ Observed(old, status, serial).serial = serial
                /\ status = "reachable" /\ serial # None
      BY <1>1, <3>1, ObservedRow
    <3>3. QED
      BY <3>1, <3>2 DEF old, serial
  <2> HIDE DEF row, status
  <2>4. entry[i] = [state |-> rows[i].status, host |-> rows[i].host, serial |-> rows[i].serial]
    BY <1>1, <1>3 DEF entry
  <2>5. entry'[i] = [state |-> status, host |-> rows[i].host, serial |-> row.serial]
    BY <1>1, <2>2, <2>3 DEF entry, Exists
  <2>6. \A j \in Ids : j # i => entry'[j] = entry[j]
    BY <1>1, <2>2 DEF entry, Exists
  <2>7. entry' = [entry EXCEPT ![i] = [state |-> status, host |-> entry[i].host,
                                      serial |-> row.serial]]
    <3>1. entry[i].host = rows[i].host
      BY <2>4
    <3>2. entry' = [entry EXCEPT ![i] = entry'[i]]
      BY <1>1, <2>6 DEF entry
    <3>3. QED
      BY <2>5, <3>1, <3>2
  <2>8. Devices!Listed(i)
    BY <2>1, <2>4 DEF Devices!Listed, Devices!Outcomes, Rows, NoRow
  <2>9. row.serial \in {entry[i].serial} \union
                       (IF status = "reachable" THEN {entry[i].host} ELSE {})
    BY <2>3, <2>4
  <2>10. Devices!Observe(i, status)
    BY <2>7, <2>8, <2>9 DEF Devices!Observe
  <2>11. QED
    BY <1>1, <2>10 DEF Devices!Next, Devices!Outcomes
<1>4. QED
  BY <1>2, <1>3

LEMMA RemoveStep ==
  ASSUME TypeOK, Linked, NEW i \in Ids, DeleteDevice(i)
  PROVE  Devices!Next
<1>1. /\ RowsType /\ Exists(i) /\ nextId' = nextId /\ rows'[i] = NoRow
      /\ \A j \in Ids : j # i => rows'[j] = rows[j]
  BY DeletedRow DEF TypeOK, RowsType
<1>2. i < nextId /\ rows[i] \in Rows \ {NoRow}
  BY <1>1, ExistingId, ExistingRow DEF Linked
<1>3. Devices!Listed(i)
  BY <1>1, <1>2 DEF entry, Devices!Listed, Devices!Outcomes, Rows, NoRow
<1>4. entry'[i] = [state |-> "removed", host |-> None, serial |-> None]
  BY <1>1, <1>2 DEF entry, Exists, NoRow
<1>5. \A j \in Ids : j # i => entry'[j] = entry[j]
  BY <1>1 DEF entry, Exists
<1>6. entry' = [entry EXCEPT ![i] = [Devices!Unborn EXCEPT !.state = "removed"]]
  BY <1>4, <1>5 DEF entry, Devices!Unborn
<1>7. QED
  BY <1>3, <1>6 DEF Devices!Remove, Devices!Next

\* A step that leaves status, address and serial number alone is none.
LEMMA EntryKept ==
  ASSUME nextId' = nextId,
         \A i \in Ids : Kept(i) /\ rows'[i].status = rows[i].status
                        /\ rows'[i].serial = rows[i].serial
  PROVE  UNCHANGED entry
BY DEF entry, Kept

LEMMA InventoryStep == TypeOK /\ Linked /\ [Next]_vars => [Devices!Next]_entry
<1> SUFFICES ASSUME TypeOK, Linked, [Next]_vars PROVE Devices!Next \/ UNCHANGED entry
  OBVIOUS
<1>1. RowsType
  BY DEF TypeOK, RowsType
<1>2. CASE UNCHANGED <<rows, nextId>>
  BY <1>2 DEF entry, Exists
<1>3. ASSUME NEW w \in Workers, Handle(w) PROVE Devices!Next \/ UNCHANGED entry
  <2>1. CASE Classified(w)
    BY <1>1, <2>1, ClassifiedRow, EntryKept DEF Classified
  <2>2. QED
    BY <1>2, <1>3, <2>1, EnrollStep, ObserveStep, HandleTables
<1>4. ASSUME NEW i \in Ids, SetRole(i) PROVE UNCHANGED entry
  <2>1. nextId' = nextId
    BY <1>4 DEF SetRole
  <2>2. QED
    BY <1>1, <1>4, <2>1, SetRoleRow, EntryKept
<1>5. ASSUME NEW i \in Ids, DeleteDevice(i) PROVE Devices!Next
  BY <1>5, RemoveStep
<1>6. CASE \/ \E s \in Settings : SetSetting(s) \/ DeleteSetting(s)
           \/ (\E p \in Procs : Stop(p)) \/ Starts \/ UNCHANGED vars
  BY <1>2, <1>6 DEF SetSetting, DeleteSetting, Stop, Starts, vars, tables
<1>7. QED
  BY <1>3, <1>4, <1>5, <1>6, NextSteps DEF Administer

LEMMA InventoryInit == Init => Linked /\ Devices!Init
<1> SUFFICES ASSUME Init PROVE Linked /\ Devices!Init
  OBVIOUS
<1>1. \A w \in Workers : At(w, "idle")
  BY IdleType DEF Init, At
<1>2. QED
  BY <1>1 DEF Init, Linked, UnusedIds, LinkedRequests, Devices!Init, Devices!Unborn, entry,
              Exists, NoRow, Ids

(***************************************************************************)
(* The table is an inventory: ids name one device, a device that is gone   *)
(* stays gone, and the serial number stored was read from the device       *)
(* itself, however late a probe reports and wherever processes end.        *)
(***************************************************************************)
THEOREM InventoryCorrect == Spec => InventorySpec
BY TypeCorrect, InventoryInit, LinkedStep, InventoryStep, PTL
   DEF Spec, InventorySpec, Devices!Spec

(***************************************************************************)
(* A role that is known changes only by an administrator's choice.         *)
(***************************************************************************)
THEOREM RoleIsStickyCorrect == Spec => RoleIsSticky
<1> DEFINE Sticky == \A i \in Ids :
             Exists(i) /\ rows[i].role # "unknown" /\ rows'[i].status # "absent" =>
                rows'[i].role = rows[i].role \/ SetRole(i)
<1>1. TypeOK /\ Linked /\ [Next]_vars => [Sticky]_vars
  <2> SUFFICES ASSUME TypeOK, Linked, [Next]_vars,
                      NEW i \in Ids, Exists(i), rows[i].role # "unknown", rows'[i].status # "absent"
               PROVE  rows'[i].role = rows[i].role \/ SetRole(i)
    OBVIOUS
  <2>1. RowsType
    BY DEF TypeOK, RowsType
  <2>2. ASSUME NEW w \in Workers, Inserted(w) PROVE rows'[i] = rows[i]
    <3>1. PICK n \in Names, h \in Hosts, role \in Roles :
               Free(w) /\ InsertRow(n, h, role, Held(w))
      BY <2>2 DEF Inserted
    <3>2. Held(w) \in Keys
      BY <3>1, HeldType, WorkerFacts DEF Free, Held, TypeOK
    <3>3. i # nextId
      BY ExistingId DEF Linked, TypeOK
    <3>4. QED
      BY <2>1, <3>1, <3>2, <3>3, InsertedRow
  <2>3. ASSUME NEW w \in Workers, Handle(w) PROVE rows'[i].role = rows[i].role
    BY <2>1, <2>2, <2>3, HandleTables, ReportedRow, ClassifiedRow
  <2>4. ASSUME NEW j \in Ids, SetRole(j) PROVE rows'[i].role = rows[i].role \/ SetRole(i)
    BY <2>1, <2>4, SetRoleRow
  <2>5. ASSUME NEW j \in Ids, DeleteDevice(j) PROVE rows'[i] = rows[i]
    <3>1. rows'[j].status = "absent"
      BY <2>1, <2>5, DeletedRow DEF NoRow
    <3>2. QED
      BY <2>1, <2>5, <3>1, DeletedRow
  <2>6. CASE \/ \E s \in Settings : SetSetting(s) \/ DeleteSetting(s)
             \/ (\E p \in Procs : Stop(p)) \/ Starts \/ UNCHANGED vars
    BY <2>6 DEF SetSetting, DeleteSetting, Stop, Starts, vars, tables
  <2>7. QED
    BY <2>3, <2>4, <2>5, <2>6, NextSteps DEF Administer
<1>2. QED
  BY <1>1, TypeCorrect, InventoryInit, LinkedStep, PTL DEF Spec, RoleIsSticky
===========================================================================
