------------------------- MODULE IosConfig_proofs -------------------------
(***************************************************************************)
(* Proofs about IosConfig, for any number of sessions, VLANs, interfaces   *)
(* and OSPF processes.                                                     *)
(*                                                                         *)
(* The inductive invariant is about the lines that are still to be sent:   *)
(* together with the running configuration they lead to what was asked     *)
(* for, and no line of another session touches it.  What a line may do at  *)
(* all, whoever else configures, is the last part.                         *)
(***************************************************************************)
EXTENDS IosConfig, SequenceTheorems, TLAPS

Requests ==
    [pc : {"idle", "snapshot", "configure", "verify", "answer"}, op : Ops \union {None},
     lines : Seq(Lines), time : {"left", "late", "stuck"}, missed : BOOLEAN, blind : BOOLEAN]

\* Only a session that configures has lines, and only one that works is late.
RequestOK(c) ==
    /\ req[c].pc = "idle" => req[c] = Idle
    /\ req[c].pc # "idle" => req[c].op \in Ops
    /\ req[c].lines # <<>> => req[c].pc = "configure"
    /\ req[c].time # "left" => Working(c)

Types ==
    /\ running \in [Settings -> Contents] /\ startup \in [Settings -> Contents]
    /\ req \in [Clients -> Requests]
    /\ \A c \in Clients : RequestOK(c)
---------------------------------------------------------------------------
(* Operators *)

\* The setting of a request's object that an attribute names exists.
LEMMA SettingFacts ==
    /\ \A v \in Vlans : <<v, "name">> \in Settings
    /\ \A p \in Pids : <<p, "router-id">> \in Settings
    /\ \A i \in Interfaces, a \in {"address", "shutdown", "ospf", "network"} :
          <<i, a>> \in Settings
  BY DEF Settings

\* A request has one of four kinds, with the object and the value of its kind.
LEMMA OpFacts ==
    ASSUME NEW op \in Ops
    PROVE  /\ op # None /\ op \in AllOps
           /\ \/ op.kind = "vlan" /\ op.object \in Vlans /\ op.value \in Values \union {None}
              \/ op.kind = "address" /\ op.object \in Interfaces /\ op.value \in Values \union {None}
              \/ op.kind = "process" /\ op.object \in Pids /\ op.value \in Values \union {None}
              \/ /\ op.kind = "membership" /\ op.object \in Interfaces
                 /\ op.value \in Memberships \union {None} /\ op.network \in Values \union {None}
  BY IosAssumption DEF AllOps

LEMMA LineType ==
    ASSUME NEW o, NEW a, <<o, a>> \in Settings,
           NEW from \in Contents \union {Whatever}, NEW to \in Contents
    PROVE  /\ Line(o, a, from, to) \in Lines
           /\ Line(o, a, from, to).setting = <<o, a>>
           /\ Line(o, a, from, to).from = from /\ Line(o, a, from, to).to = to
  BY DEF Line, Lines

LEMMA BatchLineType ==
    ASSUME NEW o, NEW a, <<o, a>> \in Settings
    PROVE  /\ Creates(o, a) \in Seq(Lines)
           /\ \A v \in Contents : Sets(o, a, v) \in Seq(Lines)
  <1>1. None \in Contents /\ Default \in Contents BY DEF Contents
  <1>2. Line(o, a, None, Default) \in Lines BY <1>1, LineType
  <1>3. \A v \in Contents : Line(o, a, Whatever, v) \in Lines BY LineType
  <1>  QED BY <1>2, <1>3 DEF Creates, Sets

\* A line leads from configurations to configurations.
LEMMA EffectType ==
    ASSUME NEW config \in [Settings -> Contents], NEW line \in Lines
    PROVE  Effect(config, line) \in [Settings -> Contents]
  <1>1. None \in Contents /\ line.to \in Contents BY DEF Contents, Lines
  <1>  QED BY <1>1 DEF Effect

LEMMA BlankType == Blank \in [Settings -> Contents]
  BY DEF Blank, Contents

LEMMA ReadingType ==
    ASSUME NEW config \in [Settings -> Contents], NEW i \in Interfaces,
           NEW a \in {"address", "shutdown", "ospf", "network"}
    PROVE  Reading(config, i, a) \subseteq Contents
  <1>1. \A j \in Selects[i] : <<j, a>> \in Settings
    BY IosAssumption, SettingFacts
  <1>  QED BY <1>1 DEF Reading, Contents

\* The two parts of a batch for an interface in a process.
Leave(op, old) ==
    IF old \notin {None, op.value} THEN <<Line(op.object, "ospf", old, None)>> ELSE <<>>

Join(op) == IF op.value # None THEN Sets(op.object, "ospf", op.value) ELSE <<>>

OfNetwork(op, network) ==
    IF op.network # None THEN Sets(op.object, "network", op.network)
    ELSE IF op.value = None /\ network # None THEN Sets(op.object, "network", None)
    ELSE <<>>

LEMMA MembershipParts ==
    ASSUME NEW op, NEW old, NEW network
    PROVE  MembershipLines(op, old, network) =
             (Leave(op, old) \o Join(op)) \o OfNetwork(op, network)
  BY DEF MembershipLines, Leave, Join, OfNetwork

LEMMA MembershipType ==
    ASSUME NEW op \in Ops, op.kind = "membership", NEW old \in Contents, NEW network \in Contents
    PROVE  /\ Leave(op, old) \in Seq(Lines) /\ Join(op) \in Seq(Lines)
           /\ OfNetwork(op, network) \in Seq(Lines)
           /\ MembershipLines(op, old, network) \in Seq(Lines)
  <1>1. /\ op.object \in Interfaces /\ op.value \in Memberships \union {None}
        /\ op.network \in Values \union {None}
    BY OpFacts
  <1>2. None \in Contents /\ op.value \in Contents /\ op.network \in Contents
    BY <1>1 DEF Contents
  <1>3. <<op.object, "ospf">> \in Settings /\ <<op.object, "network">> \in Settings
    BY <1>1, SettingFacts
  <1>4. Leave(op, old) \in Seq(Lines)
    BY <1>2, <1>3, LineType DEF Leave
  <1>5. Join(op) \in Seq(Lines)
    BY <1>2, <1>3, BatchLineType DEF Join
  <1>6. OfNetwork(op, network) \in Seq(Lines)
    BY <1>2, <1>3, BatchLineType DEF OfNetwork
  <1>  QED BY <1>4, <1>5, <1>6, MembershipParts, ConcatProperties

\* What a request may send are lines.
LEMMA BatchType ==
    ASSUME NEW config \in [Settings -> Contents], NEW op \in Ops,
           NEW lines \in Batches(op, config)
    PROVE  lines \in Seq(Lines)
  <1>0. None \in Contents /\ Default \in Contents /\ Values \subseteq Contents BY DEF Contents
  <1>1. CASE op.kind = "vlan"
    <2>1. op.object \in Vlans /\ op.value \in Contents BY <1>0, <1>1, OpFacts
    <2>2. Creates(op.object, "name") \in Seq(Lines)
      BY <1>0, <2>1, SettingFacts, BatchLineType
    <2>3. Sets(op.object, "name", op.value) \in Seq(Lines)
      BY <1>0, <2>1, SettingFacts, BatchLineType
    <2>4. lines = Named(op, "name") BY <1>1 DEF Batches
    <2>  QED BY <2>2, <2>3, <2>4, ConcatProperties DEF Named
  <1>2. CASE op.kind = "process"
    <2>1. op.object \in Pids /\ op.value \in Contents BY <1>0, <1>2, OpFacts
    <2>2. Creates(op.object, "router-id") \in Seq(Lines)
      BY <1>0, <2>1, SettingFacts, BatchLineType
    <2>3. Sets(op.object, "router-id", op.value) \in Seq(Lines)
      BY <1>0, <2>1, SettingFacts, BatchLineType
    <2>4. lines = Named(op, "router-id") BY <1>2 DEF Batches
    <2>  QED BY <2>2, <2>3, <2>4, ConcatProperties DEF Named
  <1>3. CASE op.kind = "address"
    <2>1. op.object \in Interfaces /\ op.value \in Contents BY <1>0, <1>3, OpFacts
    <2>2. Sets(op.object, "address", op.value) \in Seq(Lines)
      BY <1>0, <2>1, SettingFacts, BatchLineType
    <2>3. Sets(op.object, "shutdown", None) \in Seq(Lines)
      BY <1>0, <2>1, SettingFacts, BatchLineType
    <2>  DEFINE up == IF op.value # None THEN Sets(op.object, "shutdown", None) ELSE <<>>
    <2>4. Batches(op, config) = {Sets(op.object, "address", op.value) \o up}
      BY <1>3 DEF Batches
    <2>5. up \in Seq(Lines)
      <3>1. CASE op.value # None BY <2>3, <3>1
      <3>2. CASE op.value = None BY <3>2, EmptySeq
      <3>  QED BY <3>1, <3>2
    <2>6. lines = Sets(op.object, "address", op.value) \o up BY <2>4
    <2>  HIDE DEF up
    <2>  QED BY <2>2, <2>5, <2>6, ConcatProperties
  <1>4. CASE op.kind = "membership"
    <2>1. op.object \in Interfaces BY <1>4, OpFacts
    <2>2. PICK old \in Reading(config, op.object, "ospf"),
               network \in Reading(config, op.object, "network") :
             lines = MembershipLines(op, old, network)
      BY <1>4 DEF Batches
    <2>3. old \in Contents /\ network \in Contents BY <2>1, ReadingType
    <2>  QED BY <1>4, <2>2, <2>3, MembershipType
  <1>  QED BY <1>1, <1>2, <1>3, <1>4, OpFacts
---------------------------------------------------------------------------
(* Type correctness *)

\* A session's record after one of its fields has changed.
LEMMA ReturnType ==
    ASSUME Types, NEW c \in Clients, Return(c)
    PROVE  req' \in [Clients -> Requests] /\ \A d \in Clients : RequestOK(d)'
  <1>1. Idle \in Requests BY EmptySeq DEF Idle, Requests
  <1>2. req' = [req EXCEPT ![c] = Idle] BY DEF Return
  <1>3. req' \in [Clients -> Requests] BY <1>1, <1>2 DEF Types
  <1>4. ASSUME NEW d \in Clients PROVE RequestOK(d)'
    <2>1. CASE d = c
      <3>1. req'[d] = Idle BY <1>2, <2>1 DEF Types
      <3>  QED BY <3>1 DEF RequestOK, Working, Idle
    <2>2. CASE d # c
      <3>1. req'[d] = req[d] BY <1>2, <2>2 DEF Types
      <3>  QED BY <3>1 DEF Types, RequestOK, Working
    <2>  QED BY <2>1, <2>2
  <1>  QED BY <1>3, <1>4

\* One session's record is replaced by another that is well-formed.
LEMMA ReplaceType ==
    ASSUME Types, NEW c \in Clients, NEW r \in Requests,
           req' = [req EXCEPT ![c] = r],
           r.pc # "idle", r.op \in Ops, r.lines # <<>> => r.pc = "configure",
           r.time # "left" => r.pc # "answer"
    PROVE  req' \in [Clients -> Requests] /\ \A d \in Clients : RequestOK(d)'
  <1>1. req' \in [Clients -> Requests] BY DEF Types
  <1>2. ASSUME NEW d \in Clients PROVE RequestOK(d)'
    <2>1. CASE d = c
      <3>1. req'[d] = r BY <2>1 DEF Types
      <3>  QED BY <3>1 DEF RequestOK, Working
    <2>2. CASE d # c
      <3>1. req'[d] = req[d] BY <2>2 DEF Types
      <3>  QED BY <3>1 DEF Types, RequestOK, Working
    <2>  QED BY <2>1, <2>2
  <1>  QED BY <1>1, <1>2

LEMMA TypesInit == Init => Types
  <1>1. Idle \in Requests BY EmptySeq DEF Idle, Requests
  <1>  QED BY <1>1, BlankType DEF Init, Types, RequestOK, Idle, Working

\* The session goes on to configure, with a batch and with b for blind.
Configures(c, lines, b) ==
    req' = [req EXCEPT ![c] = [req[c] EXCEPT !.pc = "configure", !.lines = lines, !.blind = b]]

\* The batch is for what the device has, or for a section that was refused.
ShownRight(c, shown, b) ==
    \/ shown = running /\ b = req[c].blind
    \/ Refuses /\ b = (req[c].op.kind = "membership")

LEMMA SnapshotSteps ==
    ASSUME Types, NEW c \in Clients, Snapshot(c)
    PROVE  \/ Return(c)
           \/ /\ OnTime(c)
              /\ \E shown \in {running, Blank} : \E lines \in Batches(req[c].op, shown) :
                 \E b \in BOOLEAN : Configures(c, lines, b) /\ ShownRight(c, shown, b)
  <1>0. req[c] \in Requests /\ req \in [Clients -> Requests] BY DEF Types
  <1>1. ASSUME OnTime(c), NEW lines \in Batches(req[c].op, running),
               req' = [req EXCEPT ![c].pc = "configure", ![c].lines = lines]
        PROVE  Configures(c, lines, req[c].blind) /\ ShownRight(c, running, req[c].blind)
    <2>1. [req[c] EXCEPT !.pc = "configure", !.lines = lines] =
             [req[c] EXCEPT !.pc = "configure", !.lines = lines, !.blind = req[c].blind]
      BY <1>0 DEF Requests
    <2>2. req' = [req EXCEPT ![c] = [req[c] EXCEPT !.pc = "configure", !.lines = lines]]
      BY <1>0, <1>1
    <2>  QED BY <2>1, <2>2 DEF Configures, ShownRight
  <1>2. ASSUME Refuses, NEW lines \in Batches(req[c].op, Blank),
               req' = [req EXCEPT ![c].pc = "configure", ![c].lines = lines,
                                  ![c].blind = req[c].op.kind = "membership"]
        PROVE  /\ Configures(c, lines, req[c].op.kind = "membership")
               /\ ShownRight(c, Blank, req[c].op.kind = "membership")
    BY <1>0, <1>2 DEF Configures, ShownRight
  <1>3. req[c].blind \in BOOLEAN /\ (req[c].op.kind = "membership") \in BOOLEAN
    BY <1>0 DEF Requests
  <1>  QED BY <1>1, <1>2, <1>3 DEF Snapshot

LEMMA TypesNext == Types /\ [Next]_vars => Types'
  <1>  SUFFICES ASSUME Types, [Next]_vars PROVE Types'
    OBVIOUS
  <1>1. ASSUME NEW c \in Clients, Connect(c) PROVE Types'
    <2>1. PICK op \in Ops : req' = [req EXCEPT ![c] = [Idle EXCEPT !.pc = "snapshot", !.op = op]]
      BY <1>1 DEF Connect
    <2>  DEFINE r == [Idle EXCEPT !.pc = "snapshot", !.op = op]
    <2>2. Idle \in Requests /\ Idle.lines = <<>> /\ Idle.time = "left"
      BY EmptySeq DEF Idle, Requests
    <2>3. r \in Requests BY <2>2 DEF Requests
    <2>4. r.pc = "snapshot" /\ r.op = op /\ r.lines = <<>> /\ r.time = "left"
      BY <2>2 DEF Requests
    <2>  HIDE DEF r
    <2>5. req' \in [Clients -> Requests] /\ \A d \in Clients : RequestOK(d)'
      BY <2>1, <2>3, <2>4, ReplaceType DEF r
    <2>  QED BY <1>1, <2>5 DEF Connect, device, Types
  <1>2. ASSUME NEW c \in Clients, Snapshot(c) PROVE Types'
    <2>1. UNCHANGED <<running, startup>> BY <1>2 DEF Snapshot, device
    <2>2. CASE Return(c) BY <2>1, <2>2, ReturnType DEF Types
    <2>3. ASSUME OnTime(c), NEW shown \in [Settings -> Contents],
                 NEW lines \in Batches(req[c].op, shown), NEW b \in BOOLEAN,
                 Configures(c, lines, b)
          PROVE  Types'
      <3>1. req[c] \in Requests /\ req[c].pc = "snapshot" /\ req[c].time = "left"
        BY <1>2, <2>3 DEF Types, Snapshot, At, OnTime
      <3>2. req[c].op \in Ops BY <3>1 DEF Types, RequestOK
      <3>3. lines \in Seq(Lines) BY <2>3, <3>2, BatchType
      <3>  DEFINE r == [req[c] EXCEPT !.pc = "configure", !.lines = lines, !.blind = b]
      <3>4. r \in Requests /\ r.pc = "configure" /\ r.op \in Ops
        BY <3>1, <3>2, <3>3 DEF Requests
      <3>5. req' = [req EXCEPT ![c] = r] BY <2>3 DEF Configures
      <3>  HIDE DEF r
      <3>6. req' \in [Clients -> Requests] /\ \A d \in Clients : RequestOK(d)'
        BY <3>4, <3>5, ReplaceType
      <3>  QED BY <2>1, <3>6 DEF Types
    <2>4. running \in [Settings -> Contents] BY DEF Types
    <2>  QED BY <1>2, <2>2, <2>3, <2>4, SnapshotSteps, BlankType
  <1>3. ASSUME NEW c \in Clients, SendLine(c) PROVE Types'
    <2>1. /\ req[c] \in Requests /\ req[c].pc = "configure" /\ req[c].lines # <<>>
          /\ UNCHANGED startup
      BY <1>3 DEF Types, SendLine, At
    <2>2. Head(req[c].lines) \in Lines /\ Tail(req[c].lines) \in Seq(Lines)
      BY <2>1, HeadTailProperties DEF Requests
    <2>3. running' \in [Settings -> Contents]
      BY <1>3, <2>2, EffectType DEF SendLine, Types
    <2>4. CASE Return(c) BY <2>1, <2>3, <2>4, ReturnType DEF Types
    <2>5. CASE req' = [req EXCEPT ![c].lines = Tail(@)]
      <3>  DEFINE r == [req[c] EXCEPT !.lines = Tail(@)]
      <3>1. req[c].op \in Ops BY <2>1 DEF Types, RequestOK
      <3>2. r \in Requests /\ r.pc = "configure" /\ r.op \in Ops
        BY <2>1, <2>2, <3>1 DEF Requests
      <3>3. req' = [req EXCEPT ![c] = r] BY <2>5 DEF Types
      <3>  HIDE DEF r
      <3>4. req' \in [Clients -> Requests] /\ \A d \in Clients : RequestOK(d)'
        BY <3>2, <3>3, ReplaceType
      <3>  QED BY <2>1, <2>3, <3>4 DEF Types
    <2>6. CASE req' = [req EXCEPT ![c].lines = Tail(@), ![c].missed = TRUE]
      <3>  DEFINE r == [req[c] EXCEPT !.lines = Tail(@), !.missed = TRUE]
      <3>1. req[c].op \in Ops BY <2>1 DEF Types, RequestOK
      <3>2. r \in Requests /\ r.pc = "configure" /\ r.op \in Ops
        BY <2>1, <2>2, <3>1 DEF Requests
      <3>3. req' = [req EXCEPT ![c] = r] BY <2>6 DEF Types
      <3>  HIDE DEF r
      <3>4. req' \in [Clients -> Requests] /\ \A d \in Clients : RequestOK(d)'
        BY <3>2, <3>3, ReplaceType
      <3>  QED BY <2>1, <2>3, <3>4 DEF Types
    <2>  QED BY <1>3, <2>4, <2>5, <2>6 DEF SendLine
  <1>4. ASSUME NEW c \in Clients, Save(c) PROVE Types'
    <2>1. /\ running' \in [Settings -> Contents] /\ startup' \in [Settings -> Contents]
      BY <1>4 DEF Save, Types
    <2>2. CASE Return(c) BY <2>1, <2>2, ReturnType DEF Types
    <2>3. CASE OnTime(c) /\ req' = [req EXCEPT ![c].pc = "verify"]
      <3>1. req[c] \in Requests /\ req[c].pc = "configure" /\ req[c].lines = <<>>
        BY <1>4 DEF Types, Save, At
      <3>2. req[c].op \in Ops BY <3>1 DEF Types, RequestOK
      <3>  DEFINE r == [req[c] EXCEPT !.pc = "verify"]
      <3>3. r \in Requests /\ r.pc = "verify" /\ r.op \in Ops /\ r.lines = <<>>
        BY <3>1, <3>2 DEF Requests
      <3>4. req' = [req EXCEPT ![c] = r] BY <2>3 DEF Types
      <3>  HIDE DEF r
      <3>5. req' \in [Clients -> Requests] /\ \A d \in Clients : RequestOK(d)'
        BY <3>3, <3>4, ReplaceType
      <3>  QED BY <2>1, <3>5 DEF Types
    <2>4. CASE req' = [req EXCEPT ![c].pc = "verify", ![c].missed = TRUE]
      <3>1. req[c] \in Requests /\ req[c].pc = "configure" /\ req[c].lines = <<>>
        BY <1>4 DEF Types, Save, At
      <3>2. req[c].op \in Ops BY <3>1 DEF Types, RequestOK
      <3>  DEFINE r == [req[c] EXCEPT !.pc = "verify", !.missed = TRUE]
      <3>3. r \in Requests /\ r.pc = "verify" /\ r.op \in Ops /\ r.lines = <<>>
        BY <3>1, <3>2 DEF Requests
      <3>4. req' = [req EXCEPT ![c] = r] BY <2>4 DEF Types
      <3>  HIDE DEF r
      <3>5. req' \in [Clients -> Requests] /\ \A d \in Clients : RequestOK(d)'
        BY <3>3, <3>4, ReplaceType
      <3>  QED BY <2>1, <3>5 DEF Types
    <2>  QED BY <1>4, <2>2, <2>3, <2>4 DEF Save
  <1>5. ASSUME NEW c \in Clients, Verify(c) PROVE Types'
    <2>1. UNCHANGED <<running, startup>> BY <1>5 DEF Verify, device
    <2>2. CASE Return(c) BY <2>1, <2>2, ReturnType DEF Types
    <2>3. CASE OnTime(c) /\ req' = [req EXCEPT ![c].pc = "answer"]
      <3>1. req[c] \in Requests /\ req[c].pc = "verify" /\ req[c].time = "left"
        BY <1>5, <2>3 DEF Types, Verify, At, OnTime
      <3>2. req[c].op \in Ops /\ req[c].lines = <<>> BY <3>1 DEF Types, RequestOK
      <3>  DEFINE r == [req[c] EXCEPT !.pc = "answer"]
      <3>3. /\ r \in Requests /\ r.pc = "answer" /\ r.op \in Ops /\ r.lines = <<>>
            /\ r.time = "left"
        BY <3>1, <3>2 DEF Requests
      <3>4. req' = [req EXCEPT ![c] = r] BY <2>3 DEF Types
      <3>  HIDE DEF r
      <3>5. req' \in [Clients -> Requests] /\ \A d \in Clients : RequestOK(d)'
        BY <3>3, <3>4, ReplaceType
      <3>  QED BY <2>1, <3>5 DEF Types
    <2>  QED BY <1>5, <2>2, <2>3 DEF Verify
  <1>6. ASSUME NEW c \in Clients, Answer(c) PROVE Types'
    BY <1>6, ReturnType DEF Answer, device, Types
  <1>7. ASSUME NEW c \in Clients, NEW t \in {"late", "stuck"},
               Working(c), req' = [req EXCEPT ![c].time = t], UNCHANGED device
        PROVE  Types'
    <2>1. /\ req[c] \in Requests /\ req[c].pc \notin {"idle", "answer"}
          /\ req[c].op \in Ops
          /\ req[c].lines # <<>> => req[c].pc = "configure"
      BY <1>7 DEF Types, RequestOK, Working
    <2>  DEFINE r == [req[c] EXCEPT !.time = t]
    <2>2. /\ r \in Requests /\ r.pc = req[c].pc /\ r.op = req[c].op /\ r.lines = req[c].lines
      BY <2>1 DEF Requests
    <2>3. req' = [req EXCEPT ![c] = r] BY <1>7 DEF Types
    <2>  HIDE DEF r
    <2>4. req' \in [Clients -> Requests] /\ \A d \in Clients : RequestOK(d)'
      BY <2>1, <2>2, <2>3, ReplaceType
    <2>  QED BY <1>7, <2>4 DEF Types, device
  <1>8. ASSUME NEW c \in Clients, Expire(c) \/ ExpireInRead(c) \/ Wake(c) PROVE Types'
    <2>1. Working(c) BY <1>8 DEF Expire, ExpireInRead, Wake, Types, RequestOK
    <2>  QED BY <1>7, <1>8, <2>1 DEF Expire, ExpireInRead, Wake
  <1>9. ASSUME Reload PROVE Types'
    <2>1. running' = startup /\ startup' = startup BY <1>9 DEF Reload
    <2>2. req' = [c \in Clients |-> IF Working(c) THEN Idle ELSE req[c]] BY <1>9 DEF Reload
    <2>3. Idle \in Requests BY EmptySeq DEF Idle, Requests
    <2>4. req' \in [Clients -> Requests] BY <2>2, <2>3 DEF Types
    <2>5. ASSUME NEW c \in Clients PROVE RequestOK(c)'
      <3>1. CASE Working(c)
        <4>1. req'[c] = Idle BY <2>2, <3>1
        <4>  QED BY <4>1 DEF RequestOK, Idle
      <3>2. CASE ~Working(c)
        <4>1. req'[c] = req[c] BY <2>2, <3>2
        <4>  QED BY <4>1 DEF Types, RequestOK, Working
      <3>  QED BY <3>1, <3>2
    <2>  QED BY <2>1, <2>4, <2>5 DEF Types
  <1>10. CASE UNCHANGED vars BY <1>10 DEF vars, Types, RequestOK, Working
  <1>  QED BY <1>1, <1>2, <1>3, <1>4, <1>5, <1>6, <1>8, <1>9, <1>10 DEF Next, Step

\* Configurations hold settings only, and a session that sends lines belongs to
\* a request: in every state, whatever the sessions and the device do.
THEOREM TypeCorrect == Spec => []TypeOK
  <1>1. Types => TypeOK
    BY DEF Types, TypeOK, RequestOK, Requests, OnTime
  <1>  QED BY <1>1, TypesInit, TypesNext, PTL DEF Spec
---------------------------------------------------------------------------
(* Where lines lead *)

\* The settings a request wants, and how it wants them.
Wanted(op) ==
    CASE op.kind = "vlan"    -> {<<"name", op.value>>}
      [] op.kind = "process" -> {<<"router-id", op.value>>}
      [] op.kind = "address" ->
            {<<"address", op.value>>} \union (IF op.value # None THEN {<<"shutdown", None>>} ELSE {})
      [] op.kind = "membership" ->
            {<<"ospf", op.value>>} \union
            (IF op.network # None \/ op.value = None THEN {<<"network", op.network>>} ELSE {})

Attributes(op) ==
    CASE op.kind = "vlan"    -> {"name"}
      [] op.kind = "process" -> {"router-id"}
      [] op.kind = "address" -> {"address", "shutdown"}
      [] op.kind = "membership" -> {"ospf", "network"}

\* A line a request may send.
OwnLine(op, line) ==
    /\ \E a \in Attributes(op) : line.setting = <<op.object, a>>
    /\ line.setting[2] = "ospf" =>
          line.to = None \/ (line.from = Whatever /\ line.to = op.value)
    /\ line.setting[2] = "router-id" =>
          IF op.value = None THEN line.from = Whatever /\ line.to = None ELSE line.to # None

Untouched(lines, s) == \A n \in DOMAIN lines : lines[n].setting # s

\* Once the lines are sent the setting has the value: it has it now and no line
\* is about it, or the last line about it brings it there from wherever it is, or
\* the only one does from where it still may be.
Leads(config, lines, s, v) ==
    \/ config[s] = v /\ Untouched(lines, s)
    \/ \E n \in DOMAIN lines :
          /\ lines[n].setting = s /\ lines[n].to = v
          /\ \A m \in DOMAIN lines : m > n => lines[m].setting # s
          /\ \/ lines[n].from = Whatever
             \/ /\ config[s] \in {v, lines[n].from}
                /\ \A m \in DOMAIN lines : m < n => lines[m].setting # s

\* The lines lead to what the request asked for.
Obtains(op, config, lines) ==
    /\ \A w \in Wanted(op) : Leads(config, lines, <<op.object, w[1]>>, w[2])
    /\ op.kind = "process" /\ op.value = None /\ lines = <<>> =>
          \A i \in Interfaces : ~InProcess(config[<<i, "ospf">>], op.object)

\* What a line does to one setting: its own, one it takes along, or none.
LEMMA EffectOn ==
    ASSUME NEW config \in [Settings -> Contents], NEW line \in Lines, NEW s \in Settings
    PROVE  LET after == Effect(config, line)[s] IN
             /\ s = line.setting =>
                   after = IF line.from \in {Whatever, config[s]} THEN line.to ELSE config[s]
             /\ s # line.setting =>
                   \/ after = config[s]
                   \/ /\ line.setting[2] = "router-id" /\ line.to = None /\ s[2] = "ospf"
                      /\ InProcess(config[s], line.setting[1]) /\ after = None
  BY DEF Effect

\* Sending the first line leads on.
LEMMA LeadsOn ==
    ASSUME NEW lines \in Seq(Lines), lines # <<>>, NEW config, NEW after, NEW s, NEW v,
           Leads(config, lines, s, v),
           IF Head(lines).setting = s
              THEN after[s] = IF Head(lines).from \in {Whatever, config[s]}
                              THEN Head(lines).to ELSE config[s]
              ELSE after[s] = config[s]
    PROVE  Leads(after, Tail(lines), s, v)
  <1>1. /\ Len(lines) \in Nat /\ Len(lines) > 0 /\ DOMAIN lines = 1..Len(lines)
        /\ DOMAIN Tail(lines) = 1..(Len(lines) - 1) /\ Head(lines) = lines[1]
        /\ \A n \in DOMAIN Tail(lines) : Tail(lines)[n] = lines[n + 1]
    OBVIOUS
  <1>2. CASE config[s] = v /\ Untouched(lines, s)
    <2>1. lines[1].setting # s BY <1>1, <1>2 DEF Untouched
    <2>2. Untouched(Tail(lines), s) BY <1>1, <1>2 DEF Untouched
    <2>  QED BY <1>1, <1>2, <2>1, <2>2 DEF Leads
  <1>3. ASSUME NEW n \in DOMAIN lines,
               lines[n].setting = s, lines[n].to = v,
               \A m \in DOMAIN lines : m > n => lines[m].setting # s,
               \/ lines[n].from = Whatever
               \/ /\ config[s] \in {v, lines[n].from}
                  /\ \A m \in DOMAIN lines : m < n => lines[m].setting # s
        PROVE  Leads(after, Tail(lines), s, v)
    <2>1. CASE n = 1
      <3>1. Untouched(Tail(lines), s) BY <1>1, <1>3, <2>1 DEF Untouched
      <3>2. after[s] = v BY <1>1, <1>3, <2>1
      <3>  QED BY <3>1, <3>2 DEF Leads
    <2>2. CASE n # 1
      <3>1. n - 1 \in DOMAIN Tail(lines) /\ Tail(lines)[n - 1] = lines[n]
        BY <1>1, <2>2
      <3>2. \A m \in DOMAIN Tail(lines) : m > n - 1 => Tail(lines)[m].setting # s
        BY <1>1, <1>3
      <3>3. \/ lines[n].from = Whatever
            \/ /\ after[s] \in {v, lines[n].from}
               /\ \A m \in DOMAIN Tail(lines) : m < n - 1 => Tail(lines)[m].setting # s
        BY <1>1, <1>3, <2>2
      <3>  QED BY <1>3, <3>1, <3>2, <3>3 DEF Leads
    <2>  QED BY <2>1, <2>2
  <1>  QED BY <1>2, <1>3 DEF Leads

\* Taking an interface out of a process nobody wants it in does no harm.
LEMMA LeadsStill ==
    ASSUME NEW lines \in Seq(Lines), NEW config, NEW after, NEW s, NEW v,
           Leads(config, lines, s, v),
           \/ after[s] = config[s]
           \/ /\ after[s] = None /\ config[s] # v
              /\ \A n \in DOMAIN lines :
                    lines[n].setting = s => lines[n].to = None \/ lines[n].from = Whatever
    PROVE  Leads(after, lines, s, v)
  BY DEF Leads

---------------------------------------------------------------------------
(* Lines put together *)

LEMMA Together ==
    ASSUME NEW a \in Seq(Lines), NEW b \in Seq(Lines)
    PROVE  /\ Len(a) \in Nat /\ Len(b) \in Nat /\ DOMAIN a = 1..Len(a) /\ DOMAIN b = 1..Len(b)
           /\ DOMAIN (a \o b) = 1..(Len(a) + Len(b))
           /\ \A n \in 1..(Len(a) + Len(b)) :
                 (a \o b)[n] = IF n <= Len(a) THEN a[n] ELSE b[n - Len(a)]
  OBVIOUS

LEMMA LeadsLater ==
    ASSUME NEW a \in Seq(Lines), NEW b \in Seq(Lines), NEW config, NEW s, NEW v,
           Leads(config, b, s, v),
           Untouched(a, s)
    PROVE  Leads(config, a \o b, s, v)
  <1>1. /\ Len(a) \in Nat /\ Len(b) \in Nat /\ DOMAIN a = 1..Len(a) /\ DOMAIN b = 1..Len(b)
        /\ DOMAIN (a \o b) = 1..(Len(a) + Len(b))
        /\ \A n \in 1..(Len(a) + Len(b)) :
              (a \o b)[n] = IF n <= Len(a) THEN a[n] ELSE b[n - Len(a)]
    BY Together
  <1>2. CASE config[s] = v /\ Untouched(b, s)
    BY <1>1, <1>2 DEF Untouched, Leads
  <1>3. ASSUME NEW n \in DOMAIN b,
               b[n].setting = s, b[n].to = v,
               \A m \in DOMAIN b : m > n => b[m].setting # s,
               \/ b[n].from = Whatever
               \/ /\ config[s] \in {v, b[n].from}
                  /\ \A m \in DOMAIN b : m < n => b[m].setting # s
        PROVE  Leads(config, a \o b, s, v)
    <2>  DEFINE k == Len(a) + n
    <2>1. k \in DOMAIN (a \o b) /\ (a \o b)[k] = b[n] BY <1>1
    <2>2. \A m \in DOMAIN (a \o b) : m > k => (a \o b)[m].setting # s BY <1>1, <1>3
    <2>3. \/ b[n].from = Whatever
          \/ /\ config[s] \in {v, b[n].from}
             /\ \A m \in DOMAIN (a \o b) : m < k => (a \o b)[m].setting # s
      BY <1>1, <1>3 DEF Untouched
    <2>  HIDE DEF k
    <2>  QED BY <1>3, <2>1, <2>2, <2>3 DEF Leads
  <1>  QED BY <1>2, <1>3 DEF Leads

LEMMA LeadsBefore ==
    ASSUME NEW a \in Seq(Lines), NEW b \in Seq(Lines), NEW config, NEW s, NEW v,
           Leads(config, a, s, v),
           Untouched(b, s)
    PROVE  Leads(config, a \o b, s, v)
  <1>1. /\ Len(a) \in Nat /\ Len(b) \in Nat /\ DOMAIN a = 1..Len(a) /\ DOMAIN b = 1..Len(b)
        /\ DOMAIN (a \o b) = 1..(Len(a) + Len(b))
        /\ \A n \in 1..(Len(a) + Len(b)) :
              (a \o b)[n] = IF n <= Len(a) THEN a[n] ELSE b[n - Len(a)]
    BY Together
  <1>2. CASE config[s] = v /\ Untouched(a, s)
    BY <1>1, <1>2 DEF Untouched, Leads
  <1>3. ASSUME NEW n \in DOMAIN a,
               a[n].setting = s, a[n].to = v,
               \A m \in DOMAIN a : m > n => a[m].setting # s,
               \/ a[n].from = Whatever
               \/ /\ config[s] \in {v, a[n].from}
                  /\ \A m \in DOMAIN a : m < n => a[m].setting # s
        PROVE  Leads(config, a \o b, s, v)
    <2>1. n \in DOMAIN (a \o b) /\ (a \o b)[n] = a[n] BY <1>1
    <2>2. \A m \in DOMAIN (a \o b) : m > n => (a \o b)[m].setting # s
      BY <1>1, <1>3 DEF Untouched
    <2>3. \/ a[n].from = Whatever
          \/ /\ config[s] \in {v, a[n].from}
             /\ \A m \in DOMAIN (a \o b) : m < n => (a \o b)[m].setting # s
      BY <1>1, <1>3
    <2>  QED BY <1>3, <2>1, <2>2, <2>3 DEF Leads
  <1>  QED BY <1>2, <1>3 DEF Leads

\* Whatever comes before, the last line that sets it from wherever counts.
LEMMA LeadsLast ==
    ASSUME NEW a \in Seq(Lines), NEW b \in Seq(Lines), NEW config, NEW s, NEW v,
           Len(b) = 1, b[1].setting = s, b[1].from = Whatever, b[1].to = v
    PROVE  Leads(config, a \o b, s, v)
  <1>0. /\ Len(a) \in Nat /\ DOMAIN (a \o b) = 1..(Len(a) + Len(b))
        /\ \A n \in 1..(Len(a) + Len(b)) :
              (a \o b)[n] = IF n <= Len(a) THEN a[n] ELSE b[n - Len(a)]
    BY Together
  <1>1. /\ Len(a) \in Nat /\ DOMAIN (a \o b) = 1..(Len(a) + 1)
        /\ (a \o b)[Len(a) + 1] = b[1]
    BY <1>0
  <1>  DEFINE k == Len(a) + 1
  <1>2. /\ k \in DOMAIN (a \o b) /\ (a \o b)[k] = b[1]
        /\ \A m \in DOMAIN (a \o b) : m > k => (a \o b)[m].setting # s
    BY <1>1
  <1>  HIDE DEF k
  <1>  QED BY <1>2 DEF Leads

LEMMA OwnTogether ==
    ASSUME NEW a \in Seq(Lines), NEW b \in Seq(Lines), NEW op,
           \A n \in DOMAIN a : OwnLine(op, a[n]), \A n \in DOMAIN b : OwnLine(op, b[n])
    PROVE  \A n \in DOMAIN (a \o b) : OwnLine(op, (a \o b)[n])
  <1>1. /\ Len(a) \in Nat /\ Len(b) \in Nat /\ DOMAIN a = 1..Len(a) /\ DOMAIN b = 1..Len(b)
        /\ DOMAIN (a \o b) = 1..(Len(a) + Len(b))
        /\ \A n \in 1..(Len(a) + Len(b)) :
              (a \o b)[n] = IF n <= Len(a) THEN a[n] ELSE b[n - Len(a)]
    BY Together
  <1>2. \A n \in 1..(Len(a) + Len(b)) : n <= Len(a) \/ n - Len(a) \in 1..Len(b)
    BY <1>1
  <1>  QED BY <1>1, <1>2
---------------------------------------------------------------------------
(* The batches lead to what was asked for *)

LEMMA SingleLine ==
    ASSUME NEW o, NEW a, NEW v
    PROVE  /\ Len(Sets(o, a, v)) = 1 /\ DOMAIN Sets(o, a, v) = {1}
           /\ Sets(o, a, v)[1] = Line(o, a, Whatever, v)
           /\ Sets(o, a, v)[1].setting = <<o, a>>
           /\ Sets(o, a, v)[1].from = Whatever /\ Sets(o, a, v)[1].to = v
  BY DEF Sets, Line

LEMMA Creation ==
    ASSUME NEW o, NEW a
    PROVE  /\ DOMAIN Creates(o, a) = {1}
           /\ Creates(o, a)[1].setting = <<o, a>> /\ Creates(o, a)[1].to = Default
  BY DEF Creates, Line

\* A VLAN or a process: created, then named; or removed.
LEMMA NamedLeads ==
    ASSUME NEW op \in Ops, NEW a \in {"name", "router-id"}, Attributes(op) = {a},
           Wanted(op) = {<<a, op.value>>}, <<op.object, a>> \in Settings,
           op.value \in Values \union {None}, NEW config
    PROVE  /\ \A n \in DOMAIN Named(op, a) : OwnLine(op, Named(op, a)[n])
           /\ Obtains(op, config, Named(op, a))
  <1>0. None # Default /\ op.value \in Contents /\ None \in Contents
    BY IosAssumption DEF Contents
  <1>  DEFINE s == <<op.object, a>>
              first == IF op.value # None THEN Creates(op.object, a) ELSE <<>>
              last == Sets(op.object, a, op.value)
  <1>1. first \in Seq(Lines) /\ last \in Seq(Lines)
    <2>1. CASE op.value # None BY <1>0, <2>1, BatchLineType
    <2>2. CASE op.value = None BY <1>0, <2>2, BatchLineType, EmptySeq
    <2>  QED BY <2>1, <2>2
  <1>2. Named(op, a) = first \o last BY DEF Named
  <1>3. \A n \in DOMAIN last : OwnLine(op, last[n])
    <2>1. s[2] = a /\ a # "ospf" OBVIOUS
    <2>  QED BY <2>1, SingleLine DEF OwnLine
  <1>4. \A n \in DOMAIN first : OwnLine(op, first[n])
    <2>1. s[2] = a /\ a # "ospf" OBVIOUS
    <2>2. CASE op.value # None
      <3>1. first = Creates(op.object, a) BY <2>2
      <3>2. /\ DOMAIN first = {1} /\ first[1].setting = <<op.object, a>>
            /\ first[1].to = Default
        BY <3>1, Creation
      <3>3. first[1].setting[2] # "ospf" BY <3>2
      <3>4. a \in Attributes(op) /\ first[1].to # None BY <1>0, <3>2
      <3>  HIDE DEF first
      <3>  QED BY <2>2, <3>2, <3>3, <3>4 DEF OwnLine
    <2>3. CASE op.value = None
      <3>1. first = <<>> /\ DOMAIN first = {} BY <2>3
      <3>  QED BY <3>1
    <2>  QED BY <2>2, <2>3
  <1>5. Leads(config, first \o last, s, op.value)
    <2>1. Len(last) = 1 /\ last[1].setting = s /\ last[1].from = Whatever /\ last[1].to = op.value
      BY SingleLine
    <2>  HIDE DEF first, last
    <2>  QED BY <1>1, <2>1, LeadsLast
  <1>6. first \o last # <<>>
    <2>1. Len(last) = 1 BY SingleLine
    <2>  HIDE DEF first, last
    <2>2. Len(first) \in Nat /\ DOMAIN (first \o last) = 1..(Len(first) + Len(last))
      BY <1>1, Together
    <2>3. Len(first) + 1 \in DOMAIN (first \o last) BY <2>1, <2>2
    <2>4. DOMAIN <<>> = {} OBVIOUS
    <2>  QED BY <2>3, <2>4
  <1>7. \A n \in DOMAIN (first \o last) : OwnLine(op, (first \o last)[n])
    <2>  HIDE DEF first, last
    <2>  QED BY <1>1, <1>3, <1>4, OwnTogether
  <1>  HIDE DEF first, last
  <1>  QED BY <1>2, <1>5, <1>6, <1>7 DEF Obtains

LEMMA AddressLeads ==
    ASSUME NEW op \in Ops, op.kind = "address", NEW shown, NEW lines \in Batches(op, shown),
           NEW config
    PROVE  /\ \A n \in DOMAIN lines : OwnLine(op, lines[n])
           /\ Obtains(op, config, lines)
  <1>0. /\ op.object \in Interfaces /\ op.value \in Contents /\ None \in Contents
        /\ <<op.object, "address">> \in Settings /\ <<op.object, "shutdown">> \in Settings
    BY OpFacts, SettingFacts DEF Contents
  <1>  DEFINE first == Sets(op.object, "address", op.value)
              up == IF op.value # None THEN Sets(op.object, "shutdown", None) ELSE <<>>
  <1>1. Attributes(op) = {"address", "shutdown"} BY DEF Attributes
  <1>2. first \in Seq(Lines) BY <1>0, BatchLineType
  <1>3. up \in Seq(Lines)
    <2>1. CASE op.value # None BY <1>0, <2>1, BatchLineType
    <2>2. CASE op.value = None BY <2>2, EmptySeq
    <2>  QED BY <2>1, <2>2
  <1>4. lines = first \o up
    <2>1. Batches(op, shown) = {first \o up} BY DEF Batches
    <2>  QED BY <2>1
  <1>5. \A n \in DOMAIN first : OwnLine(op, first[n])
    BY <1>1, SingleLine DEF OwnLine
  <1>6. \A n \in DOMAIN up : OwnLine(op, up[n]) /\ up[n].setting = <<op.object, "shutdown">>
    <2>1. CASE op.value # None BY <1>1, <2>1, SingleLine DEF OwnLine
    <2>2. CASE op.value = None
      <3>1. DOMAIN up = {} BY <2>2
      <3>  QED BY <3>1
    <2>  QED BY <2>1, <2>2
  <1>7. Leads(config, lines, <<op.object, "address">>, op.value)
    <2>1. Leads(config, first, <<op.object, "address">>, op.value)
      BY SingleLine DEF Leads
    <2>2. Untouched(up, <<op.object, "address">>)
      BY <1>6 DEF Untouched
    <2>  HIDE DEF first, up
    <2>  QED BY <1>2, <1>3, <1>4, <2>1, <2>2, LeadsBefore
  <1>8. op.value # None => Leads(config, lines, <<op.object, "shutdown">>, None)
    <2>1. op.value # None =>
             /\ Len(up) = 1 /\ up[1].setting = <<op.object, "shutdown">>
             /\ up[1].from = Whatever /\ up[1].to = None
      BY SingleLine
    <2>  HIDE DEF first, up
    <2>  QED BY <1>2, <1>3, <1>4, <2>1, LeadsLast
  <1>9. \A n \in DOMAIN lines : OwnLine(op, lines[n])
    <2>  HIDE DEF first, up
    <2>  QED BY <1>2, <1>3, <1>4, <1>5, <1>6, OwnTogether
  <1>10. Wanted(op) = {<<"address", op.value>>}
                        \union (IF op.value # None THEN {<<"shutdown", None>>} ELSE {})
    BY DEF Wanted
  <1>  QED BY <1>7, <1>8, <1>9, <1>10 DEF Obtains

\* The interface leaves the process the reading shows, and joins the one asked for;
\* what the reading shows matters where there is none to join.
LEMMA MembershipLeads ==
    ASSUME NEW op \in Ops, op.kind = "membership", NEW config \in [Settings -> Contents],
           NEW old \in Contents, NEW network \in Contents
    PROVE  LET lines == MembershipLines(op, old, network) IN
             /\ \A n \in DOMAIN lines : OwnLine(op, lines[n])
             /\ (Clears(op) => /\ old = config[<<op.object, "ospf">>]
                               /\ network = config[<<op.object, "network">>])
                   => Obtains(op, config, lines)
  <1>  DEFINE told == Clears(op) => old = config[<<op.object, "ospf">>]
                                     /\ network = config[<<op.object, "network">>]
  <1>  DEFINE ospf == <<op.object, "ospf">>
              net == <<op.object, "network">>
              leave == Leave(op, old)
              join == Join(op)
              rest == OfNetwork(op, network)
              lines == MembershipLines(op, old, network)
  <1>0. /\ op.object \in Interfaces /\ ospf \in Settings /\ net \in Settings
        /\ told /\ op.value = None => old = config[ospf] /\ network = config[net]
    BY OpFacts, SettingFacts DEF Clears
  <1>1. leave \in Seq(Lines) /\ join \in Seq(Lines) /\ rest \in Seq(Lines)
    BY <1>0, MembershipType
  <1>2. lines = (leave \o join) \o rest BY MembershipParts
  <1>3. leave \o join \in Seq(Lines) BY <1>1, ConcatProperties
  <1>4. Attributes(op) = {"ospf", "network"} BY DEF Attributes
  <1>5. \A n \in DOMAIN leave : OwnLine(op, leave[n]) /\ leave[n].setting = ospf
    <2>1. CASE old \notin {None, op.value}
      <3>1. leave = <<Line(op.object, "ospf", old, None)>> BY <2>1 DEF Leave
      <3>2. DOMAIN leave = {1} /\ leave[1].setting = ospf /\ leave[1].to = None
        BY <3>1 DEF Line
      <3>  QED BY <1>4, <3>2 DEF OwnLine
    <2>2. CASE old \in {None, op.value}
      <3>1. DOMAIN leave = {} BY <2>2 DEF Leave
      <3>  QED BY <3>1
    <2>  QED BY <2>1, <2>2
  <1>6. \A n \in DOMAIN join : OwnLine(op, join[n]) /\ join[n].setting = ospf
    <2>1. CASE op.value # None BY <1>4, <2>1, SingleLine DEF Join, OwnLine
    <2>2. CASE op.value = None
      <3>1. DOMAIN join = {} BY <2>2 DEF Join
      <3>  QED BY <3>1
    <2>  QED BY <2>1, <2>2
  <1>7. \A n \in DOMAIN rest : OwnLine(op, rest[n]) /\ rest[n].setting = net
    <2>1. CASE op.network # None BY <1>4, <2>1, SingleLine DEF OfNetwork, OwnLine
    <2>2. CASE op.network = None /\ op.value = None /\ network # None
      BY <1>4, <2>2, SingleLine DEF OfNetwork, OwnLine
    <2>3. CASE op.network = None /\ ~(op.value = None /\ network # None)
      <3>1. DOMAIN rest = {} BY <2>3 DEF OfNetwork
      <3>  QED BY <3>1
    <2>  QED BY <2>1, <2>2, <2>3
  <1>8. \A n \in DOMAIN lines : OwnLine(op, lines[n])
    <2>  HIDE DEF leave, join, rest, lines
    <2>1. \A n \in DOMAIN (leave \o join) : OwnLine(op, (leave \o join)[n])
      BY <1>1, <1>5, <1>6, OwnTogether
    <2>  QED BY <1>1, <1>2, <1>3, <1>7, <2>1, OwnTogether
  <1>9. ASSUME told PROVE Leads(config, lines, ospf, op.value)
    <2>1. Untouched(rest, ospf) BY <1>7 DEF Untouched
    <2>2. Leads(config, leave \o join, ospf, op.value)
      <3>1. CASE op.value # None
        <4>1. /\ Len(join) = 1 /\ join[1].setting = ospf
              /\ join[1].from = Whatever /\ join[1].to = op.value
          BY <3>1, SingleLine DEF Join
        <4>  HIDE DEF leave, join
        <4>  QED BY <1>1, <4>1, LeadsLast
      <3>2. CASE op.value = None
        <4>1. Leads(config, leave, ospf, op.value)
          <5>1. CASE old = None
            <6>1. DOMAIN leave = {} BY <5>1 DEF Leave
            <6>  QED BY <1>0, <1>9, <3>2, <5>1, <6>1 DEF Leads, Untouched
          <5>2. CASE old # None
            <6>1. leave = <<Line(op.object, "ospf", old, None)>>
              BY <3>2, <5>2 DEF Leave
            <6>2. /\ DOMAIN leave = {1} /\ leave[1].setting = ospf /\ leave[1].to = None
                  /\ leave[1].from = config[ospf]
              BY <1>0, <1>9, <3>2, <6>1 DEF Line
            <6>  QED BY <3>2, <6>2 DEF Leads
          <5>  QED BY <5>1, <5>2
        <4>2. Untouched(join, ospf)
          <5>1. DOMAIN join = {} BY <3>2 DEF Join
          <5>  QED BY <5>1 DEF Untouched
        <4>  HIDE DEF leave, join
        <4>  QED BY <1>1, <4>1, <4>2, LeadsBefore
      <3>  QED BY <3>1, <3>2
    <2>  HIDE DEF leave, join, rest, lines
    <2>  QED BY <1>1, <1>2, <1>3, <2>1, <2>2, LeadsBefore
  <1>10. ASSUME told, op.network # None \/ op.value = None
         PROVE  Leads(config, lines, net, op.network)
    <2>1. Untouched(leave \o join, net)
      <3>1. ospf # net OBVIOUS
      <3>2. \A n \in DOMAIN leave : leave[n].setting # net BY <1>5, <3>1
      <3>3. \A n \in DOMAIN join : join[n].setting # net BY <1>6, <3>1
      <3>  HIDE DEF leave, join, net, ospf
      <3>4. /\ Len(leave) \in Nat /\ Len(join) \in Nat
            /\ DOMAIN leave = 1..Len(leave) /\ DOMAIN join = 1..Len(join)
            /\ DOMAIN (leave \o join) = 1..(Len(leave) + Len(join))
            /\ \A n \in 1..(Len(leave) + Len(join)) :
                  (leave \o join)[n] = IF n <= Len(leave) THEN leave[n] ELSE join[n - Len(leave)]
        BY <1>1, Together
      <3>  QED BY <3>2, <3>3, <3>4 DEF Untouched
    <2>2. CASE op.network # None \/ (op.value = None /\ network # None)
      <3>1. /\ Len(rest) = 1 /\ rest[1].setting = net
            /\ rest[1].from = Whatever /\ rest[1].to = op.network
        BY <2>2, SingleLine DEF OfNetwork
      <3>  HIDE DEF leave, join, rest, lines
      <3>  QED BY <1>1, <1>2, <1>3, <3>1, LeadsLast
    <2>3. CASE op.network = None /\ op.value = None /\ network = None
      <3>1. DOMAIN rest = {} BY <2>3 DEF OfNetwork
      <3>2. Leads(config, rest, net, op.network)
        BY <1>0, <1>10, <2>3, <3>1 DEF Leads, Untouched
      <3>  HIDE DEF leave, join, rest, lines
      <3>  QED BY <1>1, <1>2, <1>3, <2>1, <3>2, LeadsLater
    <2>  QED BY <1>10, <2>2, <2>3
  <1>11. Wanted(op) = {<<"ospf", op.value>>} \union
            (IF op.network # None \/ op.value = None THEN {<<"network", op.network>>} ELSE {})
    BY DEF Wanted
  <1>12. ASSUME told PROVE Obtains(op, config, lines)
    BY <1>9, <1>10, <1>11, <1>12 DEF Obtains
  <1>  QED BY <1>8, <1>12

ExactFilters == \A i \in Interfaces : Selects[i] = {i}

\* Where a filter prints the interface it names, the reading is what is there.
LEMMA ReadingIsThere ==
    ASSUME ExactFilters, NEW config, NEW i \in Interfaces, NEW a
    PROVE  Reading(config, i, a) = {config[<<i, a>>]}
  <1>  DEFINE shown == {config[<<j, a>>] : j \in Selects[i]} \ {None}
  <1>0. Selects[i] = {i} BY DEF ExactFilters
  <1>1. shown = {config[<<i, a>>]} \ {None} BY <1>0
  <1>2. Reading(config, i, a) = IF shown = {} THEN {None} ELSE shown BY DEF Reading
  <1>  HIDE DEF shown
  <1>3. CASE config[<<i, a>>] = None
    <2>1. shown = {} BY <1>1, <1>3
    <2>  QED BY <1>2, <1>3, <2>1
  <1>4. CASE config[<<i, a>>] # None
    <2>1. shown = {config[<<i, a>>]} BY <1>1, <1>4
    <2>  QED BY <1>2, <2>1
  <1>  QED BY <1>3, <1>4

LEMMA BatchLeads ==
    ASSUME ExactFilters, running \in [Settings -> Contents],
           NEW op \in Ops, NEW shown \in [Settings -> Contents],
           NEW lines \in Batches(op, shown)
    PROVE  /\ \A n \in DOMAIN lines : OwnLine(op, lines[n])
           /\ shown = running \/ ~Clears(op) => Obtains(op, running, lines)
  <1>1. CASE op.kind = "vlan"
    <2>1. lines = Named(op, "name") /\ Attributes(op) = {"name"} /\ Wanted(op) = {<<"name", op.value>>}
      BY <1>1 DEF Batches, Attributes, Wanted
    <2>  QED BY <1>1, <2>1, OpFacts, SettingFacts, NamedLeads
  <1>2. CASE op.kind = "process"
    <2>1. /\ lines = Named(op, "router-id") /\ Attributes(op) = {"router-id"}
          /\ Wanted(op) = {<<"router-id", op.value>>}
      BY <1>2 DEF Batches, Attributes, Wanted
    <2>  QED BY <1>2, <2>1, OpFacts, SettingFacts, NamedLeads
  <1>3. CASE op.kind = "address" BY <1>3, AddressLeads
  <1>4. CASE op.kind = "membership"
    <2>1. op.object \in Interfaces BY <1>4, OpFacts
    <2>2. lines = MembershipLines(op, shown[<<op.object, "ospf">>],
                                  shown[<<op.object, "network">>])
      BY <1>4, <2>1, ReadingIsThere DEF Batches
    <2>3. shown[<<op.object, "ospf">>] \in Contents /\ shown[<<op.object, "network">>] \in Contents
      BY <2>1, SettingFacts
    <2>  QED BY <1>4, <2>2, <2>3, MembershipLeads
  <1>  QED BY <1>1, <1>2, <1>3, <1>4, OpFacts
---------------------------------------------------------------------------
(* The steps of a request, and those of another *)

\* What a request wants is among the settings it may touch.
LEMMA WantedFacts ==
    ASSUME NEW op \in Ops, NEW w \in Wanted(op)
    PROVE  /\ w[1] \in Attributes(op) /\ <<op.object, w[1]>> \in Settings
           /\ w[1] = "ospf" => op.kind = "membership" /\ w[2] = op.value
           /\ w[1] = "router-id" => op.kind = "process"
  <1>1. CASE op.kind = "vlan"
    BY <1>1, OpFacts, SettingFacts DEF Wanted, Attributes
  <1>2. CASE op.kind = "process"
    BY <1>2, OpFacts, SettingFacts DEF Wanted, Attributes
  <1>3. CASE op.kind = "address"
    <2>1. w[1] \in {"address", "shutdown"} BY <1>3 DEF Wanted
    <2>  QED BY <1>3, <2>1, OpFacts, SettingFacts DEF Attributes
  <1>4. CASE op.kind = "membership"
    <2>1. \/ w[1] = "ospf" /\ w[2] = op.value
          \/ w[1] = "network"
      BY <1>4 DEF Wanted
    <2>2. Attributes(op) = {"ospf", "network"} /\ op.object \in Interfaces
      BY <1>4, OpFacts DEF Attributes
    <2>  QED BY <1>4, <2>1, <2>2, SettingFacts
  <1>  QED BY <1>1, <1>2, <1>3, <1>4, OpFacts

\* The attributes of different kinds of request are different.
LEMMA AttributeFacts ==
    ASSUME NEW op \in Ops, NEW a \in Attributes(op)
    PROVE  /\ a \in {"name", "router-id", "address", "shutdown", "ospf", "network"}
           /\ op.kind = "vlan" <=> a = "name"
           /\ op.kind = "process" <=> a = "router-id"
           /\ op.kind = "address" <=> a \in {"address", "shutdown"}
           /\ op.kind = "membership" <=> a \in {"ospf", "network"}
  <1>1. CASE op.kind = "vlan" BY <1>1 DEF Attributes
  <1>2. CASE op.kind = "process" BY <1>2 DEF Attributes
  <1>3. CASE op.kind = "address" BY <1>3 DEF Attributes
  <1>4. CASE op.kind = "membership" BY <1>4 DEF Attributes
  <1>  QED BY <1>1, <1>2, <1>3, <1>4, OpFacts

\* A line of a request's own belongs to its kind and is about its object.
LEMMA OwnLineFacts ==
    ASSUME NEW op \in Ops, NEW line \in Lines, OwnLine(op, line)
    PROVE  /\ line.setting[1] = op.object /\ line.setting[2] \in Attributes(op)
           /\ line.setting = <<op.object, line.setting[2]>>
           /\ line.setting[2] = "ospf" <=> op.kind = "membership" /\ line.setting[2] # "network"
           /\ line.setting[2] = "router-id" <=> op.kind = "process"
  <1>1. PICK a \in Attributes(op) : line.setting = <<op.object, a>> BY DEF OwnLine
  <1>2. line.setting[1] = op.object /\ line.setting[2] = a BY <1>1
  <1>  QED BY <1>1, <1>2, AttributeFacts

LEMMA NotInNone ==
    ASSUME NEW p \in Pids
    PROVE  ~InProcess(None, p)
  BY IosAssumption DEF InProcess, Memberships

\* A request that sends a line comes nearer to what it wants.
LEMMA OwnStep ==
    ASSUME NEW op \in Ops, NEW lines \in Seq(Lines), lines # <<>>,
           \A n \in DOMAIN lines : OwnLine(op, lines[n]),
           NEW config \in [Settings -> Contents],
           Obtains(op, config, lines)
    PROVE  Obtains(op, Effect(config, Head(lines)), Tail(lines))
  <1>  DEFINE line == Head(lines)
              after == Effect(config, line)
  <1>1. line \in Lines /\ OwnLine(op, line)
    <2>1. 1 \in DOMAIN lines /\ line = lines[1] OBVIOUS
    <2>  QED BY <2>1
  <1>2. ASSUME NEW w \in Wanted(op)
        PROVE  Leads(after, Tail(lines), <<op.object, w[1]>>, w[2])
    <2>  DEFINE s == <<op.object, w[1]>>
    <2>1. s \in Settings /\ w[1] \in Attributes(op) BY WantedFacts
    <2>2. IF line.setting = s
             THEN after[s] = IF line.from \in {Whatever, config[s]} THEN line.to ELSE config[s]
             ELSE after[s] = config[s]
      <3>1. s[2] = "ospf" => line.setting[2] # "router-id"
        <4>1. s[2] = w[1] OBVIOUS
        <4>  QED BY <1>1, <2>1, <4>1, AttributeFacts, OwnLineFacts
      <3>  HIDE DEF s, line
      <3>  QED BY <1>1, <2>1, <3>1, EffectOn
    <2>3. Leads(config, lines, s, w[2]) BY DEF Obtains
    <2>4. Leads(after, Tail(lines), s, w[2])
      <3>  HIDE DEF s, after
      <3>  QED BY <2>2, <2>3, LeadsOn
    <2>  QED BY <2>4
  <1>3. ASSUME op.kind = "process", op.value = None, Tail(lines) = <<>>, NEW i \in Interfaces
        PROVE  ~InProcess(after[<<i, "ospf">>], op.object)
    <2>1. op.object \in Pids /\ <<i, "ospf">> \in Settings BY <1>3, OpFacts, SettingFacts
    <2>2. line.setting = <<op.object, "router-id">> /\ line.from = Whatever /\ line.to = None
      <3>1. line.setting[2] = "router-id" BY <1>1, <1>3, OwnLineFacts
      <3>2. line.setting = <<op.object, "router-id">> BY <1>1, <3>1, OwnLineFacts
      <3>  QED BY <1>1, <1>3, <3>1, <3>2 DEF OwnLine
    <2>3. <<i, "ospf">> # line.setting /\ line.setting[1] = op.object /\ line.setting[2] = "router-id"
      BY <2>2
    <2>4. after[<<i, "ospf">>] =
             IF InProcess(config[<<i, "ospf">>], op.object) THEN None ELSE config[<<i, "ospf">>]
      BY <2>1, <2>2, <2>3 DEF Effect
    <2>  HIDE DEF after
    <2>  QED BY <2>1, <2>4, NotInNone
  <1>  QED BY <1>2, <1>3 DEF Obtains

\* A line of another request, which the discipline lets run at the same time,
\* takes nothing away.
LEMMA OtherStep ==
    ASSUME NEW op \in Ops, NEW other \in Ops, ~Conflict(op, other), ~Conflict(other, op),
           NEW lines \in Seq(Lines), \A n \in DOMAIN lines : OwnLine(op, lines[n]),
           NEW line \in Lines, OwnLine(other, line),
           NEW config \in [Settings -> Contents],
           Obtains(op, config, lines)
    PROVE  Obtains(op, Effect(config, line), lines)
  <1>  DEFINE after == Effect(config, line)
  <1>1. ASSUME NEW w \in Wanted(op)
        PROVE  Leads(after, lines, <<op.object, w[1]>>, w[2])
    <2>  DEFINE s == <<op.object, w[1]>>
    <2>0. s \in Settings /\ w[1] \in Attributes(op) /\ s[1] = op.object /\ s[2] = w[1]
      BY WantedFacts
    <2>1. Leads(config, lines, s, w[2]) BY DEF Obtains
    <2>2. s # line.setting
      <3>  SUFFICES ASSUME s = line.setting PROVE FALSE
        OBVIOUS
      <3>1. op.object = other.object /\ w[1] \in Attributes(other)
        BY <2>0, OwnLineFacts
      <3>2. op.kind = other.kind BY <2>0, <3>1, AttributeFacts, OpFacts
      <3>  QED BY <3>1, <3>2 DEF Conflict
    <2>3. CASE after[s] = config[s]
      <3>1. Leads(after, lines, s, w[2])
        <4>  HIDE DEF s, after
        <4>  QED BY <2>1, <2>3, LeadsStill
      <3>  QED BY <3>1
    <2>4. CASE /\ line.setting[2] = "router-id" /\ line.to = None /\ s[2] = "ospf"
               /\ InProcess(config[s], line.setting[1]) /\ after[s] = None
      <3>1. op.kind = "membership" /\ w[2] = op.value BY <2>0, <2>4, WantedFacts
      <3>2. other.kind = "process" /\ other.value = None /\ line.setting[1] = other.object
        BY <2>4, OwnLineFacts DEF OwnLine
      <3>3. config[s] # w[2] BY <2>4, <3>1, <3>2 DEF Conflict
      <3>4. \A n \in DOMAIN lines :
               lines[n].setting = s => lines[n].to = None \/ lines[n].from = Whatever
        BY <2>4 DEF OwnLine
      <3>5. Leads(after, lines, s, w[2])
        <4>  HIDE DEF s, after
        <4>  QED BY <2>1, <2>4, <3>3, <3>4, LeadsStill
      <3>  QED BY <3>5
    <2>  HIDE DEF s
    <2>  QED BY <2>0, <2>2, <2>3, <2>4, EffectOn
  <1>2. ASSUME op.kind = "process", op.value = None, lines = <<>>, NEW i \in Interfaces
        PROVE  ~InProcess(after[<<i, "ospf">>], op.object)
    <2>  DEFINE s == <<i, "ospf">>
    <2>0. op.object \in Pids /\ s \in Settings /\ s[2] = "ospf" BY <1>2, OpFacts, SettingFacts
    <2>1. ~InProcess(config[s], op.object) BY <1>2 DEF Obtains
    <2>2. CASE s = line.setting
      <3>1. other.kind = "membership" BY <2>0, <2>2, OwnLineFacts
      <3>2. line.to = None \/ line.to = other.value BY <2>0, <2>2 DEF OwnLine
      <3>3. ~InProcess(line.to, op.object) BY <1>2, <2>0, <3>1, <3>2, NotInNone DEF Conflict
      <3>4. after[s] \in {line.to, config[s]}
        <4>  HIDE DEF s
        <4>  QED BY <2>0, <2>2, EffectOn
      <3>  QED BY <2>1, <3>3, <3>4
    <2>3. CASE s # line.setting
      <3>1. after[s] \in {None, config[s]}
        <4>  HIDE DEF s
        <4>  QED BY <2>0, <2>3, EffectOn
      <3>  QED BY <2>0, <2>1, <3>1, NotInNone
    <2>  QED BY <2>2, <2>3
  <1>  QED BY <1>1, <1>2 DEF Obtains

\* When nothing is left to be sent, the configuration is as it was asked for.
LEMMA NothingLeft ==
    ASSUME NEW op \in Ops, NEW config, Obtains(op, config, <<>>)
    PROVE  Holds(op, config)
  <1>1. \A w \in Wanted(op) : config[<<op.object, w[1]>>] = w[2]
    <2>1. DOMAIN <<>> = {} OBVIOUS
    <2>  QED BY <2>1 DEF Obtains, Leads
  <1>2. CASE op.kind = "vlan" BY <1>1, <1>2 DEF Wanted, Holds
  <1>3. CASE op.kind = "process" BY <1>1, <1>3 DEF Wanted, Holds, Obtains
  <1>4. CASE op.kind = "address"
    <2>1. <<"address", op.value>> \in Wanted(op) BY <1>4 DEF Wanted
    <2>2. op.value # None => <<"shutdown", None>> \in Wanted(op) BY <1>4 DEF Wanted
    <2>  QED BY <1>1, <1>4, <2>1, <2>2 DEF Holds
  <1>5. CASE op.kind = "membership"
    <2>1. <<"ospf", op.value>> \in Wanted(op) BY <1>5 DEF Wanted
    <2>2. op.network # None \/ op.value = None => <<"network", op.network>> \in Wanted(op)
      BY <1>5 DEF Wanted
    <2>  QED BY <1>1, <1>5, <2>1, <2>2 DEF Holds
  <1>  QED BY <1>2, <1>3, <1>4, <1>5, OpFacts
---------------------------------------------------------------------------
(* What was answered is saved *)

\* The admins' discipline holds between the requests in progress.
Apart == \A c, d \in Clients :
    c # d /\ req[c].pc # "idle" /\ req[d].pc # "idle" => ~Conflict(req[c].op, req[d].op)

Promised(c) ==
    /\ \A n \in DOMAIN req[c].lines : OwnLine(req[c].op, req[c].lines[n])
    /\ req[c].pc \in {"configure", "verify", "answer"} /\ Sure(req[c]) =>
          Obtains(req[c].op, running, req[c].lines)
    /\ req[c].pc \in {"verify", "answer"} /\ Sure(req[c]) =>
          Obtains(req[c].op, startup, <<>>)

Promise == Apart /\ \A c \in Clients : Promised(c)

\* Requests that only go on or end stay apart.
LEMMA ApartStays ==
    ASSUME Apart,
           \A d \in Clients :
              \/ req'[d].pc = "idle"
              \/ req[d].pc # "idle" /\ req'[d].op = req[d].op
    PROVE  Apart'
  BY DEF Apart

\* A request that ended promises nothing.
LEMMA IdlePromises ==
    ASSUME NEW c \in Clients, req'[c] = Idle
    PROVE  Promised(c)'
  <1>1. req'[c].lines = <<>> /\ req'[c].pc = "idle" BY DEF Idle
  <1>2. DOMAIN <<>> = {} OBVIOUS
  <1>  QED BY <1>1, <1>2 DEF Promised

\* A step of one request leaves the promises of the others.
LEMMA OthersKeep ==
    ASSUME Types, Promise, NEW c \in Clients, NEW d \in Clients, d # c,
           req'[d] = req[d],
           \/ UNCHANGED device
           \/ UNCHANGED running /\ startup' = running
           \/ /\ req[c].pc = "configure" /\ req[c].lines # <<>>
              /\ running' = Effect(running, Head(req[c].lines)) /\ UNCHANGED startup
    PROVE  Promised(d)'
  <1>0. Promised(d) /\ req[d] \in Requests BY DEF Promise, Types
  <1>1. CASE UNCHANGED device BY <1>0, <1>1 DEF Promised, device
  <1>2. CASE UNCHANGED running /\ startup' = running
    <2>1. req[d].pc \in {"verify", "answer"} => req[d].lines = <<>> BY DEF Types, RequestOK
    <2>  QED BY <1>0, <1>2, <2>1 DEF Promised
  <1>3. CASE /\ req[c].pc = "configure" /\ req[c].lines # <<>>
             /\ running' = Effect(running, Head(req[c].lines)) /\ UNCHANGED startup
    <2>1. CASE req[d].pc \in {"configure", "verify", "answer"} /\ Sure(req[d])
      <3>1. req[c].op \in Ops /\ req[d].op \in Ops BY <1>3, <2>1 DEF Types, RequestOK
      <3>2. ~Conflict(req[d].op, req[c].op) /\ ~Conflict(req[c].op, req[d].op)
        BY <1>3, <2>1 DEF Promise, Apart
      <3>3. req[c].lines \in Seq(Lines) /\ req[d].lines \in Seq(Lines)
        BY DEF Types, Requests
      <3>4. Head(req[c].lines) \in Lines /\ OwnLine(req[c].op, Head(req[c].lines))
        <4>1. 1 \in DOMAIN req[c].lines /\ Head(req[c].lines) = req[c].lines[1]
          BY <1>3, <3>3
        <4>  QED BY <3>3, <4>1 DEF Promise, Promised
      <3>5. running \in [Settings -> Contents] BY DEF Types
      <3>6. \A n \in DOMAIN req[d].lines : OwnLine(req[d].op, req[d].lines[n])
        BY <1>0 DEF Promised
      <3>7. Obtains(req[d].op, running, req[d].lines) BY <1>0, <2>1 DEF Promised
      <3>8. Obtains(req[d].op, Effect(running, Head(req[c].lines)), req[d].lines)
        BY <3>1, <3>2, <3>3, <3>4, <3>5, <3>6, <3>7, OtherStep
      <3>  QED BY <1>0, <1>3, <3>8 DEF Promised
    <2>2. CASE ~(req[d].pc \in {"configure", "verify", "answer"} /\ Sure(req[d]))
      BY <1>0, <2>2 DEF Promised
    <2>  QED BY <2>1, <2>2
  <1>  QED BY <1>1, <1>2, <1>3

\* The session's own record after a step that ends it.
LEMMA ReturnKeeps ==
    ASSUME Types, Promise, NEW c \in Clients, Return(c),
           \/ UNCHANGED device
           \/ UNCHANGED running /\ startup' = running
           \/ /\ req[c].pc = "configure" /\ req[c].lines # <<>>
              /\ running' = Effect(running, Head(req[c].lines)) /\ UNCHANGED startup
    PROVE  Promise'
  <1>1. req' = [req EXCEPT ![c] = Idle] /\ req \in [Clients -> Requests]
    BY DEF Return, Types
  <1>2. req'[c] = Idle /\ \A d \in Clients : d # c => req'[d] = req[d] BY <1>1
  <1>3. Apart' BY <1>2, ApartStays DEF Idle, Promise
  <1>4. \A d \in Clients : Promised(d)' BY <1>2, IdlePromises, OthersKeep
  <1>  QED BY <1>3, <1>4 DEF Promise

\* The session's own record after a step with which it goes on.
LEMMA GoesOn ==
    ASSUME Types, Promise, NEW c \in Clients, NEW r,
           req' = [req EXCEPT ![c] = r], req[c].pc # "idle", r.op = req[c].op,
           Promised(c)',
           \/ UNCHANGED device
           \/ UNCHANGED running /\ startup' = running
           \/ /\ req[c].pc = "configure" /\ req[c].lines # <<>>
              /\ running' = Effect(running, Head(req[c].lines)) /\ UNCHANGED startup
    PROVE  Promise'
  <1>1. req'[c] = r /\ \A d \in Clients : d # c => req'[d] = req[d] BY DEF Types
  <1>2. Apart' BY <1>1, ApartStays DEF Promise
  <1>3. \A d \in Clients : Promised(d)' BY <1>1, OthersKeep
  <1>  QED BY <1>2, <1>3 DEF Promise

LEMMA PromiseInit == Init => Promise
  <1>1. DOMAIN <<>> = {} OBVIOUS
  <1>  QED BY <1>1 DEF Init, Idle, Promise, Apart, Promised

LEMMA PromiseNext ==
    ASSUME Coordinated, ExactFilters, Types, Promise, [Next]_vars
    PROVE  Promise'
  <1>1. ASSUME NEW c \in Clients, Connect(c) PROVE Promise'
    <2>1. PICK op \in Ops :
             /\ MayRun(op)
             /\ req' = [req EXCEPT ![c] = [Idle EXCEPT !.pc = "snapshot", !.op = op]]
      BY <1>1 DEF Connect
    <2>2. UNCHANGED device BY <1>1 DEF Connect
    <2>3. /\ req'[c].pc = "snapshot" /\ req'[c].op = op /\ req'[c].lines = <<>>
          /\ \A d \in Clients : d # c => req'[d] = req[d]
      BY <2>1 DEF Types, Idle
    <2>4. ASSUME NEW d \in Clients, req[d].pc # "idle"
          PROVE  ~Conflict(op, req[d].op) /\ ~Conflict(req[d].op, op)
      <3>1. req[d].op # None BY <2>4, OpFacts DEF Types, RequestOK
      <3>  QED BY <2>1, <3>1 DEF MayRun
    <2>5. Apart' BY <2>3, <2>4 DEF Promise, Apart
    <2>6. Promised(c)'
      <3>1. DOMAIN <<>> = {} OBVIOUS
      <3>  QED BY <2>3, <3>1 DEF Promised
    <2>7. \A d \in Clients : Promised(d)' BY <2>2, <2>3, <2>6, OthersKeep
    <2>  QED BY <2>5, <2>7 DEF Promise
  <1>2. ASSUME NEW c \in Clients, Snapshot(c) PROVE Promise'
    <2>1. UNCHANGED device /\ req[c].pc = "snapshot" BY <1>2 DEF Snapshot, At
    <2>2. CASE Return(c) BY <2>1, <2>2, ReturnKeeps
    <2>3. ASSUME NEW shown \in {running, Blank}, NEW lines \in Batches(req[c].op, shown),
                 NEW b \in BOOLEAN, Configures(c, lines, b), ShownRight(c, shown, b)
          PROVE  Promise'
      <3>  DEFINE r == [req[c] EXCEPT !.pc = "configure", !.lines = lines, !.blind = b]
      <3>1. req' = [req EXCEPT ![c] = r] BY <2>3 DEF Configures
      <3>2. r.pc = "configure" /\ r.lines = lines /\ r.op = req[c].op /\ r.blind = b
        BY DEF Types, Requests
      <3>  HIDE DEF r
      <3>3. req'[c] = r BY <3>1 DEF Types
      <3>4. req[c].op \in Ops BY <2>1 DEF Types, RequestOK
      <3>5. running \in [Settings -> Contents] /\ shown \in [Settings -> Contents]
        BY BlankType DEF Types
      <3>6. \A n \in DOMAIN lines : OwnLine(req[c].op, lines[n])
        BY <3>4, <3>5, BatchLeads
      <3>7. Sure(r) => Obtains(req[c].op, running, lines)
        <4>  SUFFICES ASSUME Sure(r) PROVE Obtains(req[c].op, running, lines)
          OBVIOUS
        <4>1. shown = running \/ ~Clears(req[c].op) BY <2>3, <3>2 DEF ShownRight, Sure, Clears
        <4>  QED BY <3>4, <3>5, <4>1, BatchLeads
      <3>8. Promised(c)' BY <2>1, <3>2, <3>3, <3>6, <3>7 DEF Promised, device
      <3>  QED BY <2>1, <3>1, <3>2, <3>8, GoesOn
    <2>  QED BY <1>2, <2>2, <2>3, SnapshotSteps
  <1>3. ASSUME NEW c \in Clients, SendLine(c) PROVE Promise'
    <2>1. req[c].pc = "configure" /\ req[c].lines # <<>> /\ UNCHANGED startup
      BY <1>3 DEF SendLine, At
    <2>2. req[c] \in Requests /\ req[c].op \in Ops /\ req[c].lines \in Seq(Lines)
      BY <2>1 DEF Types, RequestOK, Requests
    <2>3. CASE Return(c)
      <3>1. running' = Effect(running, Head(req[c].lines)) \/ UNCHANGED running
        BY <1>3 DEF SendLine
      <3>  QED BY <2>1, <2>3, <3>1, ReturnKeeps DEF device
    <2>4. \A n \in DOMAIN Tail(req[c].lines) : OwnLine(req[c].op, Tail(req[c].lines)[n])
      <3>1. \A n \in DOMAIN Tail(req[c].lines) :
               n + 1 \in DOMAIN req[c].lines /\ Tail(req[c].lines)[n] = req[c].lines[n + 1]
        BY <2>1, <2>2
      <3>  QED BY <3>1 DEF Promise, Promised
    <2>5. CASE /\ running' = Effect(running, Head(req[c].lines))
               /\ req' = [req EXCEPT ![c].lines = Tail(@)]
      <3>  DEFINE r == [req[c] EXCEPT !.lines = Tail(@)]
      <3>1. req' = [req EXCEPT ![c] = r] BY <2>5 DEF Types
      <3>2. /\ r.pc = "configure" /\ r.lines = Tail(req[c].lines) /\ r.op = req[c].op
            /\ r.missed = req[c].missed /\ r.blind = req[c].blind
        BY <2>1, <2>2 DEF Requests
      <3>  HIDE DEF r
      <3>3. req'[c] = r BY <3>1 DEF Types
      <3>4. Sure(req[c]) => Obtains(req[c].op, running', Tail(req[c].lines))
        <4>  SUFFICES ASSUME Sure(req[c])
                      PROVE  Obtains(req[c].op, running', Tail(req[c].lines))
          OBVIOUS
        <4>1. Obtains(req[c].op, running, req[c].lines) BY <2>1 DEF Promise, Promised
        <4>2. \A n \in DOMAIN req[c].lines : OwnLine(req[c].op, req[c].lines[n])
          BY DEF Promise, Promised
        <4>3. running \in [Settings -> Contents] BY DEF Types
        <4>4. Obtains(req[c].op, Effect(running, Head(req[c].lines)), Tail(req[c].lines))
          BY <2>1, <2>2, <4>1, <4>2, <4>3, OwnStep
        <4>  QED BY <2>5, <4>4
      <3>5. Promised(c)' BY <2>4, <3>2, <3>3, <3>4 DEF Promised, Sure
      <3>  QED BY <2>1, <2>5, <3>1, <3>2, <3>5, GoesOn
    <2>6. CASE /\ req' = [req EXCEPT ![c].lines = Tail(@), ![c].missed = TRUE]
               /\ UNCHANGED running
      <3>  DEFINE r == [req[c] EXCEPT !.lines = Tail(@), !.missed = TRUE]
      <3>1. req' = [req EXCEPT ![c] = r] BY <2>6 DEF Types
      <3>2. r.lines = Tail(req[c].lines) /\ r.op = req[c].op /\ r.missed = TRUE
        BY <2>2 DEF Requests
      <3>  HIDE DEF r
      <3>3. req'[c] = r BY <3>1 DEF Types
      <3>4. Promised(c)' BY <2>4, <3>2, <3>3 DEF Promised, Sure
      <3>  QED BY <2>1, <2>6, <3>1, <3>2, <3>4, GoesOn DEF device
    <2>  QED BY <1>3, <2>3, <2>5, <2>6 DEF SendLine
  <1>4. ASSUME NEW c \in Clients, Save(c) PROVE Promise'
    <2>1. req[c].pc = "configure" /\ req[c].lines = <<>> /\ UNCHANGED running
      BY <1>4 DEF Save, At
    <2>2. CASE Return(c)
      <3>1. startup' = running \/ UNCHANGED startup BY <1>4 DEF Save
      <3>  QED BY <2>1, <2>2, <3>1, ReturnKeeps DEF device
    <2>3. CASE startup' = running /\ req' = [req EXCEPT ![c].pc = "verify"]
      <3>  DEFINE r == [req[c] EXCEPT !.pc = "verify"]
      <3>1. req' = [req EXCEPT ![c] = r] BY <2>3 DEF Types
      <3>2. /\ r.lines = <<>> /\ r.op = req[c].op
            /\ r.missed = req[c].missed /\ r.blind = req[c].blind
        BY <2>1 DEF Types, Requests
      <3>  HIDE DEF r
      <3>3. req'[c] = r BY <3>1 DEF Types
      <3>4. DOMAIN <<>> = {} OBVIOUS
      <3>5. Sure(req[c]) => Obtains(req[c].op, running, <<>>)
        BY <2>1 DEF Promise, Promised
      <3>6. Promised(c)' BY <2>1, <2>3, <3>2, <3>3, <3>4, <3>5 DEF Promised, Sure
      <3>  QED BY <2>1, <2>3, <3>1, <3>2, <3>6, GoesOn
    <2>4. CASE /\ req' = [req EXCEPT ![c].pc = "verify", ![c].missed = TRUE]
               /\ UNCHANGED startup
      <3>  DEFINE r == [req[c] EXCEPT !.pc = "verify", !.missed = TRUE]
      <3>1. req' = [req EXCEPT ![c] = r] BY <2>4 DEF Types
      <3>2. r.lines = <<>> /\ r.op = req[c].op /\ r.missed = TRUE
        BY <2>1 DEF Types, Requests
      <3>  HIDE DEF r
      <3>3. req'[c] = r BY <3>1 DEF Types
      <3>4. DOMAIN <<>> = {} OBVIOUS
      <3>5. Promised(c)' BY <3>2, <3>3, <3>4 DEF Promised, Sure
      <3>  QED BY <2>1, <2>4, <3>1, <3>2, <3>5, GoesOn DEF device
    <2>  QED BY <1>4, <2>2, <2>3, <2>4 DEF Save
  <1>5. ASSUME NEW c \in Clients, Verify(c) PROVE Promise'
    <2>1. UNCHANGED device /\ req[c].pc = "verify" BY <1>5 DEF Verify, At
    <2>2. CASE Return(c) BY <2>1, <2>2, ReturnKeeps
    <2>3. CASE req' = [req EXCEPT ![c].pc = "answer"]
      <3>  DEFINE r == [req[c] EXCEPT !.pc = "answer"]
      <3>1. req' = [req EXCEPT ![c] = r] BY <2>3 DEF Types
      <3>2. /\ r.lines = req[c].lines /\ r.op = req[c].op
            /\ r.missed = req[c].missed /\ r.blind = req[c].blind
        BY DEF Types, Requests
      <3>  HIDE DEF r
      <3>3. req'[c] = r BY <3>1 DEF Types
      <3>4. Promised(c) BY DEF Promise
      <3>5. Promised(c)' BY <2>1, <3>2, <3>3, <3>4 DEF Promised, Sure, device
      <3>  QED BY <2>1, <3>1, <3>2, <3>5, GoesOn
    <2>  QED BY <1>5, <2>2, <2>3 DEF Verify
  <1>6. ASSUME NEW c \in Clients, Answer(c) PROVE Promise'
    BY <1>6, ReturnKeeps DEF Answer
  <1>7. ASSUME NEW c \in Clients, Expire(c) \/ ExpireInRead(c) \/ Wake(c) PROVE Promise'
    <2>1. req[c].pc # "idle" /\ UNCHANGED device
      BY <1>7 DEF Expire, ExpireInRead, Wake, Types, RequestOK, Working
    <2>2. PICK t \in {"late", "stuck"} : req' = [req EXCEPT ![c].time = t]
      BY <1>7 DEF Expire, ExpireInRead, Wake
    <2>  DEFINE r == [req[c] EXCEPT !.time = t]
    <2>3. req' = [req EXCEPT ![c] = r] BY <2>2 DEF Types
    <2>4. /\ r.pc = req[c].pc /\ r.lines = req[c].lines /\ r.op = req[c].op
          /\ r.missed = req[c].missed /\ r.blind = req[c].blind
      BY DEF Types, Requests
    <2>  HIDE DEF r
    <2>5. req'[c] = r BY <2>3 DEF Types
    <2>6. Promised(c) BY DEF Promise
    <2>7. Promised(c)' BY <2>1, <2>4, <2>5, <2>6 DEF Promised, Sure, device
    <2>  QED BY <2>1, <2>3, <2>4, <2>7, GoesOn
  <1>8. ASSUME Reload PROVE Promise'
    <2>1. running' = startup /\ startup' = startup BY <1>8 DEF Reload
    <2>2. \A c \in Clients : req'[c] = IF Working(c) THEN Idle ELSE req[c] BY <1>8 DEF Reload
    <2>3. Apart'
      <3>1. \A d \in Clients :
               \/ req'[d].pc = "idle"
               \/ req[d].pc # "idle" /\ req'[d].op = req[d].op
        BY <2>2 DEF Idle
      <3>  QED BY <3>1, ApartStays DEF Promise
    <2>4. ASSUME NEW c \in Clients PROVE Promised(c)'
      <3>1. CASE Working(c) BY <2>2, <3>1, IdlePromises
      <3>2. CASE ~Working(c)
        <4>1. req'[c] = req[c] /\ Promised(c) /\ req[c].pc \in {"idle", "answer"}
          BY <2>2, <3>2 DEF Working, Promise
        <4>2. req[c].lines = <<>> BY <4>1 DEF Types, RequestOK
        <4>  QED BY <2>1, <4>1, <4>2 DEF Promised, Sure
      <3>  QED BY <3>1, <3>2
    <2>  QED BY <2>3, <2>4 DEF Promise
  <1>9. CASE UNCHANGED vars BY <1>9 DEF vars, Promise, Apart, Promised
  <1>  QED BY <1>1, <1>2, <1>3, <1>4, <1>5, <1>6, <1>7, <1>8, <1>9 DEF Next, Step

\* A request that is answered with success has what it asked for in the running
\* and in the saved configuration, for any number of sessions whose settings do
\* not conflict and whatever is lost, late, refused or reloaded meanwhile, where a
\* filter prints the interface it names and no other.  A line or a save that was
\* refused unnoticed excuses the request; a section that was refused excuses one
\* that clears OSPF only.
THEOREM AnsweredIsSavedCorrect ==
    ASSUME Coordinated, ExactFilters
    PROVE  Spec => []AnsweredIsSaved
  <1>1. Types /\ Promise => AnsweredIsSaved
    <2>  SUFFICES ASSUME Types, Promise, NEW c \in Clients, req[c].pc = "answer", Sure(req[c])
                  PROVE  Holds(req[c].op, running) /\ Holds(req[c].op, startup)
      BY DEF AnsweredIsSaved, At
    <2>1. req[c].op \in Ops /\ req[c].lines = <<>> BY DEF Types, RequestOK
    <2>2. Obtains(req[c].op, running, <<>>) /\ Obtains(req[c].op, startup, <<>>)
      BY <2>1 DEF Promise, Promised
    <2>  QED BY <2>1, <2>2, NothingLeft
  <1>2. Types /\ Promise /\ [Next]_vars => Types' /\ Promise'
    BY TypesNext, PromiseNext
  <1>  QED BY <1>1, <1>2, TypesInit, PromiseInit, PTL DEF Spec
---------------------------------------------------------------------------
(* What a request clears *)

\* Where the device refuses nothing, nothing is missed and every section is read.
Noticed == \A c \in Clients : ~req[c].missed /\ ~req[c].blind

LEMMA NoticedNext ==
    ASSUME ~Refuses, Types, Noticed, [Next]_vars
    PROVE  Noticed'
  <1>0. req \in [Clients -> Requests] /\ ~Idle.missed /\ ~Idle.blind
    BY DEF Types, Idle
  <1>1. ASSUME NEW c \in Clients, NEW r, req' = [req EXCEPT ![c] = r], ~r.missed, ~r.blind
        PROVE  Noticed'
    BY <1>0, <1>1 DEF Noticed
  <1>2. ASSUME NEW c \in Clients,
               \/ Return(c)
               \/ \E op : req' = [req EXCEPT ![c] = [Idle EXCEPT !.pc = "snapshot", !.op = op]]
        PROVE  Noticed'
    <2>1. \A op : /\ ~[Idle EXCEPT !.pc = "snapshot", !.op = op].missed
                   /\ ~[Idle EXCEPT !.pc = "snapshot", !.op = op].blind
      BY DEF Idle
    <2>  QED BY <1>0, <1>1, <1>2, <2>1 DEF Return
  <1>3. ASSUME NEW c \in Clients, NEW r, req' = [req EXCEPT ![c] = r],
               \/ \E lines : r = [req[c] EXCEPT !.lines = lines]
               \/ \E pc : r = [req[c] EXCEPT !.pc = pc]
               \/ \E t : r = [req[c] EXCEPT !.time = t]
        PROVE  Noticed'
    <2>1. req[c] \in Requests /\ ~req[c].missed /\ ~req[c].blind BY <1>0 DEF Noticed
    <2>2. ~r.missed /\ ~r.blind BY <1>3, <2>1 DEF Requests
    <2>  QED BY <1>1, <1>3, <2>2
  <1>4. ASSUME NEW c \in Clients, Connect(c) PROVE Noticed'
    BY <1>2, <1>4 DEF Connect
  <1>5. ASSUME NEW c \in Clients, Snapshot(c) PROVE Noticed'
    <2>1. CASE Return(c) BY <1>2, <2>1
    <2>2. ASSUME NEW lines, NEW b, Configures(c, lines, b), ~b PROVE Noticed'
      <3>  DEFINE r == [req[c] EXCEPT !.pc = "configure", !.lines = lines, !.blind = b]
      <3>1. req' = [req EXCEPT ![c] = r] BY <2>2 DEF Configures
      <3>2. req[c] \in Requests /\ ~req[c].missed BY <1>0 DEF Noticed
      <3>3. ~r.missed /\ ~r.blind BY <2>2, <3>2 DEF Requests
      <3>  HIDE DEF r
      <3>  QED BY <1>1, <3>1, <3>3
    <2>3. ~req[c].blind BY DEF Noticed
    <2>  QED BY <1>5, <2>1, <2>2, <2>3, SnapshotSteps DEF ShownRight
  <1>6. ASSUME NEW c \in Clients, SendLine(c) PROVE Noticed'
    <2>1. CASE Return(c) BY <1>2, <2>1
    <2>2. CASE req' = [req EXCEPT ![c].lines = Tail(@)]
      <3>1. req' = [req EXCEPT ![c] = [req[c] EXCEPT !.lines = Tail(req[c].lines)]]
        BY <1>0, <2>2
      <3>  QED BY <1>3, <3>1
    <2>  QED BY <1>6, <2>1, <2>2 DEF SendLine, Refuses
  <1>7. ASSUME NEW c \in Clients, Save(c) \/ Verify(c) \/ Answer(c) PROVE Noticed'
    <2>1. CASE Return(c) BY <1>2, <2>1
    <2>2. ASSUME NEW pc, req' = [req EXCEPT ![c].pc = pc] PROVE Noticed'
      <3>1. req' = [req EXCEPT ![c] = [req[c] EXCEPT !.pc = pc]] BY <1>0, <2>2
      <3>  QED BY <1>3, <3>1
    <2>  QED BY <1>7, <2>1, <2>2 DEF Save, Verify, Answer, Refuses
  <1>8. ASSUME NEW c \in Clients, Expire(c) \/ ExpireInRead(c) \/ Wake(c) PROVE Noticed'
    <2>1. PICK t : req' = [req EXCEPT ![c].time = t]
      BY <1>8 DEF Expire, ExpireInRead, Wake
    <2>2. req' = [req EXCEPT ![c] = [req[c] EXCEPT !.time = t]] BY <1>0, <2>1
    <2>  QED BY <1>3, <2>2
  <1>9. CASE Reload BY <1>0, <1>9 DEF Reload, Noticed
  <1>10. CASE UNCHANGED vars BY <1>10 DEF vars, Noticed
  <1>  QED BY <1>4, <1>5, <1>6, <1>7, <1>8, <1>9, <1>10 DEF Next, Step

\* Where a filter prints the interface it names and no other and the device refuses
\* nothing, an interface that a request has taken out of OSPF is in no process, for
\* any number of sessions whose settings do not conflict and whatever is lost, late
\* or reloaded: it is the filter that makes ClearedIsClear fail on one that refuses
\* nothing.
THEOREM ClearedIsClearCorrect ==
    ASSUME Coordinated, ExactFilters, ~Fails("misread"), ~Fails("refuse")
    PROVE  Spec => []ClearedIsClear
  <1>1. Noticed /\ AnsweredIsSaved => ClearedIsClear
    <2>  SUFFICES ASSUME Noticed, AnsweredIsSaved, NEW c \in Clients, At(c, "answer"),
                         req[c].op.kind = "membership", req[c].op.value = None
                  PROVE  running[<<req[c].op.object, "ospf">>] = None
      BY DEF ClearedIsClear
    <2>1. Holds(req[c].op, running) BY DEF Noticed, AnsweredIsSaved, Sure
    <2>  QED BY <2>1 DEF Holds
  <1>2. Init => Noticed
    <2>1. ~Idle.missed /\ ~Idle.blind BY DEF Idle
    <2>  QED BY <2>1 DEF Init, Noticed
  <1>3. Types /\ Noticed /\ [Next]_vars => Noticed' BY NoticedNext DEF Refuses
  <1>4. Spec => []AnsweredIsSaved BY AnsweredIsSavedCorrect
  <1>  QED BY <1>1, <1>2, <1>3, <1>4, TypesInit, TypesNext, PTL DEF Spec
---------------------------------------------------------------------------
(* What a session changes *)

\* A line of a request's batch is about a setting the request is about and leads
\* to what it wants, to what an object has when created or to nothing; only a
\* request that removes a process sends the line that does.
AskedLine(op, line) ==
    /\ line.setting \in About(op)
    /\ line.to \in {op.value, op.network, Default, None}
    /\ line.setting[2] = "router-id" /\ line.to = None => op.value = None

Asked == \A c \in Clients :
    \A n \in DOMAIN req[c].lines : AskedLine(req[c].op, req[c].lines[n])

LEMMA AskedTogether ==
    ASSUME NEW a \in Seq(Lines), NEW b \in Seq(Lines), NEW op,
           \A n \in DOMAIN a : AskedLine(op, a[n]), \A n \in DOMAIN b : AskedLine(op, b[n])
    PROVE  \A n \in DOMAIN (a \o b) : AskedLine(op, (a \o b)[n])
  <1>1. /\ Len(a) \in Nat /\ Len(b) \in Nat /\ DOMAIN a = 1..Len(a) /\ DOMAIN b = 1..Len(b)
        /\ DOMAIN (a \o b) = 1..(Len(a) + Len(b))
        /\ \A n \in 1..(Len(a) + Len(b)) :
              (a \o b)[n] = IF n <= Len(a) THEN a[n] ELSE b[n - Len(a)]
    BY Together
  <1>2. \A n \in 1..(Len(a) + Len(b)) : n <= Len(a) \/ n - Len(a) \in 1..Len(b)
    BY <1>1
  <1>  QED BY <1>1, <1>2

\* One line that sets a setting of the request to something it may be set to.
LEMMA AskedSingle ==
    ASSUME NEW op, NEW a, NEW v \in {op.value, op.network, Default, None},
           <<op.object, a>> \in About(op), a = "router-id" => v # None \/ op.value = None
    PROVE  \A n \in DOMAIN Sets(op.object, a, v) : AskedLine(op, Sets(op.object, a, v)[n])
  BY SingleLine DEF AskedLine

LEMMA AskedNamed ==
    ASSUME NEW op \in Ops, NEW a \in {"name", "router-id"}, <<op.object, a>> \in About(op),
           <<op.object, a>> \in Settings, op.value \in Values \union {None}
    PROVE  \A n \in DOMAIN Named(op, a) : AskedLine(op, Named(op, a)[n])
  <1>0. None # Default /\ op.value \in Contents /\ None \in Contents
    BY IosAssumption DEF Contents
  <1>  DEFINE first == IF op.value # None THEN Creates(op.object, a) ELSE <<>>
              last == Sets(op.object, a, op.value)
  <1>1. first \in Seq(Lines) /\ last \in Seq(Lines)
    <2>1. CASE op.value # None BY <1>0, <2>1, BatchLineType
    <2>2. CASE op.value = None BY <1>0, <2>2, BatchLineType, EmptySeq
    <2>  QED BY <2>1, <2>2
  <1>2. Named(op, a) = first \o last BY DEF Named
  <1>3. \A n \in DOMAIN last : AskedLine(op, last[n])
    BY AskedSingle
  <1>4. \A n \in DOMAIN first : AskedLine(op, first[n])
    <2>1. CASE op.value # None
      <3>1. first = Creates(op.object, a) BY <2>1
      <3>2. /\ DOMAIN first = {1} /\ first[1].setting = <<op.object, a>>
            /\ first[1].to = Default
        BY <3>1, Creation
      <3>  HIDE DEF first
      <3>  QED BY <1>0, <3>2 DEF AskedLine
    <2>2. CASE op.value = None
      <3>1. DOMAIN first = {} BY <2>2
      <3>  QED BY <3>1
    <2>  QED BY <2>1, <2>2
  <1>  HIDE DEF first, last
  <1>  QED BY <1>1, <1>2, <1>3, <1>4, AskedTogether

LEMMA AskedMembership ==
    ASSUME NEW op \in Ops, op.kind = "membership", NEW old \in Contents, NEW network \in Contents
    PROVE  \A n \in DOMAIN MembershipLines(op, old, network) :
              AskedLine(op, MembershipLines(op, old, network)[n])
  <1>  DEFINE leave == Leave(op, old)
              join == Join(op)
              rest == OfNetwork(op, network)
  <1>1. leave \in Seq(Lines) /\ join \in Seq(Lines) /\ rest \in Seq(Lines)
    BY MembershipType
  <1>2. leave \o join \in Seq(Lines) BY <1>1, ConcatProperties
  <1>3. <<op.object, "ospf">> \in About(op) /\ <<op.object, "network">> \in About(op)
    BY DEF About
  <1>4. \A n \in DOMAIN leave : AskedLine(op, leave[n])
    <2>1. CASE old \notin {None, op.value}
      <3>1. leave = <<Line(op.object, "ospf", old, None)>> BY <2>1 DEF Leave
      <3>2. DOMAIN leave = {1} /\ leave[1].setting = <<op.object, "ospf">> /\ leave[1].to = None
        BY <3>1 DEF Line
      <3>  HIDE DEF leave
      <3>  QED BY <1>3, <3>2 DEF AskedLine
    <2>2. CASE old \in {None, op.value}
      <3>1. DOMAIN leave = {} BY <2>2 DEF Leave
      <3>  QED BY <3>1
    <2>  QED BY <2>1, <2>2
  <1>5. \A n \in DOMAIN join : AskedLine(op, join[n])
    <2>1. CASE op.value # None BY <1>3, <2>1, AskedSingle DEF Join
    <2>2. CASE op.value = None
      <3>1. DOMAIN join = {} BY <2>2 DEF Join
      <3>  QED BY <3>1
    <2>  QED BY <2>1, <2>2
  <1>6. \A n \in DOMAIN rest : AskedLine(op, rest[n])
    <2>1. CASE op.network # None BY <1>3, <2>1, AskedSingle DEF OfNetwork
    <2>2. CASE op.network = None /\ op.value = None /\ network # None
      BY <1>3, <2>2, AskedSingle DEF OfNetwork
    <2>3. CASE op.network = None /\ ~(op.value = None /\ network # None)
      <3>1. DOMAIN rest = {} BY <2>3 DEF OfNetwork
      <3>  QED BY <3>1
    <2>  QED BY <2>1, <2>2, <2>3
  <1>  HIDE DEF leave, join, rest
  <1>7. \A n \in DOMAIN (leave \o join) : AskedLine(op, (leave \o join)[n])
    BY <1>1, <1>4, <1>5, AskedTogether
  <1>8. \A n \in DOMAIN ((leave \o join) \o rest) : AskedLine(op, ((leave \o join) \o rest)[n])
    BY <1>1, <1>2, <1>6, <1>7, AskedTogether
  <1>  QED BY <1>8, MembershipParts DEF leave, join, rest

\* Whatever the filter showed.
LEMMA AskedBatch ==
    ASSUME NEW config \in [Settings -> Contents], NEW op \in Ops,
           NEW lines \in Batches(op, config)
    PROVE  \A n \in DOMAIN lines : AskedLine(op, lines[n])
  <1>1. CASE op.kind = "vlan"
    <2>1. op.object \in Vlans /\ op.value \in Values \union {None} BY <1>1, OpFacts
    <2>2. <<op.object, "name">> \in Settings BY <2>1, SettingFacts
    <2>3. <<op.object, "name">> \in About(op) BY <1>1 DEF About
    <2>4. lines = Named(op, "name") BY <1>1 DEF Batches
    <2>  QED BY <2>1, <2>2, <2>3, <2>4, AskedNamed
  <1>2. CASE op.kind = "process"
    <2>1. op.object \in Pids /\ op.value \in Values \union {None} BY <1>2, OpFacts
    <2>2. <<op.object, "router-id">> \in Settings BY <2>1, SettingFacts
    <2>3. <<op.object, "router-id">> \in About(op) BY <1>2 DEF About
    <2>4. lines = Named(op, "router-id") BY <1>2 DEF Batches
    <2>  QED BY <2>1, <2>2, <2>3, <2>4, AskedNamed
  <1>3. CASE op.kind = "address"
    <2>  DEFINE first == Sets(op.object, "address", op.value)
                up == IF op.value # None THEN Sets(op.object, "shutdown", None) ELSE <<>>
    <2>0. /\ op.object \in Interfaces /\ op.value \in Contents /\ None \in Contents
          /\ <<op.object, "address">> \in Settings /\ <<op.object, "shutdown">> \in Settings
      BY <1>3, OpFacts, SettingFacts DEF Contents
    <2>1. <<op.object, "address">> \in About(op) /\ <<op.object, "shutdown">> \in About(op)
      BY <1>3 DEF About
    <2>2. first \in Seq(Lines) BY <2>0, BatchLineType
    <2>3. up \in Seq(Lines)
      <3>1. CASE op.value # None BY <2>0, <3>1, BatchLineType
      <3>2. CASE op.value = None BY <3>2, EmptySeq
      <3>  QED BY <3>1, <3>2
    <2>4. lines = first \o up
      <3>1. Batches(op, config) = {first \o up} BY <1>3 DEF Batches
      <3>  QED BY <3>1
    <2>5. \A n \in DOMAIN first : AskedLine(op, first[n]) BY <2>1, AskedSingle
    <2>6. \A n \in DOMAIN up : AskedLine(op, up[n])
      <3>1. CASE op.value # None BY <2>1, <3>1, AskedSingle
      <3>2. CASE op.value = None
        <4>1. DOMAIN up = {} BY <3>2
        <4>  QED BY <4>1
      <3>  QED BY <3>1, <3>2
    <2>  HIDE DEF first, up
    <2>  QED BY <2>2, <2>3, <2>4, <2>5, <2>6, AskedTogether
  <1>4. CASE op.kind = "membership"
    <2>1. op.object \in Interfaces BY <1>4, OpFacts
    <2>2. PICK old \in Reading(config, op.object, "ospf"),
               network \in Reading(config, op.object, "network") :
             lines = MembershipLines(op, old, network)
      BY <1>4 DEF Batches
    <2>3. old \in Contents /\ network \in Contents BY <2>1, ReadingType
    <2>  QED BY <1>4, <2>2, <2>3, AskedMembership
  <1>  QED BY <1>1, <1>2, <1>3, <1>4, OpFacts

LEMMA AskedInit == Init => Asked
  <1>1. Idle.lines = <<>> BY DEF Idle
  <1>2. Init => \A c \in Clients : req[c] = Idle BY DEF Init
  <1>3. DOMAIN <<>> = {} OBVIOUS
  <1>  QED BY <1>1, <1>2, <1>3 DEF Asked

\* A session's lines come from its batch and are sent from the front.
LEMMA AskedNext == Types /\ Asked /\ [Next]_vars => Asked'
  <1>  SUFFICES ASSUME Types, Asked, [Next]_vars PROVE Asked'
    OBVIOUS
  <1>0. req \in [Clients -> Requests] BY DEF Types
  <1>1. ASSUME NEW c \in Clients,
               \A d \in Clients : d # c => req'[d] = req[d],
               \A n \in DOMAIN req'[c].lines : AskedLine(req'[c].op, req'[c].lines[n])
        PROVE  Asked'
    <2>1. ASSUME NEW d \in Clients, NEW n \in DOMAIN req'[d].lines
          PROVE  AskedLine(req'[d].op, req'[d].lines[n])
      <3>1. CASE d = c BY <1>1, <2>1, <3>1
      <3>2. CASE d # c
        <4>1. req'[d] = req[d] BY <1>1, <3>2
        <4>  QED BY <2>1, <4>1 DEF Asked
      <3>  QED BY <3>1, <3>2
    <2>  QED BY <2>1 DEF Asked, AskedLine, About
  <1>2. ASSUME NEW c \in Clients, NEW r, req' = [req EXCEPT ![c] = r], r.lines = <<>>
        PROVE  Asked'
    <2>1. req'[c] = r /\ \A d \in Clients : d # c => req'[d] = req[d] BY <1>0, <1>2
    <2>2. DOMAIN req'[c].lines = {} BY <1>2, <2>1
    <2>  QED BY <1>1, <2>1, <2>2
  <1>3. ASSUME NEW c \in Clients, Return(c) PROVE Asked'
    <2>1. Idle.lines = <<>> BY DEF Idle
    <2>  QED BY <1>2, <1>3, <2>1 DEF Return
  <1>4. ASSUME NEW c \in Clients, NEW r, req' = [req EXCEPT ![c] = r],
               r.op = req[c].op, r.lines = req[c].lines
        PROVE  Asked'
    <2>1. req'[c] = r /\ \A d \in Clients : d # c => req'[d] = req[d] BY <1>0, <1>4
    <2>2. \A n \in DOMAIN req[c].lines : AskedLine(req[c].op, req[c].lines[n]) BY DEF Asked
    <2>3. \A n \in DOMAIN r.lines : AskedLine(r.op, r.lines[n]) BY <1>4, <2>2
    <2>4. req'[c].op = r.op /\ req'[c].lines = r.lines BY <2>1
    <2>5. \A n \in DOMAIN req'[c].lines : AskedLine(req'[c].op, req'[c].lines[n])
      BY <2>3, <2>4
    <2>  QED BY <1>1, <2>1, <2>5
  <1>5. ASSUME NEW c \in Clients, Connect(c) PROVE Asked'
    <2>1. PICK op \in Ops : req' = [req EXCEPT ![c] = [Idle EXCEPT !.pc = "snapshot", !.op = op]]
      BY <1>5 DEF Connect
    <2>2. [Idle EXCEPT !.pc = "snapshot", !.op = op].lines = <<>> BY DEF Idle
    <2>  QED BY <1>2, <2>1, <2>2
  <1>6. ASSUME NEW c \in Clients, Snapshot(c) PROVE Asked'
    <2>1. CASE Return(c) BY <1>3, <2>1
    <2>2. ASSUME NEW shown \in [Settings -> Contents], NEW lines \in Batches(req[c].op, shown),
                 NEW b \in BOOLEAN, Configures(c, lines, b)
          PROVE  Asked'
      <3>1. req[c] \in Requests /\ req[c].pc = "snapshot"
        BY <1>6 DEF Types, Snapshot, At
      <3>2. req[c].op \in Ops BY <3>1 DEF Types, RequestOK
      <3>3. \A n \in DOMAIN lines : AskedLine(req[c].op, lines[n])
        BY <3>2, AskedBatch
      <3>4. /\ req'[c].op = req[c].op /\ req'[c].lines = lines
            /\ \A d \in Clients : d # c => req'[d] = req[d]
        BY <1>0, <2>2, <3>1 DEF Requests, Configures
      <3>5. \A n \in DOMAIN req'[c].lines : AskedLine(req'[c].op, req'[c].lines[n])
        BY <3>3, <3>4
      <3>  QED BY <1>1, <3>4, <3>5
    <2>3. running \in [Settings -> Contents] BY DEF Types
    <2>  QED BY <1>6, <2>1, <2>2, <2>3, SnapshotSteps, BlankType
  <1>7. ASSUME NEW c \in Clients, SendLine(c) PROVE Asked'
    <2>1. CASE Return(c) BY <1>3, <2>1
    <2>2. CASE \/ req' = [req EXCEPT ![c].lines = Tail(@)]
               \/ req' = [req EXCEPT ![c].lines = Tail(@), ![c].missed = TRUE]
      <3>  DEFINE lines == req[c].lines
      <3>1. req[c] \in Requests /\ lines \in Seq(Lines) /\ lines # <<>>
        BY <1>0, <1>7 DEF SendLine, Requests
      <3>2. /\ req'[c].op = req[c].op /\ req'[c].lines = Tail(lines)
            /\ \A d \in Clients : d # c => req'[d] = req[d]
        BY <1>0, <2>2, <3>1 DEF Requests
      <3>3. \A n \in DOMAIN lines : AskedLine(req[c].op, lines[n]) BY DEF Asked
      <3>  HIDE DEF lines
      <3>4. \A n \in DOMAIN Tail(lines) : n + 1 \in DOMAIN lines /\ Tail(lines)[n] = lines[n + 1]
        BY <3>1
      <3>5. \A n \in DOMAIN Tail(lines) : AskedLine(req[c].op, Tail(lines)[n])
        BY <3>3, <3>4
      <3>6. \A n \in DOMAIN req'[c].lines : AskedLine(req'[c].op, req'[c].lines[n])
        BY <3>2, <3>5
      <3>  QED BY <1>1, <3>2, <3>6
    <2>  QED BY <1>7, <2>1, <2>2 DEF SendLine
  <1>8. ASSUME NEW c \in Clients, Save(c) \/ Verify(c) \/ Answer(c) PROVE Asked'
    <2>1. CASE Return(c) BY <1>3, <2>1
    <2>2. ASSUME NEW pc, req' = [req EXCEPT ![c].pc = pc] PROVE Asked'
      <3>  DEFINE r == [req[c] EXCEPT !.pc = pc]
      <3>1. req[c] \in Requests BY <1>0
      <3>2. req' = [req EXCEPT ![c] = r] BY <1>0, <2>2
      <3>3. r.op = req[c].op /\ r.lines = req[c].lines BY <3>1 DEF Requests
      <3>  HIDE DEF r
      <3>  QED BY <1>4, <3>2, <3>3
    <2>3. CASE req' = [req EXCEPT ![c].pc = "verify", ![c].missed = TRUE]
      <3>  DEFINE r == [req[c] EXCEPT !.pc = "verify", !.missed = TRUE]
      <3>1. req[c] \in Requests BY <1>0
      <3>2. req' = [req EXCEPT ![c] = r] BY <1>0, <2>3
      <3>3. r.op = req[c].op /\ r.lines = req[c].lines BY <3>1 DEF Requests
      <3>  HIDE DEF r
      <3>  QED BY <1>4, <3>2, <3>3
    <2>  QED BY <1>8, <2>1, <2>2, <2>3 DEF Save, Verify, Answer
  <1>9. ASSUME NEW c \in Clients, Expire(c) \/ ExpireInRead(c) \/ Wake(c) PROVE Asked'
    <2>1. PICK t : req' = [req EXCEPT ![c].time = t]
      BY <1>9 DEF Expire, ExpireInRead, Wake
    <2>  DEFINE r == [req[c] EXCEPT !.time = t]
    <2>2. req[c] \in Requests BY <1>0
    <2>3. req' = [req EXCEPT ![c] = r] BY <1>0, <2>1
    <2>4. r.op = req[c].op /\ r.lines = req[c].lines BY <2>2 DEF Requests
    <2>  HIDE DEF r
    <2>  QED BY <1>4, <2>3, <2>4
  <1>10. ASSUME Reload PROVE Asked'
    <2>1. ASSUME NEW c \in Clients, NEW n \in DOMAIN req'[c].lines
          PROVE  AskedLine(req'[c].op, req'[c].lines[n])
      <3>1. req'[c] = IF Working(c) THEN Idle ELSE req[c] BY <1>10 DEF Reload
      <3>2. CASE Working(c)
        <4>1. DOMAIN Idle.lines = {} BY DEF Idle
        <4>2. req'[c].lines = Idle.lines BY <3>1, <3>2
        <4>  QED BY <2>1, <4>1, <4>2
      <3>3. CASE ~Working(c)
        <4>1. req'[c] = req[c] BY <3>1, <3>3
        <4>  QED BY <2>1, <4>1 DEF Asked
      <3>  QED BY <3>2, <3>3
    <2>  QED BY <2>1 DEF Asked, AskedLine, About
  <1>11. CASE UNCHANGED vars BY <1>11 DEF vars, Asked, AskedLine, About
  <1>  QED BY <1>5, <1>6, <1>7, <1>8, <1>9, <1>10, <1>11 DEF Next, Step

\* A setting a request that is no process's is about is no router id.
LEMMA OfProcess ==
    ASSUME NEW op \in Ops, NEW o, <<o, "router-id">> \in About(op)
    PROVE  op.kind = "process" /\ op.object = o
  <1>1. op.kind # "vlan" /\ op.kind # "address" /\ op.kind # "membership"
    BY OpFacts DEF About
  <1>2. op.kind = "process" BY <1>1, OpFacts
  <1>  QED BY <1>2 DEF About

LEMMA SendLineAsked ==
    ASSUME Types, Asked, NEW c \in Clients, SendLine(c), NEW s \in Settings,
           running'[s] # running[s]
    PROVE  Under(c, s)
  <1>  DEFINE line == Head(req[c].lines)
              op == req[c].op
  <1>1. /\ req[c].pc = "configure" /\ At(c, "configure")
        /\ req[c].lines \in Seq(Lines) /\ req[c].lines # <<>>
    BY DEF Types, SendLine, At, Requests
  <1>2. op \in Ops BY <1>1 DEF Types, RequestOK
  <1>3. line \in Lines /\ 1 \in DOMAIN req[c].lines /\ line = req[c].lines[1]
    BY <1>1, HeadTailProperties
  <1>4. AskedLine(op, line)
    <2>1. \A n \in DOMAIN req[c].lines : AskedLine(op, req[c].lines[n]) BY DEF Asked
    <2>  QED BY <1>3, <2>1
  <1>5. running' = Effect(running, line) BY DEF SendLine
  <1>6. running \in [Settings -> Contents] BY DEF Types
  <1>  HIDE DEF line, op
  <1>7. CASE s = line.setting
    <2>1. running'[s] = line.to BY <1>3, <1>5, <1>6, <1>7, EffectOn
    <2>2. s \in About(op) /\ running'[s] \in {op.value, op.network, Default, None}
      BY <1>4, <1>7, <2>1 DEF AskedLine
    <2>  QED BY <1>1, <2>2 DEF Under, op
  <1>8. CASE s # line.setting
    <2>1. /\ line.setting[2] = "router-id" /\ line.to = None /\ s[2] = "ospf"
          /\ InProcess(running[s], line.setting[1]) /\ running'[s] = None
      BY <1>3, <1>5, <1>6, <1>8, EffectOn
    <2>2. op.value = None /\ line.setting \in About(op) BY <1>4, <2>1 DEF AskedLine
    <2>3. line.setting = <<line.setting[1], "router-id">>
      BY <1>3, <2>1 DEF Lines, Settings
    <2>4. op.kind = "process" /\ op.object = line.setting[1]
      BY <1>2, <2>2, <2>3, OfProcess
    <2>  QED BY <1>1, <2>1, <2>2, <2>4 DEF Under, op
  <1>  QED BY <1>7, <1>8

LEMMA OnlyAskedNext == Types /\ Asked /\ [Next]_vars => ChangedByNeed
  <1>  SUFFICES ASSUME Types, Asked, [Next]_vars PROVE ChangedByNeed
    OBVIOUS
  <1>1. ASSUME NEW c \in Clients, SendLine(c) PROVE ChangedByNeed
    BY <1>1, SendLineAsked DEF ChangedByNeed
  <1>2. CASE UNCHANGED running BY <1>2 DEF ChangedByNeed
  <1>3. CASE Reload
    <2>1. running' = startup BY <1>3 DEF Reload
    <2>2. ASSUME NEW c \in Clients PROVE ~Working(c)'
      <3>1. req'[c] = IF Working(c) THEN Idle ELSE req[c] BY <1>3 DEF Reload
      <3>  QED BY <3>1 DEF Working, Idle
    <2>  QED BY <2>1, <2>2 DEF ChangedByNeed
  <1>4. [Next]_vars =>
           (\E c \in Clients : SendLine(c)) \/ UNCHANGED running \/ Reload
    BY DEF Next, Step, Connect, Snapshot, Save, Verify, Answer, Expire, ExpireInRead, Wake,
           device, vars
  <1>  QED BY <1>1, <1>2, <1>3, <1>4

\* A setting changes under the hand of a request that is about it, to something
\* that request sends, or goes with its process, or the device reloads: for any
\* number of requests, coordinated or not, whatever the filters print.
THEOREM OnlyAskedCorrect == Spec => OnlyAsked
  <1>1. Types /\ Asked /\ [Next]_vars => [ChangedByNeed]_vars BY OnlyAskedNext
  <1>2. Spec => [][ChangedByNeed]_vars
    BY <1>1, TypesInit, TypesNext, AskedInit, AskedNext, PTL DEF Spec
  <1>  QED BY <1>2 DEF OnlyAsked
===========================================================================
