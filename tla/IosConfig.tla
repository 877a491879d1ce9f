----------------------------- MODULE IosConfig ----------------------------
(***************************************************************************)
(* Configuration sessions on one Cisco IOS device: the write handlers of   *)
(* network_devices.go and the sequences they send (pkg/cisco: client.go,   *)
(* config.go, vlans.go, interfaces.go, ospf.go).                           *)
(*                                                                         *)
(* A request opens an SSH session of its own, reads a section of the       *)
(* running configuration, sends its lines one by one, saves the running    *)
(* configuration as a whole, and reads the section again.  The sessions of *)
(* several requests interleave line by line; nothing in the server or in   *)
(* the device excludes them.                                               *)
(*                                                                         *)
(* The device is modelled from how the code uses it.  A configuration is a *)
(* function from settings of objects (VLANs, interfaces, OSPF processes)   *)
(* to values.                                                              *)
(***************************************************************************)
EXTENDS Sequences

CONSTANTS
    Clients,      \* concurrent requests
    Vlans, Interfaces, Pids,
    Areas,        \* OSPF areas
    Values,       \* names, addresses, router ids and network types
    None,         \* not in the configuration
    Default,      \* what an object has when it was only created
    Whatever,     \* in a line: whatever the setting is
    Ops,          \* the requests the clients send
    Selects,      \* interface -> those its `section interface` filter prints
    Faults,       \* of "refuse", "misread", "network", "timeout", "stall", "reload"
    Coordinated   \* whether conflicting requests exclude each other

Objects     == Vlans \union Interfaces \union Pids
Memberships == Pids \X Areas
Settings    == (Vlans \X {"name"}) \union (Pids \X {"router-id"})
               \union (Interfaces \X {"address", "shutdown", "ospf", "network"})
Contents    == Values \union Memberships \union {None, Default}

\* What a request asks for: a VLAN with a name, an interface with an address, a
\* process with a router id or an interface in a process; None removes it.
AllOps ==
    [kind : {"vlan"}, object : Vlans, value : Values \union {None}, network : {None}] \union
    [kind : {"address"}, object : Interfaces, value : Values \union {None}, network : {None}] \union
    [kind : {"process"}, object : Pids, value : Values \union {None}, network : {None}] \union
    [kind : {"membership"}, object : Interfaces, value : Memberships \union {None},
     network : Values \union {None}]

ASSUME IosAssumption ==
    /\ None \notin Values \union Memberships \union AllOps
    /\ Default \notin Values \union Memberships \union {None}
    /\ Whatever \notin Contents
    /\ Ops \subseteq AllOps
    /\ Selects \in [Interfaces -> SUBSET Interfaces]
    /\ Coordinated \in BOOLEAN

VARIABLES
    running, startup,   \* the device's two configurations
    req                 \* sessions in progress

vars == <<running, startup, req>>

device == <<running, startup>>

\* lines is what is still to be sent.  A late request is one whose context has
\* ended; a stuck one has not noticed, because it waits in Read for a device
\* that has fallen silent.  Not in the code are missed, a refused line or save went
\* unnoticed, and blind, the lines are for a section that was refused and read as
\* an empty one.
Idle == [pc |-> "idle", op |-> None, lines |-> <<>>, time |-> "left",
         missed |-> FALSE, blind |-> FALSE]

Fails(kind) == kind \in Faults

Blank == [s \in Settings |-> IF s[2] = "shutdown" THEN Default ELSE None]

Init ==
    /\ running = Blank /\ startup = Blank
    /\ req = [c \in Clients |-> Idle]

---------------------------------------------------------------------------
(* Lines *)

Line(object, attribute, from, to) ==
    [setting |-> <<object, attribute>>, from |-> from, to |-> to]

Sets(object, attribute, value) == <<Line(object, attribute, Whatever, value)>>

\* A line that enters an object's sub-mode creates it.
Creates(object, attribute) == <<Line(object, attribute, None, Default)>>

\* Removing an OSPF process takes it off the interfaces too.
InProcess(content, pid) == \E area \in Areas : content = <<pid, area>>

Effect(config, line) ==
    IF line.from \notin {Whatever, config[line.setting]} THEN config
    ELSE [s \in Settings |->
            IF s = line.setting THEN line.to
            ELSE IF /\ line.setting[2] = "router-id" /\ line.to = None
                    /\ s[2] = "ospf" /\ InProcess(config[s], line.setting[1])
                 THEN None ELSE config[s]]

\* What the filter may show of a setting: the last interface printed counts.
Reading(config, i, attribute) ==
    LET shown == {config[<<j, attribute>>] : j \in Selects[i]} \ {None} IN
       IF shown = {} THEN {None} ELSE shown

\* The old membership is removed by its process and area.
MembershipLines(op, old, network) ==
    (IF old \notin {None, op.value} THEN <<Line(op.object, "ospf", old, None)>> ELSE <<>>)
    \o (IF op.value # None THEN Sets(op.object, "ospf", op.value) ELSE <<>>)
    \o (IF op.network # None THEN Sets(op.object, "network", op.network)
        ELSE IF op.value = None /\ network # None THEN Sets(op.object, "network", None)
        ELSE <<>>)

Named(op, attribute) ==
    (IF op.value # None THEN Creates(op.object, attribute) ELSE <<>>)
    \o Sets(op.object, attribute, op.value)

\* Mutant: an interface is reset before it gets its address.
BatchesAnew(op, config) ==
    CASE op.kind = "vlan"    -> {Named(op, "name")}
      [] op.kind = "process" -> {Named(op, "router-id")}
      [] op.kind = "address" ->
            {Sets(op.object, "ospf", None) \o Sets(op.object, "address", op.value)
             \o Sets(op.object, "shutdown", None)}
      [] op.kind = "membership" -> {Sets(op.object, "ospf", op.value)}

\* The batches a request may send after it was shown a configuration.
Batches(op, config) ==
    CASE op.kind = "vlan"    -> {Named(op, "name")}
      [] op.kind = "process" -> {Named(op, "router-id")}
      [] op.kind = "address" ->
            {Sets(op.object, "address", op.value)
             \o (IF op.value # None THEN Sets(op.object, "shutdown", None) ELSE <<>>)}
      [] op.kind = "membership" ->
            {MembershipLines(op, old, network) :
                old \in Reading(config, op.object, "ospf"),
                network \in Reading(config, op.object, "network")}

---------------------------------------------------------------------------
(* Sessions *)

At(c, pc) == req[c].pc = pc /\ req[c].time # "stuck"
OnTime(c) == req[c].time = "left"

\* Mutant: the session is kept for the next request.
ReturnKeeping(c) == req' = [req EXCEPT ![c].pc = "idle"]

Return(c) == req' = [req EXCEPT ![c] = Idle]

\* The admins' discipline: no two requests at a time that change one setting.
Conflict(a, b) ==
    \/ a.kind = b.kind /\ a.object = b.object
    \/ /\ a.kind = "process" /\ a.value = None
       /\ b.kind = "membership" /\ InProcess(b.value, a.object)

MayRun(op) == Coordinated => \A c \in Clients :
    req[c].op # None => ~Conflict(op, req[c].op) /\ ~Conflict(req[c].op, op)

\* Row, credentials, SSH login and enable; a login that fails changes nothing.
Connect(c) == \E op \in Ops :
    /\ At(c, "idle") /\ MayRun(op)
    /\ req' = [req EXCEPT ![c] = [Idle EXCEPT !.pc = "snapshot", !.op = op]]
    /\ UNCHANGED device

\* A command's answer does not arrive in time, or the connection breaks.
Unanswered(c) == ~OnTime(c) \/ Fails("network")

\* Refused with one of the error markers, or in words that are none of them.
Refuses == Fails("refuse") \/ Fails("misread")

(***************************************************************************)
(* The snapshot before, and the switch to configuration mode, which fails  *)
(* the request when it is refused.  ShowRunningConfig looks for no error   *)
(* marker: a section that is refused is taken for an empty one.            *)
(***************************************************************************)
Snapshot(c) ==
    /\ At(c, "snapshot")
    /\ \/ /\ OnTime(c)
          /\ \E lines \in Batches(req[c].op, running) :
                req' = [req EXCEPT ![c].pc = "configure", ![c].lines = lines]
       \/ /\ OnTime(c) /\ Refuses
          /\ \E lines \in Batches(req[c].op, Blank) :
                req' = [req EXCEPT ![c].pc = "configure", ![c].lines = lines,
                                   ![c].blind = req[c].op.kind = "membership"]
       \/ (Fails("refuse") \/ Unanswered(c)) /\ Return(c)
    /\ UNCHANGED device

\* Mutant: the batch goes on after a line that was not accepted.
SendLineIgnoring(c) ==
    /\ At(c, "configure") /\ req[c].lines # <<>>
    /\ req' = [req EXCEPT ![c].lines = Tail(@)]
    /\ \/ running' = Effect(running, Head(req[c].lines))
       \/ Fails("refuse") /\ UNCHANGED running
    /\ UNCHANGED startup

(***************************************************************************)
(* One line.  The command is written even when the context has ended.  An  *)
(* error, or an answer with one of the error markers, ends the batch: the  *)
(* lines before it stay in the running configuration and nothing is saved. *)
(* A refusal in other words goes unnoticed.                                *)
(***************************************************************************)
SendLine(c) ==
    /\ At(c, "configure") /\ req[c].lines # <<>>
    /\ \/ /\ running' = Effect(running, Head(req[c].lines))
          /\ \/ OnTime(c) /\ req' = [req EXCEPT ![c].lines = Tail(@)]
             \/ Unanswered(c) /\ Return(c)
       \/ /\ Fails("refuse") \/ Unanswered(c)
          /\ Return(c) /\ UNCHANGED running
       \/ /\ Fails("misread") /\ OnTime(c)
          /\ req' = [req EXCEPT ![c].lines = Tail(@), ![c].missed = TRUE]
          /\ UNCHANGED running
    /\ UNCHANGED startup

\* `end` and `write memory`, which saves what the other sessions did as well.  A
\* refusal in words that are no marker goes unnoticed here too.
Save(c) ==
    /\ At(c, "configure") /\ req[c].lines = <<>>
    /\ \/ /\ startup' = running
          /\ \/ OnTime(c) /\ req' = [req EXCEPT ![c].pc = "verify"]
             \/ Unanswered(c) /\ Return(c)
       \/ /\ Fails("refuse") \/ Unanswered(c)
          /\ Return(c) /\ UNCHANGED startup
       \/ /\ Fails("misread") /\ OnTime(c)
          /\ req' = [req EXCEPT ![c].pc = "verify", ![c].missed = TRUE]
          /\ UNCHANGED startup
    /\ UNCHANGED running

\* The snapshot after: its failure fails a request that was carried out; what it
\* shows, a refusal or not, is not looked at.
Verify(c) ==
    /\ At(c, "verify")
    /\ \/ OnTime(c) /\ req' = [req EXCEPT ![c].pc = "answer"]
       \/ Unanswered(c) /\ Return(c)
    /\ UNCHANGED device

Answer(c) ==
    /\ At(c, "answer")
    /\ Return(c)
    /\ UNCHANGED device

Working(c) == req[c].pc \notin {"idle", "answer"}

\* The 60 seconds are over or the client is gone.
Expire(c) ==
    /\ Fails("timeout") /\ Working(c) /\ OnTime(c)
    /\ req' = [req EXCEPT ![c].time = "late"]
    /\ UNCHANGED device

\* The same, while the session waits in Read and the device says nothing.
ExpireInRead(c) ==
    /\ Fails("stall") /\ Working(c) /\ OnTime(c)
    /\ req' = [req EXCEPT ![c].time = "stuck"]
    /\ UNCHANGED device

\* The device says something after all.
Wake(c) ==
    /\ req[c].time = "stuck"
    /\ req' = [req EXCEPT ![c].time = "late"]
    /\ UNCHANGED device

\* The device restarts from what was saved; its sessions break.
Reload ==
    /\ Fails("reload")
    /\ running' = startup
    /\ req' = [c \in Clients |-> IF Working(c) THEN Idle ELSE req[c]]
    /\ UNCHANGED startup

Step(c) ==
    \/ Snapshot(c) \/ SendLine(c) \/ Save(c) \/ Verify(c) \/ Answer(c)

Next ==
    \/ \E c \in Clients : Connect(c) \/ Step(c) \/ Expire(c) \/ ExpireInRead(c) \/ Wake(c)
    \/ Reload

Spec == Init /\ [][Next]_vars
---------------------------------------------------------------------------
(* Properties *)

Lines == [setting : Settings, from : Contents \union {Whatever}, to : Contents]

(***************************************************************************)
(* Configurations hold settings only, and a session that sends lines       *)
(* belongs to a request.                                                   *)
(***************************************************************************)
TypeOK ==
    /\ running \in [Settings -> Contents] /\ startup \in [Settings -> Contents]
    /\ \A c \in Clients :
          /\ req[c].pc \in {"idle", "snapshot", "configure", "verify", "answer"}
          /\ IF req[c].pc = "idle" THEN req[c] = Idle ELSE req[c].op \in Ops
          /\ \A n \in DOMAIN req[c].lines : req[c].lines[n] \in Lines
          /\ req[c].lines # <<>> => req[c].pc = "configure"
          /\ req[c].missed \in BOOLEAN /\ req[c].blind \in BOOLEAN
          /\ ~OnTime(c) => Working(c) /\ req[c].time \in {"late", "stuck"}

\* The configuration is as a request asked for.
Holds(op, config) ==
    CASE op.kind = "vlan"    -> config[<<op.object, "name">>] = op.value
      [] op.kind = "process" ->
            /\ config[<<op.object, "router-id">>] = op.value
            /\ op.value = None =>
                  \A i \in Interfaces : ~InProcess(config[<<i, "ospf">>], op.object)
      [] op.kind = "address" ->
            /\ config[<<op.object, "address">>] = op.value
            /\ op.value # None => config[<<op.object, "shutdown">>] = None
      [] op.kind = "membership" ->
            /\ config[<<op.object, "ospf">>] = op.value
            /\ op.network # None \/ op.value = None =>
                  config[<<op.object, "network">>] = op.network

Clears(op) == op.kind = "membership" /\ op.value = None

\* The code can know what the device did.  A refused line or save that no marker
\* tells deceives it; so does a refused section, marker or not, when OSPF is to be
\* cleared: it names no process, so no line is sent to remove the interface from.
Sure(r) == ~r.missed /\ ~(r.blind /\ Clears(r.op))

(***************************************************************************)
(* When a request is answered with success, what it asked for is in the    *)
(* running configuration and would survive a reload, whatever the sessions *)
(* for other settings did, lost or left half done meanwhile ("persist the  *)
(* change across reloads", config.go), where a filter prints the interface *)
(* it names and no other.  A section that is refused before does no harm   *)
(* to any request but one that clears OSPF from an interface.              *)
(***************************************************************************)
AnsweredIsSaved == \A c \in Clients :
    At(c, "answer") /\ Sure(req[c]) =>
       Holds(req[c].op, running) /\ Holds(req[c].op, startup)

\* The settings a request is about.
About(op) ==
    CASE op.kind = "vlan"    -> {<<op.object, "name">>}
      [] op.kind = "process" -> {<<op.object, "router-id">>}
      [] op.kind = "address" -> {<<op.object, "address">>, <<op.object, "shutdown">>}
      [] op.kind = "membership" -> {<<op.object, "ospf">>, <<op.object, "network">>}

\* A request that configures changes a setting it is about, or removes the
\* process a membership belongs to.
Under(c, s) == LET op == req[c].op IN
    /\ At(c, "configure")
    /\ \/ s \in About(op) /\ running'[s] \in {op.value, op.network, Default, None}
       \/ /\ op.kind = "process" /\ op.value = None /\ s[2] = "ospf"
          /\ InProcess(running[s], op.object) /\ running'[s] = None

ChangedByNeed == \A s \in Settings : running'[s] # running[s] =>
    \/ \E c \in Clients : Under(c, s)
    \/ running' = startup /\ \A c \in Clients : ~Working(c)'

(***************************************************************************)
(* A setting changes under the hand of a request that is about it, and to  *)
(* what that request wants, to what an object has when created or to       *)
(* nothing; or it is a membership that goes with the process a request     *)
(* removes; or the device reloads.  A batch written for what the snapshot  *)
(* showed does nothing else, whatever happened to the configuration since, *)
(* whichever line it stops at and whoever else configures.                 *)
(***************************************************************************)
OnlyAsked == [][ChangedByNeed]_vars

(***************************************************************************)
(* "Call with pid=0 to clear OSPF from the interface" (SetOSPFInterface).  *)
(***************************************************************************)
ClearedIsClear == \A c \in Clients :
    At(c, "answer") /\ req[c].op.kind = "membership" /\ req[c].op.value = None =>
       running[<<req[c].op.object, "ospf">>] = None
===========================================================================
