------------------------------ MODULE Startup -----------------------------
(***************************************************************************)
(* How the processes of the cluster manager start: the server and the      *)
(* command-line tools open one database, bring its schema up to date and   *)
(* load the key files they need, or create them (db.Open, LoadOrCreateKey, *)
(* LoadOrCreateSecret).  No lock spans two of these steps, and a process   *)
(* may end between any two of them.                                        *)
(***************************************************************************)
EXTENDS Integers, Sequences

CONSTANTS
    Server,       \* the process that serves
    Tools,        \* processes of the command line
    Migrations,   \* how many migrations the binary has
    None,
    Short,        \* a key file of the wrong length
    MaxKeys,      \* bound: keys generated in one behaviour
    Coordinated   \* whether a host's first process starts alone

Procs == {Server} \union Tools
Files == {"jwt", "secrets"}

\* Keys are random; here they are numbered, 0 being that of an earlier life.
Keys == 0..MaxKeys

ASSUME StartupAssumption ==
    /\ Server \notin Tools
    /\ Migrations \in Nat /\ MaxKeys \in Nat
    /\ None \notin Keys \union {Short} \union Tools \union {Server} /\ Short \notin Keys
    /\ Coordinated \in BOOLEAN

VARIABLES
    proc,        \* the processes: program counter and locals
    files,       \* the key files
    applied,     \* migrations committed, in this order (schema_migrations)
    generated    \* how many keys have been generated

startup == <<proc, files, applied, generated>>

Commands(p) == IF p = Server THEN {"serve"} ELSE {"network-add", "migrate"}

\* The key files a command loads, in its order.
Needs(cmd) ==
    CASE cmd = "serve"       -> <<"jwt", "secrets">>
      [] cmd = "network-add" -> <<"secrets">>
      [] cmd = "migrate"     -> <<>>

Down == [pc |-> "down", cmd |-> "migrate", step |-> 1, new |-> None,
         held |-> [f \in Files |-> None]]

\* A database an earlier version left, and keys if it was ever served.
StartupInit ==
    /\ proc = [p \in Procs |-> Down]
    /\ \E n \in 0..Migrations : applied = [i \in 1..n |-> i]
    /\ \E k \in {None, 0} : files = [f \in Files |-> k]
    /\ generated = 0

Starting(p) == proc[p].pc \notin {"down", "running"}
Running(p)  == proc[p].pc = "running"
Intact      == \A f \in Files : files[f] \in Keys

\* The administrators' discipline: until the key files are there, nothing
\* else starts.
MayStart(p) == Coordinated => Intact \/ \A q \in Procs : ~Starting(q)

Start(p) ==
    /\ proc[p] = Down /\ MayStart(p)
    /\ \E cmd \in Commands(p) :
          proc' = [proc EXCEPT ![p] = [Down EXCEPT !.pc = "check", !.cmd = cmd]]
    /\ UNCHANGED <<files, applied, generated>>

---------------------------------------------------------------------------
(* Migrations *)

Done(v) == \E i \in DOMAIN applied : applied[i] = v

\* The record of a process that has dealt with migration or file number s.
Past(r, s) == [r EXCEPT !.step = s + 1]

\* SELECT COUNT(*) FROM schema_migrations, outside the transaction.
Check(p) ==
    /\ proc[p].pc = "check"
    /\ LET r == proc[p] IN
          proc' = [proc EXCEPT ![p] =
             IF r.step > Migrations THEN [r EXCEPT !.pc = "load", !.step = 1]
             ELSE IF Done(r.step) THEN Past(r, r.step)
             ELSE [r EXCEPT !.pc = "apply"]]
    /\ UNCHANGED <<files, applied, generated>>

\* Mutant: the statements of a migration may be repeated (IF NOT EXISTS).
ApplyAgain(p) ==
    /\ proc[p].pc = "apply"
    /\ applied' = Append(applied, proc[p].step)
    /\ proc' = [proc EXCEPT ![p] = [Past(@, @.step) EXCEPT !.pc = "check"]]
    /\ UNCHANGED <<files, generated>>

\* One transaction.  What another process has committed since the check
\* makes it fail: "any error aborts the whole startup".
Apply(p) ==
    /\ proc[p].pc = "apply"
    /\ IF Done(proc[p].step)
       THEN proc' = [proc EXCEPT ![p] = Down] /\ UNCHANGED applied
       ELSE /\ applied' = Append(applied, proc[p].step)
            /\ proc' = [proc EXCEPT ![p] = [Past(@, @.step) EXCEPT !.pc = "check"]]
    /\ UNCHANGED <<files, generated>>

---------------------------------------------------------------------------
(* Key files *)

File(p) == Needs(proc[p].cmd)[proc[p].step]

Loads(p) == proc[p].pc = "load" /\ proc[p].step <= Len(Needs(proc[p].cmd))

\* The process holds key k and goes on to its next file.
Holding(p, k) ==
    [Past(proc[p], proc[p].step) EXCEPT !.pc = "load", !.new = None, !.held[File(p)] = k]

\* Mutant: the tool does not look for the server's key file first.
LoadOrCreateBlind(p) ==
    /\ Loads(p)
    /\ proc' = [proc EXCEPT ![p] =
         IF p # Server \/ files[File(p)] = None THEN [@ EXCEPT !.pc = "create"]
         ELSE IF files[File(p)] = Short THEN Down
         ELSE Holding(p, files[File(p)])]
    /\ UNCHANGED <<files, applied, generated>>

\* os.ReadFile: a file of the wrong length ends the process.
LoadOrCreate(p) ==
    /\ Loads(p)
    /\ proc' = [proc EXCEPT ![p] =
         IF files[File(p)] = None THEN [@ EXCEPT !.pc = "create"]
         ELSE IF files[File(p)] = Short THEN Down
         ELSE Holding(p, files[File(p)])]
    /\ UNCHANGED <<files, applied, generated>>

\* os.WriteFile opens with O_CREATE and O_TRUNC ...
Create(p) ==
    /\ proc[p].pc = "create" /\ generated < MaxKeys
    /\ generated' = generated + 1
    /\ files' = [files EXCEPT ![File(p)] = Short]
    /\ proc' = [proc EXCEPT ![p] = [@ EXCEPT !.pc = "write", !.new = generated + 1]]
    /\ UNCHANGED applied

\* Mutant: the error of the write is dropped.
WriteIgnored(p) ==
    /\ proc[p].pc = "write"
    /\ \E content \in {proc[p].new, Short} : files' = [files EXCEPT ![File(p)] = content]
    /\ proc' = [proc EXCEPT ![p] = Holding(p, proc[p].new)]
    /\ UNCHANGED <<applied, generated>>

\* ... and then writes.
Write(p) ==
    /\ proc[p].pc = "write"
    /\ files' = [files EXCEPT ![File(p)] = proc[p].new]
    /\ proc' = [proc EXCEPT ![p] = Holding(p, proc[p].new)]
    /\ UNCHANGED <<applied, generated>>

\* The command has what it needs; migrate has nothing left to do.
Begin(p) ==
    /\ proc[p].pc = "load" /\ ~Loads(p)
    /\ proc' = [proc EXCEPT ![p] =
                  IF @.cmd = "migrate" THEN Down ELSE [@ EXCEPT !.pc = "running"]]
    /\ UNCHANGED <<files, applied, generated>>

\* "wrong length ... delete to regenerate", while nothing is starting.
RemoveShort(f) ==
    /\ files[f] = Short /\ \A p \in Procs : ~Starting(p)
    /\ files' = [files EXCEPT ![f] = None]
    /\ UNCHANGED <<proc, applied, generated>>

StartupStep ==
    \/ \E p \in Procs : \/ Start(p) \/ Check(p) \/ Apply(p)
                        \/ LoadOrCreate(p) \/ Create(p) \/ Write(p) \/ Begin(p)
    \/ \E f \in Files : RemoveShort(f)

\* The process ends: a failed write, a signal, a crash.
StopProcess(p) ==
    /\ proc[p] # Down
    /\ proc' = [proc EXCEPT ![p] = Down]
    /\ UNCHANGED <<files, applied, generated>>

---------------------------------------------------------------------------
(* Properties *)

Records == [pc : {"down", "check", "apply", "load", "create", "write", "running"},
            cmd : {"serve", "network-add", "migrate"},
            step : 1..(Migrations + 3),
            new : Keys \union {None},
            held : [Files -> Keys \union {None}]]

\* A process holds the keys of the files it is past, and never goes back.
Consistent(r) ==
    /\ r.pc = "write" => r.new \in Keys
    /\ r.pc \in {"create", "write"} => r.step \in DOMAIN Needs(r.cmd)
    /\ r.pc = "apply" => r.step \in 1..Migrations
    /\ r.pc \in {"load", "create", "write"} =>
          \A i \in DOMAIN Needs(r.cmd) : i < r.step => r.held[Needs(r.cmd)[i]] \in Keys
    /\ r.pc = "running" => r.cmd # "migrate" /\ r.held["secrets"] \in Keys

Processes == {r \in Records : Consistent(r)}

StartupTypeOK ==
    /\ proc \in [Procs -> Processes]
    /\ files \in [Files -> Keys \union {None, Short}]
    /\ applied \in Seq(1..Migrations)
    /\ generated \in 0..MaxKeys

(***************************************************************************)
(* Whatever processes start together and wherever they end, a migration is *)
(* applied once, in the order of the files, and no process gets past them  *)
(* before all are applied.  ("Each migration runs in its own transaction", *)
(* db.migrate.)                                                            *)
(***************************************************************************)
MigrationsOnce ==
    /\ \A i \in DOMAIN applied : applied[i] = i
    /\ \A p \in Procs : proc[p].pc \in {"load", "create", "write", "running"} =>
          Len(applied) = Migrations

(***************************************************************************)
(* A key that a process uses is the one in its file, so that every later   *)
(* start finds it again, if a host's first process starts alone; wherever  *)
(* that process ended.  ("generates and persists one if missing", key.go)  *)
(***************************************************************************)
KeysAreOnDisk == \A p \in Procs, f \in Files :
    proc[p].held[f] # None => files[f] = proc[p].held[f]
===========================================================================
