# TLA+ models of the StaxV cluster manager

The cluster manager is one Go process in front of a SQLite file, a directory of
ISO images and two kinds of machines it drives over the network: the management
controllers (BMCs) of physical servers, over Redfish, and Cisco IOS devices,
over SSH. What is hard in it is not in one function. It is in the state that is
shared without a transaction: a table and a directory, a table and a BMC, a key
file and the rows encrypted with it, a running and a startup configuration.

These modules model that state and the handlers, goroutines and processes that
change it. TLC checks them on small instances; the TLA+ proof system proves the
main invariants for every value of the constants.

## Components

| component | state | operations | modelled |
|---|---|---|---|
| ISO library (`handlers/isos.go`, `isolib`, `db/isos.go`) | table `isos`, the flat directory, `activeDownloads`, one goroutine for each import | upload, import, delete, list, get, serve to a BMC | `IsoLibrary`, `IsoCatalog` |
| Server fleet (`handlers/servers.go`, `db/servers.go`, `redfish/client.go`, `redfish/virtualmedia.go`) | table `servers`; at the BMC: power, media slots, boot override | enroll, test, delete, power, mount, eject, boot from ISO | `ServerFleet`, `Inventory` |
| Redfish inventory fetch (`redfish/hardware.go`, `health.go`, `client.go`) | a request's goroutines, semaphores and rows; up to 8 members of a collection at a time | hardware, health | `RedfishFetch` |
| Network devices (`handlers/network_devices.go`, `db/network_devices.go`, `cisco/role.go`, `probe.go`) | table `network_devices` | enroll (API and command line), test, delete, set role | `DeviceInventory`, `Inventory` |
| IOS configuration sessions (`cisco/config.go`, `vlans.go`, `interfaces.go`, `ospf.go`, `client.go`) | at the device: running and startup configuration | VLANs, interface addresses, OSPF processes and interfaces | `IosConfig` |
| Device health and terminal sessions (`cisco/client.go`, `health.go`, `GetOSPFState`) | the session: hostname, buffer, the device's mode; the stream between them | dial, enable, show commands, timeouts | `IosSession` |
| Key files (`secrets/key.go`, `auth/jwt.go`) | `secrets.key`, `jwt.key` | load or create, by `serve` and by the command line | `Startup` |
| Database start-up (`db/db.go`) | `schema_migrations` and the schema | open, migrate | `Startup` |
| Settings (`db/settings.go`, `handlers/settings.go`) | table `settings`, encrypted; one transaction | get, set, delete, list | `UserSettings`; their key: `DeviceInventory` |
| Authentication (`pkg/auth`, `handlers/auth.go`, `db/users.go`, `pamauth`) | table `users`, session tokens that live in cookies only | useradd, login, logout, authorise | `AuthSession`, `UserSettings` |
| Command line and wiring (`main.go`) | none of its own | serve, migrate, useradd, network-add | `Startup`, `DeviceInventory`, the row of useradd in `AuthSession`; shutdown is also `Restart` of `IsoLibrary` |
| Host metrics, configuration file, web UI | none | read only | not modelled |

How they interact. Every handler runs in a goroutine of its own and shares one
database connection (`SetMaxOpenConns(1)`), so single statements are serialised
and nothing longer is: no handler holds a transaction over two statements
except `Settings.Set`. The servers' handlers read the ISO library's rows and
hand a BMC an URL that the ISO library serves later, unauthenticated. The
command-line tools open the same database and the same key files as a running
server. The 60-second timeout of the router applies to everything but the ISO
routes; those end when the client goes away, and an import goes on in a
background context with a timeout of its own.

What makes each correct:

* **ISO library**: a ready row has its file with the recorded checksum; no two
  transfers write one file; a half-written file is finished or removed; an
  import is settled; a late goroutine neither revives a deleted row nor changes
  a settled one; nothing is left in the directory that no row names.
* **Server fleet**: an id names one machine for ever and its discovered identity
  is that machine's; a BMC is given images that were complete; a boot from ISO
  that is reported as triggered runs that ISO, with its one-shot override spent;
  the power state a request stores is the machine's.
* **Network devices**: an admin's role survives every probe; a device enrolled
  from the command line can be decrypted by the server.
* **IOS configuration**: what a request was told is done is in the running
  configuration and survives a reload, whatever other sessions do, lose or leave
  half done; a request whose time is over ends.
* **Keys and start-up**: all processes hold one key; a crash leaves a file that
  can be loaded; migrations run once, in order.
* **Redfish inventory**: BMCs are not asked for more than they bear; nothing
  writes into an answer that is being sent; a block without an error is
  complete; a request ends.
* **Terminal sessions**: a block holds the output of its own command; commands
  run privileged or not at all; a session ends.
* **Settings**: what is stored can be decrypted by every later process; a value
  is replaced or kept, never lost; it is its owner's.
* **Authentication**: authority comes from the user's row at the time of the
  request; a session never becomes another person's.

## Plan

1. `IsoLibrary` and `IsoCatalog`, with proofs. *Done.*
2. `ServerFleet`, which implements `Inventory` and uses `IsoCatalog` for its
   images, with proofs. *Done.*
3. `IosConfig`: configuration sessions of concurrent requests on one device,
   with proofs. *Done.*
4. `Startup` (key files and migrations of processes that start together, with
   crashes) and `DeviceInventory` on top of it (roles, reachability, what is
   stored encrypted; implements `Inventory` too), with proofs. *Done.*
5. `AuthSession` and `UserSettings`: sessions, accounts and what requests do
   with their settings, with proofs. *Done.*
6. `RedfishFetch`: the goroutines of one inventory request, with proofs. *Done.*
7. `IosSession`: one terminal session, chunk by chunk, with proofs. *Done.*
8. What the ISO library keeps only under coordination, proved from that
   coordination. *Done.*
9. For each violation that has one, the condition under which the property does
   hold, proved: an exact filter (`ClearedIsClearCorrect`), no overlap
   (`NoOrphanFileCorrect`), a quiet banner (`OwnReplyCorrect`, `OwedCorrect`,
   `FaultlessCorrect`). *Done.*
10. The safety half of liveness, proved: nobody waits in vain (`AwaitedCorrect`,
    `OwedCorrect`), nothing is done twice (`MovesOnward`). *Done.*
11. Left: the pure algorithms (uptime expressions, role detection, parsers) over
    bounded inputs.

## The ISO library

`IsoLibrary.tla` models the table, the directory, the HTTP requests and the
download goroutines. A handler is a chain of single statements and system
calls; each is an action, and the steps of all requests and goroutines
interleave.

| state | code |
|---|---|
| `rows`, `nextId` | table `isos` (AUTOINCREMENT, UNIQUE filename); `sha` is the inode the checksum was computed over |
| `disk`, `content`, `nextIno` | the directory: which inode is linked at a path, how far its bytes got |
| `req` | HTTP requests in progress: program counter and the locals later steps use |
| `dl` | `runDownload` goroutines |
| `active` | `activeDownloads`, the cancel functions by id |
| `begun`, `restarts` | bounds only |

| actions | code |
|---|---|
| `UploadOpen` … `UploadDiscard` | `Upload`, `SaveUpload`, `CreateISO` |
| `ImportInsert`, `ImportReread`, `ImportStart` | `ImportByURL` |
| `DownloadOpen` … `DownloadExit` | `runDownload`, `Library.Download`, `MarkReady`, `MarkError` |
| `DeleteLookup` … `DeleteFile` | `Delete`, `Library.Remove` |
| `ServeLookup`, `ServeOpen`, `ServeDone` | `Serve` |
| `Restart` | shutdown or crash; start-up repairs nothing |

Two details decide several properties. `CreateISO` is an INSERT followed by a
SELECT, so a request can commit its row and still be told that it failed. And an
import may carry a filename with a directory in it: the file is written to its
basename (`Library.Download`), the row records the joined path
(`Library.Path`). `Base` and `Declared` are the two functions; an alias run uses
`sub/a.iso` beside `a.iso`.

`IsoCatalog.tla` is the abstract specification: the life of an id as an admin
who polls sees it. `CatalogSpec` is the refinement, with the mapping `life`.

### Runs

* **iso_any**: every request, every fault, a restart, aliased names and
  unrestricted overlap. Shows what holds whatever the admins do: one writer for
  a file, ready rows are of completed transfers, finished bytes are never
  written again, cancel functions are those of live goroutines, partial files
  have a writer, and the lifecycle.
* **iso_coordinated**: `Overlap = "cancel"`, that is, the admins' operations on
  one file overlap only as a delete that cancels a running import; the only
  fault is a restart; fair scheduling. Then a ready row's file is there with
  the recorded bytes, downloading rows are tended until a restart, a BMC is
  served the bytes of the row it asked for, and imports settle.
* **iso_orphan** (violation): even a single delete of a running import can
  leave a complete file that no row names, against the comment in
  `isos.go:422-425`: the goroutine's second look at the row comes before the
  delete, its `MarkReady` after it, and `MarkReady` of a missing row is no error.

Without the discipline of iso_coordinated `ReadyFileExists` fails, against the
comment in `0005_isos.sql:33`; no run is kept for that. `Overlap = "any"` in
iso_coordinated.cfg shows it: a delete unlinks the path it read before it dropped
the row; by then the name may be another upload's.

Bounds. Two transfers and two clients are the smallest instance in which a
late unlink, a reused name, an alias and a cancel can meet. Every violation seen
while the model was written needs at most two transfers and two clients;
iso_coordinated has three of each. Restarts: one, because a
second one finds nothing in memory that the first did not leave. Clients are
interchangeable (`SYMMETRY` where only safety is checked).

Fairness. Weak fairness for the steps of an import's handler, of a delete and of
a goroutine: the Go scheduler runs what can run, the database has no lock that
outlives a statement, and a fetch ends by `download_timeout` at the latest. No
fairness for a client that uploads or reads: the server has no read timeout for
a body, only for headers. Cancellation makes `DownloadFetched` impossible and
leaves `DownloadBroken`; a fetch that ends successfully in the instant of the
cancel is the behaviour in which the fetch ended first.

### Proofs

`IsoLibrary_proofs.tla` proves for every set of clients and names, every alias
function, every bound, every set of faults and every overlap:

| theorem | says |
|---|---|
| `TypeCorrect` | `TypeOK` |
| `OneWriterCorrect` | `OneWriter` |
| `ReadyIsCompleteCorrect` | `ReadyIsComplete` |
| `CompleteIsFinalCorrect` | `CompleteIsFinal` |
| `CancelFuncsCorrect` | `CancelFuncsAreLive` |
| `PartialHasWriterCorrect` | `PartialHasWriter` |
| `CatalogCorrect` | `Spec => CatalogSpec`, the refinement |
| `HoldingCorrect`, `TasksCorrect` | the two inductive invariants |

None of the properties is inductive. The argument goes along three
strengthenings:

* *Holding* (files): every inode has at most one holder, where a holder is the
  request or goroutine that writes it, the one that has finished it and not yet
  recorded it, or the ready row that recorded it; holders have inodes below
  `nextIno`, and the content of an inode agrees with its holder's program
  counter. One writer, completeness and finality follow.
* *Tasks* (imports): an id has at most one task that may still settle it,
  either the handler between insert and start or the goroutine; while there is
  one, the row is downloading or deleted. The refinement follows: whoever
  calls `MarkReady` or `MarkError` finds a downloading row or none.
* *Linked inodes* (directory): a path links an inode that was created there.
  With Holding this gives `PartialHasWriter`.

Assumptions: those named in the module (`NamesAssumption`, `NoneAssumption`,
`BoundsAssumption`, `OverlapAssumption`), which TLC evaluates on every run.

`IsoCoordinated_proofs.tla` proves the three invariants of iso_coordinated from
what that run fixes in its cfg, and the one iso_orphan refutes from more, for
every set of clients and names and every bound:

| theorem | says | assumes |
|---|---|---|
| `TendedCorrect` | `TendedUntilRestart` | `StatementsSucceed` |
| `ReadyFileExistsCorrect` | `ReadyFileExists` | `StatementsSucceed`, `PlainNames`, `OneAtATime` |
| `ServesReadyBytesCorrect` | `ServesReadyBytes` | the same |
| `NoOrphanFileCorrect` | `NoOrphanFile` until a restart | `StatementsSucceed`, `PlainNames`, `NothingOverlaps`, `NobodyKeeps` |

`StatementsSucceed` excludes failing statements and clients that leave, not
failing transfers and not restarts; `PlainNames` says that every name is its own
basename; `OneAtATime` is `Overlap # "any"`. Each of them is needed: a
disconnect makes an upload discard the file of the row it committed, an alias
makes a row record a path its file is not at, and with free overlap a delete
unlinks a later file. `TendedUntilRestart` needs no discipline of the admins.

Besides Holding and Tasks the argument needs `Order`, five facts that only hold
together:

* *Turns*: no two admins and no two goroutines work on one file, and an admin
  beside a goroutine is a delete that will not unlink, or one whose goroutine
  only has to exit.
* *UniqueNames*: a name has one row.
* *DownloadsOwn*, *AdminsOwn*: whose row that is. The name a goroutine, an
  import or a delete works on has no other row than theirs; the name of an
  upload that has not inserted yet has no ready row; the name of a delete that
  has dropped its row has none.
* *OnDisk*: the inode at a path is the one that an upload, a download or a
  ready row of that path relies on.

Turns holds because the row tells a delete whether its goroutine is still at
work; AdminsOwn holds because O_EXCL refuses an upload over a ready row's file,
which OnDisk says is there; and OnDisk holds because, by the other four, whoever
unlinks a path is the last to rely on it. `ServesReadyBytes` follows with the
invariant that a ready row stays as it is until it is deleted.

`NothingOverlaps` is `Overlap = "none"`: a delete waits for the import of its
file. `NobodyKeeps` leaves out the deletes that are asked to keep the file. Then
every file is named by a row, or is the file of an upload, or of a delete that
has yet to unlink it (`FilesTended`); the rest of `Tidy` is what keeps it so: no
admin works on a goroutine's file (`Alone`), so an import's row stays until its
goroutine is done (`RowsHeld`), and a delete that drops a row goes on to unlink
(`DeletesUnlink`). iso_orphan has a delete that cancels its import and no other
fault, and there the property fails: the overlap is what breaks it. A restart
between a file and its row does so too, hence "until".

Only model-checked: `ImportSettles` (liveness).

### What the ISO model leaves out

Sizes, checksums as bytes, the error text, `os_type`/`os_version`, the
pagination of the list and the fields of a form; the distinction of
`http.MaxBytesReader` from other read errors. Client disconnects and database
errors are in iso_any and not in iso_coordinated: either can make `CreateISO`
fail after its row is committed, and then `Upload` unlinks the file of a ready
row and `ImportByURL` leaves a downloading row without a goroutine. After a
restart downloading rows stay for ever (`TendedUntilRestart` says that nothing
else has this effect).

## The server fleet

`ServerFleet.tla` models the servers table, the handlers of `servers.go` and the
BMCs. A request looks its server up once and then makes a chain of Redfish calls
with the address and the credentials it read; between two of its steps other
requests, the ISO library, the machine and failures take theirs.

| state | code |
|---|---|
| `rows`, `nextId` | table `servers` (AUTOINCREMENT, UNIQUE name); `serial` is the address of the BMC the serial number was read from, and stands for all the discovered columns a probe that fails keeps |
| `req` | requests in progress: program counter and the locals of the handler |
| `bmc` | at the BMC: power, the image in the CD drive, the one-shot boot override, and what the machine runs |
| `life` | the ISO library, as `IsoCatalog` has it |

| actions | code |
|---|---|
| `EnrollInsert`, `EnrollReread` | `Create`, the two statements of `CreateServer` |
| `DeleteServer` | `Delete` |
| `TestLookup` | `Test` up to its calls |
| `Probe`, `Report` | `probe` and `UpdateReachability`; the tail of enrol, test, power and boot |
| `PowerLookup`, `PowerAction` | `Power`, `Client.PowerAction` |
| `ResolveISO`, `Lookup`, `LookupFails` | `resolveISO`, `clientForServerID` |
| `InsertMedia`, `InsertUnreachable`, `SetBootOverride` | `MountISO` and `BootFromISO` |
| `EjectLookup`, `EjectMedia` | `EjectISO` |
| `Abandon` | the request's context ends: the client is gone, the 60 seconds are over, or the process stops |
| `Halt`, `Reboot` | the machine by itself |

Three decisions keep the model small. A Redfish call is a walk of GETs and one
POST or PATCH: the GETs change nothing, so the call is one step (`Call`), at the
instant of its POST or PATCH. `GetServer` and `GetCredentials` are one step,
because no operation changes an address or a credential. And a call that the
server gave up on has been carried out by then or never is.

The BMC is external and modelled from what the code says of it: an occupied
drive refuses an image (`virtualmedia.go:203-205`), an action may be refused as
"already in that state" (`servers.go:278`), an override is for one start. It has
one CD drive, which is the slot `InsertMedia` picks: the slot that a request may
name (`servers.go:519`, `servers.go:605`, `virtualmedia.go:183-188`) is dropped,
and with it machines with two drives. The transitional state `PoweringOn` is left
out, `PoweringOff` is not, because a graceful shutdown returns before the machine
is off. `GracefulRestart` is one step, as `ForceRestart` is, although the code
speaks of it as asynchronous too (`client.go:403-405`, `servers.go:595-597`): a
guest that takes its time to restart, or never does, is left out.

`Inventory.tla` is the abstract specification of a table of machines; it is
meant for the network devices too. `InventorySpec` is the refinement, with the
mapping `entry`.

### Runs

* **fleet_any**: two requests at a time from enrol, test, mount and boot, with
  deletes, two BMCs that exchange names, every fault. Shows that late reports
  neither revive a server nor give its successor under the same name another
  machine's serial number, and that images come from complete uploads.
* **fleet_coordinated**: `Coordinated`, that is, a BMC gets one request at a
  time, and machines restart only when told; every other fault, six reset types,
  two images. Then a boot that is reported as triggered runs its image, whatever
  earlier boots left behind (an image in the drive makes the mount fail; an
  armed override is harmless to the next boot), and stored power states are the
  machines'.

`BootFromISO` chooses its reset by the stored power state (`servers.go:655`),
where the comments at `servers.go:595` and `servers.go:653` speak of the current
one. After a graceful shutdown whose probe stored `PoweringOff`, or an answer
that was lost, the machine is off and gets `ForceRestart`. fleet_coordinated has
these behaviours: such a boot fails or works, and a success is never reported
wrongly.

Bounds. fleet_any has two rows, one name and two BMCs: enough for a server to be
removed and its name enrolled for the other machine while an old request is
still running, which is what the ids are for. fleet_coordinated has one BMC and
one row, since the discipline is about one BMC, and two images, so that a boot
can meet another's leftovers. Both have two requests at a time: the properties
relate one request to a row, a BMC or one other request. The power requests are
in fleet_coordinated, the deletes in fleet_any; the proofs have neither bound.

`Coordinated` and the absence of `"reboot"` are assumptions about people and
machines and nothing in the code enforces them. Without the first, two boots
interleave between mount, override and reset, and the second machine start may be
the other's; without the second, a restart between override and reset spends the
override, and the reset that follows starts the disk. Both are listed as
hazards.

There is no liveness property: a request that its client abandons may leave
its work undone, and the code promises nothing else.

### Proofs

`ServerFleet_proofs.tla` proves for every set of clients, names, BMCs and images,
every bound and every choice of `Requests`, `Resets` and `Faults`:

| theorem | says | assumes |
|---|---|---|
| `TypeCorrect` | `TypeOK` | |
| `MountedWasReadyCorrect` | `MountedWasReady` | |
| `InventoryCorrect` | `Spec => InventorySpec`, the refinement | |
| `ReportsFreshCorrect` | `ReportsAreFresh` | `Coordinated` |
| `BootTriggeredCorrect` | `BootTriggeredRuns` | `Coordinated`, `"reboot" \notin Faults` |

The strengthenings:

* *Images were ready*: besides drives and machines, the image a request asked
  for was complete. Once complete, an image can only be deleted (`ReadyStays`).
* *Linked*: ids from `nextId` on have no row, and a request past its lookup has
  the address of its row as long as the row exists. So a report that finds a row
  brings the serial number of that row's machine.
* *One each*: no two requests have one BMC (from `Coordinated`), so a step of
  another request leaves a request's BMC alone (`Undisturbed`).
* *Boot progress*: what each call of a boot leaves for the next one: the image
  before the override, both before the reset, and after it the running image, a
  spent override and a machine that is on. The last part matters: only a machine
  that is going off can stop running its image by itself. The reset a boot
  sends starts the machine in every power state in which the BMC accepts it,
  which is why a stale stored state can make the boot fail and never lets it
  report a success that is none.

The constants are assumed to be as in `FleetAssumption`.

### What the fleet model leaves out

The list of servers and of slots (read only; hardware and health are in
`RedfishFetch`); the other
columns of a probe, which `UpdateReachability` merges with NULLIF and COALESCE
(an answer without a value keeps the stored one; `serial` has that rule for the
empty answer); URLs and credentials; `PowerAction`'s check that the BMC lists
the reset type, which is a refusal; two rows for one BMC are possible, and
their requests exclude each other in `Coordinated` only by the address.

## IOS configuration sessions

`IosConfig.tla` models the write requests for one Cisco device. Each opens a
session of its own, and each command of the session is a step.

| state | code |
|---|---|
| `running`, `startup` | the device's configurations, as functions from settings to values |
| `req` | requests: program counter, what was asked for (`op`), the lines still to be sent, whether the context has ended; not in the code: `missed`, a refused line or save went unnoticed, and `blind`, the lines are for a section that was refused |

| actions | code |
|---|---|
| `Connect` | `clientForDevice`, `Dial` |
| `Snapshot` | the first `ShowRunningConfig`, `configure terminal` |
| `SendLine` | one turn of the loop in `RunConfigLines` |
| `Save` | `end`, `write memory` |
| `Verify`, `Answer` | the second `ShowRunningConfig`, the response |
| `Expire`, `ExpireInRead`, `Wake` | the context ends; `Read` does or does not return |
| `Reload` | the device restarts |

A line sets one setting: to a value whatever it was, or only if it was absent
(entering a sub-mode creates the object), or only if it had the value that is to
be removed (`no ip ospf <pid> area <area>`). `Batches` gives each request the
lines that the five functions of `vlans.go`, `interfaces.go` and `ospf.go` send.
Removing an OSPF process removes its interfaces' memberships, as the comment at
`ospf.go:327-329` says of IOS. `Selects` says which interfaces the filter
`section interface <name>` prints.

What is external and assumed of the device: a line is executed when it is sent or
never; a `no` of something absent is silent; `write memory` saves the running
configuration as a whole.

### Runs

* **ios_coordinated**: two sessions for different settings of one device (VLAN,
  address, OSPF process, OSPF interface), with refused lines, saves and sections,
  refusals that go unnoticed, lost answers, timeouts, silent devices and reloads.
  A request that
  is answered with success is in both configurations. `Coordinated` excludes
  two requests for one setting, and the removal of a process while an interface
  joins it; the removal of a process while an interface leaves it is allowed.
  A refusal in words that are none of the markers of `config.go:20-31` is missed
  by the code, of a line as well as of `write memory` (`config.go:155-161`);
  `missed` marks such a request, and the property claims nothing for it. Nor does
  it for a clear whose section was refused (see below): `Sure` is the condition.
  To every other request a refused section does no harm, and the run shows that.
  `OnlyAsked` says what a batch may do to the configuration at all: it
  was written for what the snapshot showed, may stop at any line and meet
  anything another session did since, and still changes nothing but what its
  request is about.
* **ios_prefix** (violation): a filter that prints two interfaces makes a clear
  remove the wrong membership, against `ospf.go:349`.

`ShowRunningConfig` looks for no error marker (`config.go:83-95`). A refused
`show running-config | section interface ...`, `% Authorization failed` for one,
is read as an empty section. That is harmless where the section is only logged,
and where an interface joins a process, since the line that puts it there moves
it. `SetOSPFInterface` with `pid=0` takes the old process from it
(`ospf.go:361-377`): it finds none, sends no `no ip ospf`, saves, and answers with
success while the interface is still in its process, against `ospf.go:349`. This
is a defect of the code. The model has it (the second disjunct of `Snapshot`), and
without `blind` in `Sure` TLC finds `AnsweredIsSaved` violated by it; no run of its
own is kept for it.

A request whose device falls silent outlives its context, against the comment at
`client.go:230-231`: nothing closes the session on cancellation. `ExpireInRead`
and `Wake` are that state; how such a session ends is the subject of
`IosSession`.

Bounds. Two sessions and one object of each kind: the property relates one
request to one other session's lines, saves and failures, and to reloads, of
which there is no bound. The run has 3.4 million distinct states. ios_prefix needs
two interfaces and two processes.

### Proofs

`IosConfig_proofs.tla` proves for every set of clients, VLANs, interfaces,
processes and values, every set of requests and every set of faults:

| theorem | says | assumes |
|---|---|---|
| `TypeCorrect` | `TypeOK` | |
| `AnsweredIsSavedCorrect` | `AnsweredIsSaved` | `Coordinated`, and that each filter prints the interface it names only (`ExactFilters`) |
| `OnlyAskedCorrect` | `OnlyAsked` | |
| `ClearedIsClearCorrect` | `ClearedIsClear` | `Coordinated`, `ExactFilters`, and that the device refuses nothing (`~Fails("refuse")`, `~Fails("misread")`) |

`AnsweredIsSaved` speaks of the end of a session; nothing in the last state says
why it holds. The inductive invariant `Promise` is about the lines that are still
to be sent. *Leads*: for each setting a request wants, either the running
configuration has the value and no line is about the setting, or the last line
about it brings it there from wherever it is, or the only line about it does so
from the one other value the setting may have (`no ip ospf <old>`). The lines of
each kind of request lead to what it wants when they are put together
(`BatchLeads`; the old membership must have been read exactly, hence
`ExactFilters`); sending the first one leads on (`OwnStep`); a line of another
request touches none of the settings, except that removing a process takes
interfaces out of it, and those nobody may want in it (`OtherStep`, from
`Coordinated`). A refusal nobody notices breaks the chain, and so does a clear that
was written for a section it was not shown; the invariant promises nothing for
either (`Sure`). The lines of every other request lead to what it wants even when
they were written for an empty section. When no line is left the configuration is as it was
asked for (`NothingLeft`), and saving copies it. Sessions that a reload spares
have been saved.

`ClearedIsClear` follows from it where nothing is refused (`Noticed`). A refusal in
known words has to be excluded as well, because of a section it is not looked for
in. ios_prefix has no faults and is coordinated: of the hypotheses it drops only
`ExactFilters`, so it is the filter that the violation is about.

`OnlyAsked` needs neither coordination nor exact filters. Its invariant is
`Asked`: each line still to be sent is about a setting of its request's object
and sets it to something the request wants, to what an object has when created,
or to nothing. So a membership misread from another interface is at worst
removed from the interface the request names.

### What this model leaves out

The text of the snapshots, the parsers of show commands; prompts and reads,
which are in `IosSession`; the
validation of VLAN ids, names and addresses (the operations are those that pass
it); two devices, which share nothing. A line that a device executes after the
session was closed is not modelled.

## Start-up and the network devices

`Startup.tla` models how `serve` and the command-line tools get to work on one
database: `db.Open` with its migrations, then the key files. `DeviceInventory`
extends it with the two tables the key protects on this path, the handlers of
`network_devices.go` and `network-add`, which is a process of its own.

| state | code |
|---|---|
| `proc` | processes: program counter, command, which migration or file is next, the key about to be written, the keys held in memory |
| `files` | `jwt.key` and `secrets.key`: absent, of the wrong length (`Short`), or a key |
| `applied` | `schema_migrations`, in the order of the commits; the statements of a migration and its row are one transaction |
| `rows`, `nextId` | table `network_devices`; `key` is the key its passwords are encrypted with, `serial` stands for all the columns that a probe keeps when it did not learn them |
| `settings` | table `settings`: the key each value is encrypted with |
| `req` | requests to the server and the run of `network-add` in progress |

| actions | code |
|---|---|
| `Start`, `Check`, `Apply` | `db.Open`, `migrate`: the SELECT, and the transaction |
| `LoadOrCreate`, `Create`, `Write` | `LoadOrCreateKey` and `LoadOrCreateSecret`: `ReadFile`, the truncating open and the write of `WriteFile` |
| `Begin` | the listener is up, or the command goes on |
| `RemoveShort` | an administrator deletes a file that is refused, as the error text asks |
| `Stop` | exit, signal, crash, a write that fails: at any step, with all requests of the process |
| `EnrollInsert`, `EnrollReread` | `Create` and `network-add`: the two statements of `CreateNetworkDevice` |
| `TestLookup`, `Credentials` | `Test`: `GetNetworkDevice`, `GetCredentials` |
| `Probe`, `Report`, `Classify` | `probe`, `UpdateReachability`, `SetRoleIfUnknown`, the same in both processes |
| `SetRole`, `DeleteDevice`, `SetSetting`, `DeleteSetting` | the handlers of one statement or one transaction |
| `Abandon` | a request's context ends |

### Runs

* **devices**: a server with one request at a time, a tool that runs
  `network-add` or `migrate` again and again, processes that end anywhere,
  failed, partial and late probes, statements that find the database locked.
  `Coordinated` is the administrators' discipline: as long as a key file is
  missing, only one process starts. Then keys in memory are those on disk,
  everything stored can be decrypted by every process, now and after a restart.
  The other properties do not depend on it: migrations are applied once and in
  order although two processes ask before either applies, a known role changes
  only by an administrator's choice, and the table implements `Inventory`.

Without the discipline two processes that start together on a new host can each
create the key file and go on with a key of their own (`key.go:18`, `key.go:35`):
a device that `network-add` enrols then does not decrypt in the server, against
`main.go:494`. `Coordinated = FALSE` in devices.cfg shows the two keys in use, as a
violation of `KeysAreOnDisk`.

Bounds. Two processes and two migrations: a check of each can fall between the
other's check and commit. Three keys: a new host takes two, and one more may be
lost in a start that ends half way. Two rows, one name and two addresses, so that
a name can pass to another device while a probe of the first is under way; one
device is of a known model and one is not. The database starts at any earlier
version, with or without keys.

Assumed: `serve` and the tools are given the same paths; rows are not edited and
key files not replaced by hand; a write of 32 bytes is done or not done, the file
being short until then. There is no liveness property: a process whose start
fails does not try again.

### Proofs

`DeviceInventory_proofs.tla` proves for every set of tools, clients, names,
addresses and settings, every number of migrations, every bound and every choice
of `Chosen`, `Detects` and `Faults`:

| theorem | says | assumes |
|---|---|---|
| `TypeCorrect` | `TypeOK` | |
| `MigrationsOnceCorrect` | `MigrationsOnce` | |
| `KeysOnDiskCorrect` | `KeysAreOnDisk` | `Coordinated` |
| `DecryptableCorrect` | `Decryptable` | `Coordinated` |
| `DecryptedByServeCorrect` | `DecryptedByServe` | `Coordinated` |
| `InventoryCorrect` | `Spec => InventorySpec`, the refinement | |
| `RoleIsStickyCorrect` | `RoleIsSticky` | |

`DecryptedByServe` is what the comment at `main.go:494` says; the discipline is
all that it lacks.

The strengthenings:

* *Types*: a process holds the keys of all files it is past (`Consistent`), so
  one that serves has a key to encrypt with; a request belongs to a process that
  runs; a result that is reported has a status and comes from the address the
  request was opened with (`Reportable`).
* *In order*: a process that looks at migration *n* has seen *n* - 1 committed.
  The transaction that finds *n* missing is then exactly the next one, which is
  why the check outside of it does no harm.
* *Keys*: two processes start together only when the files are there, and a
  process about to make a file, or making it, finds it absent or short. A file in
  either condition is nobody's key (`NobodyHolds`): so `WriteFile`, which
  truncates, never takes a key away from a process, and neither does the
  administrator who deletes a short file. From there, what is stored has the key
  that is in the file (`StoredOnDisk`), which stays there (`FilesStay`).
* *Linked*: as for the servers, ids from `nextId` on have no row and a request
  has the address of its row as long as the row exists.

The constants are assumed to be as in `StartupAssumption` and
`DeviceAssumption`.

### What this model leaves out

Passwords and values; `useradd` (its row is in `AuthSession`; its start is that of
`migrate`); the owner of a setting, which is part of its key here; the
refetch after a probe, list, get and health, which change nothing; `--role` and
`--platform` of the tool beyond the row they write.

## Sessions, accounts and settings

`AuthSession.tla` models who a request is and what it may do; `UserSettings.tla`
composes it with what requests do to the settings once they are let in.

| state | code |
|---|---|
| `users`, `nextId` | table `users` (AUTOINCREMENT, UNIQUE username); `person` is who the account was created for and is not in the code |
| `jar` | the session cookie of each browser: user id and the claims, which are all that a session is |
| `req` | requests in progress: the token, the user that the middleware attached, the route; `seen`, which is not in the code, is what the account was allowed since the request arrived |
| `stored` | table `settings`: per owner id the person whose value it is |
| `tx` | the transaction of `Set` |

| actions | code |
|---|---|
| `CreateUser` | `useradd`, `DB.CreateUser` |
| `EditUser`, `RemoveOwner` | `disabled_at`, `is_admin` and rows changed by hand: the schema and the middleware provide for it, no command does it |
| `LoginVerify`, `LoginIssue` | `Login`: the row and the password (`DB.Verify` or `pamauth`), then the token |
| `Logout` | clears the cookie, and nothing else |
| `VerifyToken`, `LoadUser` | `Middleware` and `RequireAdmin`: signature, row, disabled, administrator |
| `ReadSetting`, `DeleteSetting`, `Serve` | handlers of one statement, or of another module |
| `SetDeletes`, `SetInserts`, `SetCommits` | `Settings.Set`: BEGIN and DELETE, INSERT, COMMIT |
| `Abandon`, `Restart` | the client goes away or a statement fails; the server ends: transactions are rolled back |

### Run

* **sessions**: two browsers and two accounts with two names. A request acts as
  the person who typed the password, and on that person's settings only,
  although accounts are removed and created again with the old name, settings
  may stay behind (SQL by hand runs without `foreign_keys`), and logins take as
  long as they like between row and token. What a request is served for, its
  account was allowed at some moment after the request's arrival, so that a
  disabled, demoted or removed user has lost it with the next request, whatever
  the token claims. A value is replaced or kept; it is never seen missing.

Bounds. Two accounts let a number or a name be taken over; two browsers let one
session see what another does. A browser has one request at a time: requests
share nothing but the cookie, which only login and logout write, and tables. One
setting for each user: settings of one user differ in nothing.

### Proofs

`UserSettings_proofs.tla` proves all five properties for every number of browsers,
names and accounts. The invariant (`IInv`) says that an id stands for a person:
ids from `nextId` on have no row, the row of an id is of the person it was
created for, and so are every token, attached user and stored value of that id
(`AccountsOK`, `JarOK`, `RequestsOK`, `StoredOK`); the transaction belongs to a
request that is served (`TxOK`). `SessionIsOwn` and `OwnSettings` are its
consequences; neither is inductive, because a token says nothing of the row that
is found by its id later. What it rests on is the AUTOINCREMENT of `0001_users.sql`:
the mutant that reuses ids, as a plain rowid table does, breaks both.
`AuthorityIsCurrent` needs in addition that `seen` follows every edit of a row
until the middleware has looked at it.

### What this model leaves out

Passwords, hashes and the text of tokens: a token is good, or it is as if it were
not there (expired, another key, another algorithm). A session cannot be ended by
the server before it expires: logging out clears one browser's cookie, and a copy
of the token goes on (`jwt.go:48`); nothing in the repository promises more.
System-wide settings, which no route reaches; keys and sizes of settings; the list
of them.

## Redfish inventory

`RedfishFetch.tla` models one request for `/hardware` or `/health` with all its
goroutines: the handler, one goroutine for each block, one for each member.

| state | code |
|---|---|
| `handler`, `live` | `Hardware` or `Health`; the request's context |
| `at`, `result` | the goroutine of each block: the document it reads next, or its fan-out; what it returns (`nothing` is the `("", nil)` of a BMC without systems or chassis) |
| `next`, `slots` | `fetchMembers`: the loop and the channel `sem` |
| `go`, `out` | the goroutine of each member, and its row: zero, only its id, or full |

| actions | code |
|---|---|
| `LookUp`, `Answer` | `clientForServer`; `wg.Wait` and `writeJSON` |
| `Locate` | `firstSystemURL`, `firstChassisURL` |
| `ReadResource` | the collection, or `/Thermal`, `/Power` |
| `StartMember`, `FetchMember`, `EndMember`, `Join` | `fetchMembers`, and the unbounded loop over disks in `Drives` |
| `EndContext` | the client is gone, or 60 seconds are over |

A GET is one step, at its answer. It may fail at any time, and can only fail once
the context has ended.

### Run

* **redfish**: a flat collection of four members, one without a link, and two
  slots; two controllers with three disks; two sensor documents. The bound holds
  and slots come back, a block that waits has a member in flight to wait for, the
  answer is written when no goroutine writes into it any more, blocks without an error are complete, and the request ends. It stops
  there, so deadlock is not checked.

Bounds. More members than slots, so that the loop has to wait for one; a member
that is passed over; a controller that fails beside one that does not. Processors,
memory and network interfaces are the same code with other fields, so one flat
collection stands for the three; they share nothing but the answer.

Fairness. Weak fairness for each goroutine's step: the scheduler runs what can
run, statements return, and a GET ends after 15 seconds at the latest
(`http.Client.Timeout`). Nothing is assumed of the BMC.

### Proofs

`RedfishFetch_proofs.tla` proves `TypeOK`, `Capped`, `AnswerIsSettled` and `Awaited`
for every set of flat collections and sensors, all sizes, links and owners, and every limit.
`slots` is a number, and that it is right needs counting: `SlotsOK` says that it is
the cardinality of the members that hold a slot. The rest of `IInv` says how far a
fan-out has got: members beyond `next` have not started and those before it that
could be asked for have (`MemberOK`), a block past a fan-out left nobody running
(`FanOutOK`), and the handler that has answered found all blocks done
(`HandlerOK`). `Awaited` is where the count matters: a loop that finds no slot has
`Limit` members in flight, and a wait group that says no has one.

`MovesOnward` says that each step of a request takes it on, in an order on the
states of handler, context, blocks, loops and goroutines (`Onward`): none is
passed twice. With `Awaited` these are the two halves of the argument that a
request ends; that it does, `RequestEnds`, is liveness and stays with TLC.

### What the code's comments leave open

The comment at `hardware.go:376-377` says that BMCs do not love 30 and more requests
at a time; the bound of 8 is one collection's, an inventory reads four at a time,
and disks are fetched without a bound (`hardware.go:293`). A controller that fails
takes its disks with it and leaves no error (`hardware.go:250-252`); a member that
fails leaves its row but no error either, where the comment at `hardware.go:146-148`
speaks of one. `AnswerIsSettled` says what does hold.

Not modelled: the list of virtual media slots, which is one GET after the other;
the fields of the documents.

## Terminal sessions

`IosSession.tla` models one session with a Cisco device, from `Dial` to the last
command, with the stream between them. `IosConfig` and `DeviceInventory` take a
command's answer as one step; this module is what is below that.

| state | code |
|---|---|
| `phase`, `step`, `buf` | where the client is: about to write, before or in `Read`; which command; what `readUntilPrompt` has in its buffer |
| `host` | the hostname that decides which prompt is waited for |
| `got` | what each block was parsed from, or its error |
| `late` | the context has ended |
| `wire`, `inbox`, `open` | output and commands on their way, the connection |
| `mode`, `secret` | the device: exec, waiting for a password, or privileged; what the password in the row is to it |

| actions | code |
|---|---|
| `Dial` | TCP, SSH and the shell |
| `Write` | `RunCommand`, `escalate`: the command or the password |
| `Check`, `ReadChunk`, `ReadEnd` | the loops of `readUntilPrompt` and `readUntilLiteral` |
| `Accept`, `Go`, `Fail` (in those) | what `Dial`, `escalate` and `GetHealth` make of a reply or an error |
| `Expire` | 30 seconds are over (`Health`), 60, or the client is gone |
| `Reply`, `GiveUp`, `Close` | the device |

### Runs

* **session**: two show commands, replies of up to four pieces read in chunks of
  any size, a buffer of four, a banner between rulers of `#`, and a device that may fall silent, close the line,
  refuse the password, ask again or stop waiting for it. A block without an error
  was parsed from all of its own command's output and nothing else; with an enable
  password in the row, show commands are sent to a privileged device or not at
  all. As long as no reply is too long and the password is right, or there is
  none, the client never waits for text that the device has no reason to send
  (`Owed`). The session ends.
* **session_banner** (violation): a device that answers everything, with a line in
  its banner that ends like a prompt (`Contact <noc@example.com>`). It is taken
  for the prompt (`client.go:354` has `(?m)`, so `$` is the end of any line),
  example.com for the hostname, and the next read waits for a prompt of that name.
  With a plain banner the property holds.

A banner is a sequence of lines, and of a line the model keeps what the code tells
apart (`BannerLines`): the name in front of a `>` or `#` at its end, the device's
own or another, or that there is none, as in a ruler of `#` (`"####"`) or in plain
text. `initialPromptRE` takes the four lines with a name for prompts, and
`endsWithPrivileged` takes every line that ends in `#`, rulers included, for that of
a privileged device. `Password:` and `denied` are kept out of the banner: a banner
with the text that the password dialogue looks for is not modelled.

Bounds. Two commands: a reply can only be mistaken for that of a later one. Four
pieces of output and a buffer of four: the banner with its prompt fits, and so
does the longest reply but for its prompt, so that there are replies that fit and
replies that do not. The banner of session has rulers, so that a read may end at
one, before or after the prompt; it has no line that looks like a prompt.
Both runs end with the session, so deadlock is not checked.

Fairness. The client's steps and `Close`. The first is the scheduler's. The second
is an assumption about the device and the network, namely that a line on which
nothing happens is closed (exec-timeout, TCP keepalive): the code has no bound of
its own, because `Read` waits whatever the context says (`client.go:284-286`) and
the SSH handshake has no timeout. In session_banner, which has no faults, the
device answers.

### Proofs

`IosSession_proofs.tla` proves the four safety properties and two more results for
every list of commands, length of replies and size of the buffer:

| theorem | says | assumes |
|---|---|---|
| `TypeCorrect` | `TypeOK` | |
| `ParkedCorrect` | `Parked` | `UnmisledBanner` |
| `OwnReplyCorrect` | `OwnReply` | `QuietBanner` |
| `OwedCorrect` | `Owed` | `QuietBanner` |
| `PasswordAskedCorrect` | the password is typed at the question for it only | no step is `GiveUp` |
| `FaultlessCorrect` | with the right password, or none, no failure and no block with an error | `QuietBanner`, replies that fit the buffer (`Fits`), a device that only takes its time |

`SessionAssumption` says of the commands what the abstraction needs: no two steps
write the same text, and no command is one of the tokens the code looks for.

`Parked` rests on `Escalated`: "device#" is on the wire or in the buffer only
where the device is privileged, which no fault takes back (`HashShown`); the
client gets past the password only after it has read one, or has no password to
ask with (`Privilege`); what is in the inbox was written at a step it has reached
(`Sent`). What the client takes for the greeting must not be the end of a banner
line: if no line ends in `#` from the first that looks like a prompt on
(`UnmisledBanner`), a read that stops in the banner ends in no `#`, and one that
stops at a `#` has seen the device's own (`Greeting`). Rulers above the first
look-alike, or a banner without one, do no harm.

`UnmisledBanner` is needed. A banner line that ends in `#` and is the end of what
was read makes `Dial` skip `escalate` (`client.go:194`, `client.go:379-389`). TLC
finds `Parked` violated with the device's own name and `#` in the banner, with its
name and `>` above a ruler, and with two look-alikes of one other name, one of
which ends in `#`: show commands then reach a device in exec mode. It is sufficient
and not necessary: with one `NOTICE#` and no more the session learns the wrong name
and waits for it, so no command is sent at all.

`OwnReply` is no invariant of that kind: it speaks of blocks that are done, and
what keeps them right is that nothing is left over when the next command is
written. `Tracked` says so of a client that is `Engaged`, that is, was not refused
by its context and has dropped no chunk: buffer, wire and inbox belong to the
command it is at, and a prompt is the last on the wire. The lemmas `TrackedFail`
to `TrackedClose` take the actions one by one; the password dialogue is the
exception (`Proving`), where a device that gave up waiting leaves text behind, and
there the one "device#" comes after everything. `AnswersOwn` then carries what
holds of a block from the moment it is filled. The theorem assumes `QuietBanner`:
no line of the banner looks like a prompt; text and rulers do not. It cannot be
dropped: session_banner shows one such
line leaving the client waiting for the wrong name, and TLC finds `OwnReply`
violated with a banner of four, the last of which is taken for the first command's
reply.

`Owed` is `Tracked` seen from the other side (`Owing`): where nothing is left over,
what the client waits for is still to come, because its command is with the device
or a text it stops at is on the wire. It is about an open line, the right password
or none: a device without an enable secret refuses `enable` and asks for nothing,
and `escalate` then waits for `Password:` until the line is closed.

`PasswordAskedCorrect` holds whichever lines of the banner look like prompts. `Asking` says that "Password:" is on
the wire or in the buffer only where the device waits for one, until the client has
typed it. A device that gives up waiting breaks exactly this, so the theorem is
about the behaviours without that step.

`FaultlessCorrect` (`Smooth`) and `OwedCorrect` are the safety half of `Served`,
under the condition that session_banner lacks.

`SessionEnds` is model-checked only, and so is `Served` as a whole: both are
liveness.

### What the properties do not claim

`OwnReply` stops at a reply longer than the buffer (`spilt`): the chunk that exceeds
it is dropped and the rest is read as the next command's reply, although
`health.go:61` says that errors stay local. A message that shows the device's own
prompt between two commands has the same effect and is not in the model. `Parked` is
not claimed for every banner (`UnmisledBanner`). The password is
typed as a command at a device that stops waiting for it; nowhere else
(`PasswordAskedCorrect`).

Left out: the parsers, the echo, the first hostname's domain, keyboard-interactive
logins.
