---------------------------- MODULE RedfishFetch ---------------------------
(***************************************************************************)
(* One request for the inventory or the sensors of a server: the handlers  *)
(* Hardware and Health (internal/handlers/servers.go) and the collections  *)
(* they read from its BMC (pkg/redfish: hardware.go, health.go, client.go).*)
(*                                                                         *)
(* The handler starts a goroutine per block.  A block walks from the       *)
(* service root to its resource and, where that is a collection, starts a  *)
(* goroutine per member, at most Limit at a time (fetchMembers).  Disks    *)
(* are listed by their storage controllers and fetched after these, as     *)
(* many at a time as there are.  Every goroutine writes its row of the     *)
(* answer, which is sent when all have ended.                              *)
(*                                                                         *)
(* A GET gets its answer only while the request's context lives, and may   *)
(* fail at any time; after 15 seconds it does (http.Client.Timeout).       *)
(***************************************************************************)
EXTENDS Naturals, FiniteSets

CONSTANTS
    Flat,     \* collections whose members are rows: processors, memory, nics
    Sensors,  \* documents of /health: thermal, power
    Size,     \* members of each collection, and disks of all controllers
    Linked,   \* those that have an @odata.id
    Owner,    \* the controller that lists a disk
    Limit     \* maxInFlight

Blocks  == Flat \union {"drives"} \union Sensors
FanOuts == Flat \union {"controllers", "disks"}
Bounded == Flat \union {"controllers"}

Items == UNION {{f} \X (1..Size[f]) : f \in FanOuts}

ASSUME FetchAssumption ==
    /\ Flat \intersect ({"drives", "controllers", "disks"} \union Sensors) = {}
    /\ Sensors \intersect {"drives"} = {}
    /\ Size \in [FanOuts -> Nat]
    /\ Linked \in [FanOuts -> SUBSET Nat]
    /\ Owner \in [1..Size["disks"] -> 1..Size["controllers"]]
    /\ Limit \in Nat \ {0}
    /\ FanOuts \intersect {"root", "members", "resource", "done"} = {}   \* stages of at

VARIABLES
    request,   \* what is asked for
    handler,   \* the handler
    live,      \* whether the request's context is
    at,        \* each block's goroutine: the document it reads next, or its fan-out
    result,    \* what the block has found: pending, nothing, error, or listed
    next,      \* the member that each fan-out comes to next
    slots,     \* taken slots of its semaphore
    go,        \* the goroutine of each member
    out        \* its row: not written, only named, or full

vars == <<request, handler, live, at, result, next, slots, go, out>>

Parts == IF request = "hardware" THEN Flat \union {"drives"} ELSE Sensors

Init ==
    /\ request \in {"hardware", "health"} /\ handler = "row" /\ live = TRUE
    /\ at = [b \in Blocks |-> "root"] /\ result = [b \in Blocks |-> "pending"]
    /\ next = [f \in FanOuts |-> 1] /\ slots = [f \in Bounded |-> 0]
    /\ go = [m \in Items |-> "none"] /\ out = [m \in Items |-> "zero"]

---------------------------------------------------------------------------
(* The handler *)

\* The row, then its credentials; without them nothing is fetched.
LookUp ==
    /\ handler \in {"row", "creds"}
    /\ handler' \in {IF handler = "row" THEN "creds" ELSE "fetch", "refused"}
    /\ UNCHANGED <<request, live, at, result, next, slots, go, out>>

\* wg.Wait and the answer.
Answer ==
    /\ handler = "fetch" /\ \A b \in Parts : at[b] = "done"
    /\ handler' = "sent"
    /\ UNCHANGED <<request, live, at, result, next, slots, go, out>>

\* The client is gone, or 60 seconds are over.
EndContext ==
    /\ live /\ handler \in {"row", "creds", "fetch"}
    /\ live' = FALSE
    /\ UNCHANGED <<request, handler, at, result, next, slots, go, out>>

---------------------------------------------------------------------------
(* Blocks *)

Works(b) == handler = "fetch" /\ b \in Parts

\* The goroutine ends with what it found.
Finish(b, found) ==
    /\ at' = [at EXCEPT ![b] = "done"]
    /\ result' = [result EXCEPT ![b] = found]

\* firstSystemURL and firstChassisURL: the service root and its first member.
Locate(b) ==
    /\ Works(b) /\ at[b] \in {"root", "members"}
    /\ \/ /\ live
          /\ at' = [at EXCEPT ![b] = IF @ = "root" THEN "members" ELSE "resource"]
          /\ UNCHANGED result
       \/ live /\ Finish(b, "nothing")
       \/ Finish(b, "error")
    /\ UNCHANGED <<request, handler, live, next, slots, go, out>>

\* The document of a sensor block, or the collection whose members follow.
ReadResource(b) ==
    /\ Works(b) /\ at[b] = "resource"
    /\ \/ /\ live /\ b \in Sensors
          /\ Finish(b, "listed")
       \/ /\ live /\ b \notin Sensors
          /\ at' = [at EXCEPT ![b] = IF b = "drives" THEN "controllers" ELSE b]
          /\ result' = [result EXCEPT ![b] = "listed"]
       \/ Finish(b, "error")
    /\ UNCHANGED <<request, handler, live, next, slots, go, out>>

---------------------------------------------------------------------------
(* Members *)

\* Those with a link; of the disks, those whose controller was read.
Queued(m) ==
    /\ m[2] \in Linked[m[1]]
    /\ m[1] = "disks" => out[<<"controllers", Owner[m[2]]>>] = "full"

\* Mutant: the semaphore has one slot more.
StartMemberEarly(b) == LET f == at[b] m == <<f, next[f]>> IN
    /\ Works(b) /\ f \in FanOuts /\ m \in Items
    /\ next' = [next EXCEPT ![f] = @ + 1]
    /\ IF Queued(m)
       THEN /\ f \in Bounded => slots[f] <= Limit
            /\ slots' = [g \in Bounded |-> IF g = f THEN slots[g] + 1 ELSE slots[g]]
            /\ go' = [go EXCEPT ![m] = "fetching"]
       ELSE UNCHANGED <<slots, go>>
    /\ UNCHANGED <<request, handler, live, at, result, out>>

\* The next member is passed over, or gets a slot, which disks need not have,
\* and a goroutine.
StartMember(b) == LET f == at[b] m == <<f, next[f]>> IN
    /\ Works(b) /\ f \in FanOuts /\ m \in Items
    /\ next' = [next EXCEPT ![f] = @ + 1]
    /\ IF Queued(m)
       THEN /\ f \in Bounded => slots[f] < Limit
            /\ slots' = [g \in Bounded |-> IF g = f THEN slots[g] + 1 ELSE slots[g]]
            /\ go' = [go EXCEPT ![m] = "fetching"]
       ELSE UNCHANGED <<slots, go>>
    /\ UNCHANGED <<request, handler, live, at, result, out>>

\* The GET ends and the row is written.  A controller that failed has none.
FetchMember(m) ==
    /\ go[m] = "fetching"
    /\ go' = [go EXCEPT ![m] = "answered"]
    /\ \/ live /\ out' = [out EXCEPT ![m] = "full"]
       \/ out' = [out EXCEPT ![m] = IF m[1] = "controllers" THEN "zero" ELSE "named"]
    /\ UNCHANGED <<request, handler, live, at, result, next, slots>>

\* Mutant: the slot is given back only where the GET succeeded.
EndMemberKeeping(m) ==
    /\ go[m] = "answered"
    /\ go' = [go EXCEPT ![m] = "done"]
    /\ slots' = [g \in Bounded |-> IF g = m[1] /\ out[m] = "full" THEN slots[g] - 1 ELSE slots[g]]
    /\ UNCHANGED <<request, handler, live, at, result, next, out>>

\* The deferred calls: the slot is given back and the wait group told.
EndMember(m) ==
    /\ go[m] = "answered"
    /\ go' = [go EXCEPT ![m] = "done"]
    /\ slots' = [g \in Bounded |-> IF g = m[1] THEN slots[g] - 1 ELSE slots[g]]
    /\ UNCHANGED <<request, handler, live, at, result, next, out>>

Ran(f) == \A m \in Items : m[1] = f => go[m] \in {"none", "done"}

After(f) == IF f = "controllers" THEN "disks" ELSE "done"

\* Mutant: nobody waits for the goroutines.
JoinAtOnce(b) == LET f == at[b] IN
    /\ Works(b) /\ f \in FanOuts /\ next[f] > Size[f]
    /\ at' = [at EXCEPT ![b] = After(f)]
    /\ UNCHANGED <<request, handler, live, result, next, slots, go, out>>

\* wg.Wait of the fan-out.  The disks are known when the controllers are done.
Join(b) == LET f == at[b] IN
    /\ Works(b) /\ f \in FanOuts /\ next[f] > Size[f] /\ Ran(f)
    /\ at' = [at EXCEPT ![b] = After(f)]
    /\ UNCHANGED <<request, handler, live, result, next, slots, go, out>>

BlockStep(b) == Locate(b) \/ ReadResource(b) \/ StartMember(b) \/ Join(b)

MemberStep(m) == FetchMember(m) \/ EndMember(m)

Next ==
    \/ LookUp \/ Answer \/ EndContext
    \/ \E b \in Blocks : BlockStep(b)
    \/ \E m \in Items : MemberStep(m)

Spec == Init /\ [][Next]_vars

\* The goroutines run, statements return, and a GET ends, if only by its timeout.
FairSpec ==
    /\ Spec
    /\ WF_vars(LookUp) /\ WF_vars(Answer)
    /\ \A b \in Blocks : WF_vars(BlockStep(b))
    /\ \A m \in Items : WF_vars(MemberStep(m))
---------------------------------------------------------------------------
(* Properties *)

(***************************************************************************)
(* Every variable is in its set; no fan-out runs past its end, and none    *)
(* takes more slots than there are or returns one it has not taken.        *)
(***************************************************************************)
TypeOK ==
    /\ request \in {"hardware", "health"} /\ live \in BOOLEAN
    /\ handler \in {"row", "creds", "fetch", "sent", "refused"}
    /\ at \in [Blocks -> {"root", "members", "resource", "done"} \union FanOuts]
    /\ result \in [Blocks -> {"pending", "nothing", "error", "listed"}]
    /\ next \in [FanOuts -> Nat] /\ \A f \in FanOuts : next[f] \in 1..(Size[f] + 1)
    /\ slots \in [Bounded -> 0..Limit]
    /\ go \in [Items -> {"none", "fetching", "answered", "done"}]
    /\ out \in [Items -> {"zero", "named", "full"}]

(***************************************************************************)
(* "Cap at 8 in-flight" (fetchMembers): of one collection never more than  *)
(* Limit members are asked for at a time, whichever fail, time out or are  *)
(* passed over.                                                            *)
(***************************************************************************)
Capped == \A f \in Bounded :
    Cardinality({m \in Items : m[1] = f /\ go[m] = "fetching"}) <= Limit

Block(f) == IF f \in {"controllers", "disks"} THEN "drives" ELSE f

(***************************************************************************)
(* When the answer is written, nobody writes rows any more, every block    *)
(* says what became of it, and a block without an error is complete: each  *)
(* member it could ask for has its row, full or named, and each disk its   *)
(* own exactly if its controller was read ("keep an obviously-partial      *)
(* entry rather than dropping", Processors).                               *)
(***************************************************************************)
AnswerIsSettled == handler = "sent" =>
    /\ \A m \in Items : go[m] \in {"none", "done"}
    /\ \A b \in Parts : result[b] # "pending"
    /\ \A m \in Items :
          IF result[Block(m[1])] = "listed" /\ Queued(m)
          THEN m[1] # "controllers" => out[m] # "zero"
          ELSE out[m] = "zero"

(***************************************************************************)
(* Nobody waits in vain: a block that can neither start its next member,   *)
(* for want of a slot, nor go on, as its wait group says no, has a member  *)
(* of that collection in flight, whose end will tell it ("wg.Wait", and    *)
(* the deferred release of fetchMembers).                                  *)
(***************************************************************************)
Waits(b) == LET f == at[b] IN
    /\ Works(b) /\ f \in FanOuts
    /\ IF next[f] > Size[f] THEN ~Ran(f)
       ELSE Queued(<<f, next[f]>>) /\ f \in Bounded /\ slots[f] >= Limit

Awaited == \A b \in Blocks : Waits(b) =>
    \E m \in Items : m[1] = at[b] /\ go[m] \in {"fetching", "answered"}

(***************************************************************************)
(* A request ends: with a BMC that fails, falls silent or answers late, a  *)
(* client that leaves, and more members than slots.                        *)
(***************************************************************************)
Asked == handler \in {"row", "creds", "fetch"}

RequestEnds == Asked ~> ~Asked
===========================================================================
