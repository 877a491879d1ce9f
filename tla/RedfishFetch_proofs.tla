------------------------ MODULE RedfishFetch_proofs -----------------------
(***************************************************************************)
(* Proofs about RedfishFetch, for any collections, any number of members   *)
(* and any number of slots.                                                *)
(*                                                                         *)
(* The inductive invariant is IInv: taken slots are counted by the         *)
(* goroutines that hold them; a fan-out that was left behind has come to   *)
(* its end and its goroutines have too; and a member has a goroutine       *)
(* exactly if its turn has come and it was to be asked for.  The last part *)
(* orders the steps of a request: none is taken twice.                     *)
(***************************************************************************)
EXTENDS RedfishFetch, FiniteSetTheorems, TLAPS

Holding(f) == {m \in Items : m[1] = f /\ go[m] \in {"fetching", "answered"}}

SlotsOK == \A f \in Bounded :
    IsFiniteSet(Holding(f)) /\ slots[f] = Cardinality(Holding(f))

\* The block has gone on to something else.
Passed(f) == result[Block(f)] = "listed" /\ at[Block(f)] \in {"done", After(f)}

BlockOK(b) ==
    /\ at[b] \in {"root", "members", "resource"} <=> result[b] = "pending"
    /\ at[b] \in FanOuts => result[b] = "listed" /\ Block(at[b]) = b
    /\ b \notin Parts => result[b] = "pending"

FanOutOK(f) ==
    /\ next[f] > 1 => at[Block(f)] = f \/ Passed(f)
    /\ Passed(f) => next[f] = Size[f] + 1 /\ Ran(f)

Come(m) == m[2] < next[m[1]] /\ Queued(m)

MemberOK(m) ==
    /\ go[m] = "none" <=> ~Come(m)
    /\ go[m] \in {"none", "fetching"} => out[m] = "zero"
    /\ go[m] \in {"answered", "done"} /\ m[1] # "controllers" => out[m] # "zero"

HandlerOK ==
    /\ handler = "sent" => \A b \in Parts : at[b] = "done"
    /\ handler \notin {"fetch", "sent"} => \A b \in Blocks : at[b] = "root"

IInv ==
    /\ TypeOK
    /\ SlotsOK
    /\ \A b \in Blocks : BlockOK(b)
    /\ \A f \in FanOuts : FanOutOK(f)
    /\ \A m \in Items : MemberOK(m)
    /\ HandlerOK
---------------------------------------------------------------------------
(* What the constants say *)

\* A member is named by its collection and its position there.
LEMMA ItemFacts ==
    ASSUME NEW m \in Items
    PROVE  /\ m = <<m[1], m[2]>> /\ m[1] \in FanOuts /\ m[2] \in 1..Size[m[1]]
           /\ m[2] \in Nat /\ m[2] >= 1
  BY FetchAssumption DEF Items

\* Controllers and disks are fetched by one block, a flat collection by its own.
LEMMA BlockFacts ==
    ASSUME NEW f \in FanOuts
    PROVE  /\ Block(f) \in Blocks \ Sensors
           /\ Block(f) = "drives" <=> f \in {"controllers", "disks"}
           /\ Block(f) # "drives" => Block(f) = f
           /\ After(f) \in {"done", "disks"} /\ (After(f) = "disks" <=> f = "controllers")
  BY FetchAssumption DEF Block, FanOuts, Blocks, After

\* Only the disks have a block that was in another fan-out before.
LEMMA SameBlock ==
    ASSUME NEW f \in FanOuts, NEW g \in FanOuts, Block(f) = Block(g), f # g
    PROVE  f \in {"controllers", "disks"} /\ g \in {"controllers", "disks"}
  BY BlockFacts

LEMMA StageFacts ==
    /\ "controllers" \in FanOuts /\ "disks" \in FanOuts
    /\ "disks" \notin Bounded
    /\ \A f \in FanOuts : f \notin {"root", "members", "resource", "done"}
    /\ \A f \in Bounded : f \in FanOuts
  BY FetchAssumption DEF FanOuts, Bounded

---------------------------------------------------------------------------
(* The initial state and the handler *)

LEMMA InitInvariant == Init => IInv
  <1> SUFFICES ASSUME Init PROVE IInv
    OBVIOUS
  <1> USE DEF Init
  <1>1. TypeOK
    BY FetchAssumption DEF TypeOK, Bounded, FanOuts
  <1>2. SlotsOK
    <2>1. ASSUME NEW f \in Bounded PROVE Holding(f) = {}
      BY DEF Holding
    <2> QED
      BY <2>1, FS_EmptySet DEF SlotsOK
  <1>3. ASSUME NEW b \in Blocks PROVE BlockOK(b)
    BY <1>3, StageFacts DEF BlockOK
  <1>4. ASSUME NEW f \in FanOuts PROVE FanOutOK(f)
    BY <1>4, BlockFacts DEF FanOutOK, Passed
  <1>5. ASSUME NEW m \in Items PROVE MemberOK(m)
    <2>1. ~(m[2] < next[m[1]])
      BY ItemFacts
    <2> QED
      BY <2>1 DEF MemberOK, Come
  <1>6. HandlerOK
    BY DEF HandlerOK
  <1> QED
    BY <1>1, <1>2, <1>3, <1>4, <1>5, <1>6 DEF IInv

\* The handler and the end of the context touch neither blocks nor members.
LEMMA HandlerInvariant ==
    ASSUME IInv, LookUp \/ Answer \/ EndContext PROVE IInv'
  <1> USE DEF IInv
  <1>1. UNCHANGED <<request, at, result, next, slots, go, out>>
    BY DEF LookUp, Answer, EndContext
  <1>2. TypeOK'
    BY <1>1 DEF TypeOK, LookUp, Answer, EndContext
  <1>3. SlotsOK'
    BY <1>1 DEF SlotsOK, Holding
  <1>4. \A b \in Blocks : BlockOK(b)'
    BY <1>1 DEF BlockOK, Parts
  <1>5. \A f \in FanOuts : FanOutOK(f)'
    BY <1>1 DEF FanOutOK, Passed, Ran
  <1>6. \A m \in Items : MemberOK(m)'
    BY <1>1 DEF MemberOK, Come, Queued
  <1>7. HandlerOK'
    BY <1>1 DEF HandlerOK, Parts, LookUp, Answer, EndContext
  <1> QED
    BY <1>2, <1>3, <1>4, <1>5, <1>6, <1>7

---------------------------------------------------------------------------
(* Blocks *)

\* A block that has not come to its members goes on to a document, to its
\* first fan-out or to its end.
LEMMA DocumentInvariant ==
    ASSUME IInv, NEW b \in Blocks, Locate(b) \/ ReadResource(b) PROVE IInv'
  <1> USE DEF IInv
  <1> DEFINE first == IF b = "drives" THEN "controllers" ELSE b
  <1>1. /\ at[b] \in {"root", "members", "resource"} /\ result[b] = "pending"
        /\ Works(b) /\ UNCHANGED <<request, handler, live, next, slots, go, out>>
    BY DEF Locate, ReadResource, BlockOK
  <1> DEFINE Moves(s, r) ==
        /\ at' = [at EXCEPT ![b] = s] /\ result' = [result EXCEPT ![b] = r]
        /\ \/ s \in {"members", "resource"} /\ r = "pending"
           \/ s = "done" /\ r \in {"nothing", "error"}
           \/ s = "done" /\ r = "listed" /\ b \in Sensors
           \/ s = first /\ r = "listed" /\ b \notin Sensors
  <1>2. \E s, r : Moves(s, r)
    <2>1. CASE Locate(b)
      <3>1. CASE live /\ at' = [at EXCEPT ![b] = IF @ = "root" THEN "members" ELSE "resource"]
                      /\ UNCHANGED result
        <4>1. at' = [at EXCEPT ![b] = IF at[b] = "root" THEN "members" ELSE "resource"]
          BY <3>1
        <4>2. result' = [result EXCEPT ![b] = "pending"]
          BY <3>1, <1>1 DEF TypeOK
        <4> QED
          BY <4>1, <4>2
      <3>2. CASE Finish(b, "nothing") \/ Finish(b, "error")
        BY <3>2 DEF Finish
      <3> QED
        BY <2>1, <3>1, <3>2 DEF Locate
    <2>2. CASE ReadResource(b)
      BY <2>2 DEF ReadResource, Finish
    <2> QED
      BY <2>1, <2>2
  <1> PICK s, r : Moves(s, r)
    BY <1>2
  <1>3. s \in {"root", "members", "resource", "done"} \union FanOuts
        /\ r \in {"pending", "nothing", "error", "listed"}
    BY StageFacts DEF Blocks, FanOuts
  <1>4. TypeOK'
    BY <1>1, <1>3 DEF TypeOK
  <1>5. SlotsOK'
    BY <1>1 DEF SlotsOK, Holding
  <1>6. at'[b] = s /\ result'[b] = r
        /\ \A d \in Blocks : d # b => at'[d] = at[d] /\ result'[d] = result[d]
    BY DEF TypeOK
  <1>7. ASSUME NEW d \in Blocks PROVE BlockOK(d)'
    <2>1. CASE d # b
      BY <1>1, <1>6, <2>1 DEF BlockOK, Parts
    <2>2. CASE d = b
      <3>1. b \in Parts'
        BY <1>1 DEF Works, Parts
      <3>2. b \notin Sensors => first \in FanOuts /\ Block(first) = b
        BY StageFacts, FetchAssumption DEF Blocks, FanOuts, Block
      <3> HIDE DEF first
      <3> QED
        BY <1>6, <2>2, <3>1, <3>2, StageFacts DEF BlockOK
    <2> QED
      BY <2>1, <2>2
  <1>8. ASSUME NEW f \in FanOuts PROVE FanOutOK(f)'
    <2>1. CASE Block(f) # b
      BY <1>1, <1>6, <2>1, BlockFacts DEF FanOutOK, Passed, Ran
    <2>2. CASE Block(f) = b
      <3>1. ~(next'[f] > 1)
        BY <1>1, <2>2, StageFacts DEF FanOutOK, Passed
      <3>2. ~Passed(f)'
        BY <1>6, <2>2, BlockFacts, StageFacts DEF Passed
      <3> QED
        BY <3>1, <3>2 DEF FanOutOK
    <2> QED
      BY <2>1, <2>2
  <1>9. \A m \in Items : MemberOK(m)'
    BY <1>1 DEF MemberOK, Come, Queued
  <1>10. HandlerOK'
    BY <1>1 DEF HandlerOK, Works
  <1> QED
    BY <1>4, <1>5, <1>7, <1>8, <1>9, <1>10

\* A fan-out that has come to its end, and whose goroutines have ended, is left.
LEMMA JoinInvariant ==
    ASSUME IInv, NEW b \in Blocks, Join(b) PROVE IInv'
  <1> USE DEF IInv
  <1> DEFINE f == at[b]
  <1>1. /\ Works(b) /\ f \in FanOuts /\ next[f] > Size[f] /\ Ran(f)
        /\ at' = [at EXCEPT ![b] = After(f)]
        /\ UNCHANGED <<request, handler, live, result, next, slots, go, out>>
    BY DEF Join
  <1>2. Block(f) = b /\ result[b] = "listed" /\ After(f) \in {"done", "disks"}
        /\ (After(f) = "disks" <=> f = "controllers")
    BY <1>1, BlockFacts DEF BlockOK
  <1>3. at'[b] = After(f) /\ \A d \in Blocks : d # b => at'[d] = at[d]
    BY <1>1 DEF TypeOK
  <1> HIDE DEF f
  <1>4. next[f] = Size[f] + 1
    <2>1. Size[f] \in Nat /\ next[f] \in 1..(Size[f] + 1)
      BY <1>1, FetchAssumption DEF TypeOK
    <2> QED
      BY <1>1, <2>1
  <1>5. TypeOK'
    BY <1>1, <1>2, StageFacts DEF TypeOK
  <1>6. SlotsOK'
    BY <1>1 DEF SlotsOK, Holding
  <1>7. ASSUME NEW d \in Blocks PROVE BlockOK(d)'
    <2>1. CASE d # b
      BY <1>1, <1>3, <2>1 DEF BlockOK, Parts
    <2>2. CASE d = b
      <3>1. After(f) = "disks" => Block("disks") = b
        BY <1>2 DEF Block
      <3> QED
        BY <1>1, <1>2, <1>3, <2>2, <3>1, StageFacts DEF BlockOK, Parts, Works
    <2> QED
      BY <2>1, <2>2
  <1>8. ASSUME NEW g \in FanOuts PROVE FanOutOK(g)'
    <2>1. CASE Block(g) # b
      BY <1>1, <1>3, <2>1, BlockFacts DEF FanOutOK, Passed, Ran
    <2>2. CASE g = f
      BY <1>1, <1>2, <1>3, <1>4, <2>2 DEF FanOutOK, Passed, Ran
    <2>3. CASE Block(g) = b /\ g # f
      <3>1. f \in {"controllers", "disks"} /\ g \in {"controllers", "disks"}
        BY <1>1, <1>2, <2>3, SameBlock
      <3>2. Ran(g)' = Ran(g) /\ next' = next
        BY <1>1 DEF Ran
      <3>3. CASE f = "controllers"
        <4>1. g = "disks" /\ at[b] = "controllers" /\ at'[b] = "disks"
          BY <1>2, <1>3, <2>3, <3>1, <3>3 DEF f
        <4>2. ~Passed(g) /\ ~(next[g] > 1)
          BY <4>1, <2>3 DEF FanOutOK, Passed, After
        <4>3. ~Passed(g)'
          BY <4>1, <2>3 DEF Passed, After
        <4> QED
          BY <3>2, <4>2, <4>3 DEF FanOutOK
      <3>4. CASE f = "disks"
        <4>1. g = "controllers" /\ at[b] = "disks" /\ at'[b] = "done"
          BY <1>2, <1>3, <2>3, <3>1, <3>4 DEF f
        <4>2. Passed(g)
          BY <4>1, <1>2, <2>3 DEF Passed, After
        <4>3. Passed(g)'
          BY <4>1, <1>1, <1>2, <2>3 DEF Passed
        <4> QED
          BY <3>2, <4>2, <4>3 DEF FanOutOK
      <3> QED
        BY <3>1, <3>3, <3>4
    <2> QED
      BY <2>1, <2>2, <2>3
  <1>9. \A m \in Items : MemberOK(m)'
    BY <1>1 DEF MemberOK, Come, Queued
  <1>10. HandlerOK'
    BY <1>1 DEF HandlerOK, Works
  <1> QED
    BY <1>5, <1>6, <1>7, <1>8, <1>9, <1>10

---------------------------------------------------------------------------
(* Members *)

\* The next member is passed over, or its goroutine takes a slot.
LEMMA StartInvariant ==
    ASSUME IInv, NEW b \in Blocks, StartMember(b) PROVE IInv'
  <1> USE DEF IInv
  <1> DEFINE f == at[b]
             m == <<f, next[f]>>
  <1>1. /\ Works(b) /\ f \in FanOuts /\ m \in Items
        /\ next' = [next EXCEPT ![f] = @ + 1]
        /\ UNCHANGED <<request, handler, live, at, result, out>>
    BY DEF StartMember
  <1>2. /\ Queued(m) => /\ f \in Bounded => slots[f] < Limit
                        /\ slots' = [g \in Bounded |-> IF g = f THEN slots[g] + 1 ELSE slots[g]]
                        /\ go' = [go EXCEPT ![m] = "fetching"]
        /\ ~Queued(m) => UNCHANGED <<slots, go>>
    BY DEF StartMember
  <1>3. Block(f) = b
    BY <1>1 DEF BlockOK
  <1>4. m[1] = f /\ m[2] = next[f] /\ next[f] <= Size[f] /\ next[f] \in Nat
    BY <1>1, ItemFacts, FetchAssumption
  <1>5. ~Come(m) /\ go[m] = "none" /\ out[m] = "zero"
    BY <1>1, <1>4 DEF Come, MemberOK
  <1>6. next'[f] = next[f] + 1 /\ \A g \in FanOuts : g # f => next'[g] = next[g]
    BY <1>1 DEF TypeOK
  <1>7. /\ Queued(m) => go'[m] = "fetching"
        /\ ~Queued(m) => go'[m] = "none"
        /\ \A n \in Items : n # m => go'[n] = go[n]
    BY <1>1, <1>2, <1>5 DEF TypeOK
  <1> HIDE DEF f, m
  <1>8. TypeOK'
    <2>1. next' \in [FanOuts -> Nat] /\ \A g \in FanOuts : next'[g] \in 1..(Size[g] + 1)
      <3>1. \A g \in FanOuts : Size[g] \in Nat
        BY FetchAssumption
      <3>2. next' \in [FanOuts -> Nat]
        BY <1>1, <1>4 DEF TypeOK
      <3> QED
        BY <1>1, <1>4, <1>6, <3>1, <3>2 DEF TypeOK
    <2>2. slots' \in [Bounded -> 0..Limit]
      <3>1. CASE ~Queued(m)
        BY <1>2, <3>1 DEF TypeOK
      <3>2. CASE Queued(m)
        <4>1. ASSUME NEW g \in Bounded
              PROVE  (IF g = f THEN slots[g] + 1 ELSE slots[g]) \in 0..Limit
          <5>1. slots[g] \in 0..Limit /\ Limit \in Nat
            BY FetchAssumption DEF TypeOK
          <5> QED
            BY <1>2, <3>2, <5>1
        <4> QED
          BY <1>2, <3>2, <4>1
      <3> QED
        BY <3>1, <3>2
    <2>3. go' \in [Items -> {"none", "fetching", "answered", "done"}]
      BY <1>1, <1>2 DEF TypeOK
    <2> QED
      BY <1>1, <2>1, <2>2, <2>3 DEF TypeOK
  <1>9. SlotsOK'
    <2> SUFFICES ASSUME NEW g \in Bounded
                 PROVE  IsFiniteSet(Holding(g)') /\ slots'[g] = Cardinality(Holding(g)')
      BY DEF SlotsOK
    <2>1. CASE ~Queued(m) \/ g # f
      <3>1. Holding(g)' = Holding(g)
        BY <1>4, <1>5, <1>7, <2>1 DEF Holding
      <3>2. slots'[g] = slots[g]
        BY <1>2, <2>1
      <3> QED
        BY <3>1, <3>2 DEF SlotsOK
    <2>2. CASE Queued(m) /\ g = f
      <3>1. Holding(g)' = Holding(g) \union {m} /\ m \notin Holding(g)
        BY <1>1, <1>4, <1>5, <1>7, <2>2 DEF Holding
      <3>2. slots'[g] = slots[g] + 1
        BY <1>2, <2>2
      <3>3. IsFiniteSet(Holding(g)) /\ slots[g] = Cardinality(Holding(g))
        BY DEF SlotsOK
      <3> HIDE DEF Holding
      <3> QED
        BY <3>1, <3>2, <3>3, FS_AddElement
    <2> QED
      BY <2>1, <2>2
  <1>10. \A d \in Blocks : BlockOK(d)'
    BY <1>1 DEF BlockOK, Parts
  <1>11. ASSUME NEW g \in FanOuts PROVE FanOutOK(g)'
    <2>1. CASE g # f
      <3>1. Ran(g)' = Ran(g)
        BY <1>4, <1>7, <2>1 DEF Ran
      <3> QED
        BY <1>1, <1>6, <2>1, <3>1 DEF FanOutOK, Passed
    <2>2. CASE g = f
      <3>1. at[Block(f)] = f /\ at'[Block(f)] = f
        BY <1>1, <1>3 DEF f
      <3>2. f \notin {"done", After(f)}
        BY <1>1, StageFacts, BlockFacts DEF After
      <3> QED
        BY <2>2, <3>1, <3>2 DEF FanOutOK, Passed
    <2> QED
      BY <2>1, <2>2
  <1>12. ASSUME NEW n \in Items PROVE MemberOK(n)'
    <2>1. Queued(n)' = Queued(n) /\ out' = out
      BY <1>1 DEF Queued
    <2>2. CASE n = m
      BY <1>4, <1>5, <1>6, <1>7, <2>1, <2>2 DEF MemberOK, Come
    <2>3. CASE n # m
      <3>1. n[1] = f => n[2] # next[f]
        BY <2>3, ItemFacts DEF m
      <3>2. n[2] < next'[n[1]] <=> n[2] < next[n[1]]
        BY <1>4, <1>6, <3>1, ItemFacts
      <3> QED
        BY <1>7, <2>1, <2>3, <3>2 DEF MemberOK, Come
    <2> QED
      BY <2>2, <2>3
  <1>13. HandlerOK'
    BY <1>1 DEF HandlerOK, Works
  <1> QED
    BY <1>8, <1>9, <1>10, <1>11, <1>12, <1>13

\* A fan-out whose goroutines have not all ended has not been left.
LEMMA NotPassed ==
    ASSUME IInv, NEW m \in Items, go[m] \notin {"none", "done"}
    PROVE  ~Passed(m[1])
  BY ItemFacts DEF IInv, FanOutOK, Ran

\* The row is written.  What a controller brings changes which disks are to be
\* asked for, but their turn has not come.
LEMMA FetchInvariant ==
    ASSUME IInv, NEW m \in Items, FetchMember(m) PROVE IInv'
  <1> USE DEF IInv
  <1>1. go[m] = "fetching" /\ go' = [go EXCEPT ![m] = "answered"]
        /\ UNCHANGED <<request, handler, live, at, result, next, slots>>
    BY DEF FetchMember
  <1>2. PICK row \in {"zero", "named", "full"} :
           out' = [out EXCEPT ![m] = row] /\ (m[1] # "controllers" => row # "zero")
    BY DEF FetchMember
  <1>3. go'[m] = "answered" /\ out'[m] = row
        /\ \A n \in Items : n # m => go'[n] = go[n] /\ out'[n] = out[n]
    BY <1>1, <1>2 DEF TypeOK
  <1>4. TypeOK'
    BY <1>1, <1>2 DEF TypeOK
  <1>5. SlotsOK'
    <2>1. ASSUME NEW g \in Bounded PROVE Holding(g)' = Holding(g)
      BY <1>1, <1>3 DEF Holding
    <2> QED
      BY <1>1, <2>1 DEF SlotsOK
  <1>6. \A d \in Blocks : BlockOK(d)'
    BY <1>1 DEF BlockOK, Parts
  <1>7. ASSUME NEW g \in FanOuts PROVE FanOutOK(g)'
    <2>1. CASE g = m[1]
      BY <1>1, <2>1, NotPassed DEF FanOutOK, Passed
    <2>2. CASE g # m[1]
      <3>1. Ran(g)' = Ran(g)
        BY <1>3, <2>2 DEF Ran
      <3> QED
        BY <1>1, <3>1 DEF FanOutOK, Passed
    <2> QED
      BY <2>1, <2>2
  <1>8. ASSUME NEW n \in Items PROVE MemberOK(n)'
    <2>1. Come(n)' = Come(n)
      <3>1. CASE n[1] = "disks" /\ m[1] = "controllers"
        <4>1. ~Passed("controllers") /\ Block("disks") = "drives" /\ Block("controllers") = "drives"
          BY <1>1, <3>1, NotPassed DEF Block
        <4>2. ~(next["disks"] > 1)
          BY <4>1, StageFacts DEF FanOutOK, Passed, After, BlockOK, Blocks
        <4>3. next["disks"] \in Nat
          BY StageFacts DEF TypeOK
        <4>4. ~(n[2] < next["disks"])
          BY <4>2, <4>3, ItemFacts
        <4> QED
          BY <1>1, <3>1, <4>4 DEF Come
      <3>2. CASE n[1] # "disks"
        BY <1>1, <3>2 DEF Come, Queued
      <3>3. CASE n[1] = "disks" /\ m[1] # "controllers"
        <4>1. ASSUME NEW i PROVE out'[<<"controllers", i>>] = out[<<"controllers", i>>]
          BY <1>2, <3>3 DEF TypeOK
        <4> QED
          BY <1>1, <3>3, <4>1 DEF Come, Queued
      <3> QED
        BY <3>1, <3>2, <3>3
    <2>2. CASE n = m
      <3>1. Come(m)
        BY <1>1 DEF MemberOK
      <3> QED
        BY <1>2, <1>3, <2>1, <2>2, <3>1 DEF MemberOK
    <2>3. CASE n # m
      BY <1>3, <2>1, <2>3 DEF MemberOK
    <2> QED
      BY <2>2, <2>3
  <1>9. HandlerOK'
    BY <1>1 DEF HandlerOK, Parts
  <1> QED
    BY <1>4, <1>5, <1>6, <1>7, <1>8, <1>9

\* The slot is given back by the goroutine that held it.
LEMMA EndInvariant ==
    ASSUME IInv, NEW m \in Items, EndMember(m) PROVE IInv'
  <1> USE DEF IInv
  <1>1. /\ go[m] = "answered" /\ go' = [go EXCEPT ![m] = "done"]
        /\ slots' = [g \in Bounded |-> IF g = m[1] THEN slots[g] - 1 ELSE slots[g]]
        /\ UNCHANGED <<request, handler, live, at, result, next, out>>
    BY DEF EndMember
  <1>2. go'[m] = "done" /\ \A n \in Items : n # m => go'[n] = go[n]
    BY <1>1 DEF TypeOK
  <1>3. SlotsOK'
    <2> SUFFICES ASSUME NEW g \in Bounded
                 PROVE  IsFiniteSet(Holding(g)') /\ slots'[g] = Cardinality(Holding(g)')
      BY DEF SlotsOK
    <2>1. CASE g # m[1]
      <3>1. Holding(g)' = Holding(g)
        BY <1>1, <1>2, <2>1 DEF Holding
      <3> QED
        BY <1>1, <2>1, <3>1 DEF SlotsOK
    <2>2. CASE g = m[1]
      <3>1. Holding(g)' = Holding(g) \ {m} /\ m \in Holding(g)
        BY <1>1, <1>2, <2>2 DEF Holding
      <3>2. IsFiniteSet(Holding(g)) /\ slots[g] = Cardinality(Holding(g))
        BY DEF SlotsOK
      <3>3. slots'[g] = slots[g] - 1
        BY <1>1, <2>2
      <3> HIDE DEF Holding
      <3> QED
        BY <3>1, <3>2, <3>3, FS_RemoveElement
    <2> QED
      BY <2>1, <2>2
  <1>4. TypeOK'
    <2>1. ASSUME NEW g \in Bounded PROVE slots'[g] \in 0..Limit
      <3>1. CASE g # m[1]
        BY <1>1, <3>1 DEF TypeOK
      <3>2. CASE g = m[1]
        <4>1. slots'[g] \in Nat
          <5>1. IsFiniteSet(Holding(g)') /\ slots'[g] = Cardinality(Holding(g)')
            BY <1>3 DEF SlotsOK
          <5> QED
            BY <5>1, FS_CardinalityType
        <4> QED
          BY <1>1, <3>2, <4>1, FetchAssumption DEF TypeOK
      <3> QED
        BY <3>1, <3>2
    <2>2. slots' \in [Bounded -> 0..Limit]
      BY <1>1, <2>1
    <2> QED
      BY <1>1, <2>2 DEF TypeOK
  <1>5. \A d \in Blocks : BlockOK(d)'
    BY <1>1 DEF BlockOK, Parts
  <1>6. ASSUME NEW g \in FanOuts PROVE FanOutOK(g)'
    <2>1. CASE g = m[1]
      BY <1>1, <2>1, NotPassed DEF FanOutOK, Passed
    <2>2. CASE g # m[1]
      <3>1. Ran(g)' = Ran(g)
        BY <1>2, <2>2 DEF Ran
      <3> QED
        BY <1>1, <3>1 DEF FanOutOK, Passed
    <2> QED
      BY <2>1, <2>2
  <1>7. ASSUME NEW n \in Items PROVE MemberOK(n)'
    BY <1>1, <1>2 DEF MemberOK, Come, Queued
  <1>8. HandlerOK'
    BY <1>1 DEF HandlerOK, Parts
  <1> QED
    BY <1>3, <1>4, <1>5, <1>6, <1>7, <1>8

LEMMA StutterInvariant ==
    ASSUME IInv, UNCHANGED vars PROVE IInv'
  <1> USE DEF IInv, vars
  <1>1. TypeOK'
    BY DEF TypeOK
  <1>2. SlotsOK'
    BY DEF SlotsOK, Holding
  <1>3. \A b \in Blocks : BlockOK(b)'
    BY DEF BlockOK, Parts
  <1>4. \A f \in FanOuts : FanOutOK(f)'
    BY DEF FanOutOK, Passed, Ran
  <1>5. \A m \in Items : MemberOK(m)'
    BY DEF MemberOK, Come, Queued
  <1>6. HandlerOK'
    BY DEF HandlerOK, Parts
  <1> QED
    BY <1>1, <1>2, <1>3, <1>4, <1>5, <1>6

LEMMA StepInvariant ==
    ASSUME IInv, [Next]_vars PROVE IInv'
  BY HandlerInvariant, DocumentInvariant, StartInvariant, JoinInvariant, FetchInvariant,
     EndInvariant, StutterInvariant DEF Next, BlockStep, MemberStep

\* The inductive invariant holds in every behaviour.
THEOREM Invariant == Spec => []IInv
  BY InitInvariant, StepInvariant, PTL DEF Spec

---------------------------------------------------------------------------
(* The properties *)

\* Every variable is in its set; no fan-out runs past its end, and the slots
\* taken are between none and all: fetchMembers.
THEOREM TypeCorrect == Spec => []TypeOK
  <1>1. IInv => TypeOK
    BY DEF IInv
  <1> QED
    BY <1>1, Invariant, PTL

\* Of one collection never more than Limit members are asked for at a time:
\* the semaphore of fetchMembers.
THEOREM CappedCorrect == Spec => []Capped
  <1>1. IInv => Capped
    <2> SUFFICES ASSUME IInv, NEW f \in Bounded
                 PROVE  Cardinality({m \in Items : m[1] = f /\ go[m] = "fetching"}) <= Limit
      BY DEF Capped
    <2> DEFINE F == {m \in Items : m[1] = f /\ go[m] = "fetching"}
    <2>1. F \subseteq Holding(f)
      BY DEF Holding
    <2>2. IsFiniteSet(Holding(f)) /\ Cardinality(Holding(f)) \in 0..Limit
      BY DEF IInv, SlotsOK, TypeOK
    <2> HIDE DEF F
    <2>3. IsFiniteSet(F) /\ Cardinality(F) <= Cardinality(Holding(f))
      BY <2>1, <2>2, FS_Subset
    <2>4. Cardinality(F) \in Nat
      BY <2>3, FS_CardinalityType
    <2>5. Cardinality(F) <= Limit
      BY <2>2, <2>3, <2>4, FetchAssumption
    <2> QED
      BY <2>5 DEF F
  <1> QED
    BY <1>1, Invariant, PTL

\* When the answer is written every goroutine has ended, and a block without an
\* error has a row for each member it could ask for: Hardware, Health, Drives.
THEOREM AnswerIsSettledCorrect == Spec => []AnswerIsSettled
  <1>1. IInv => AnswerIsSettled
    <2> SUFFICES ASSUME IInv, handler = "sent" PROVE AnswerIsSettled
      BY DEF AnswerIsSettled
    <2> USE DEF IInv
    <2>1. \A b \in Parts : at[b] = "done"
      BY DEF HandlerOK
    <2>2. ASSUME NEW b \in Parts PROVE result[b] # "pending"
      BY <2>1, <2>2 DEF BlockOK, Parts, Blocks
    <2>3. ASSUME NEW m \in Items
          PROVE  /\ go[m] \in {"none", "done"}
                 /\ IF result[Block(m[1])] = "listed" /\ Queued(m)
                    THEN m[1] # "controllers" => out[m] # "zero"
                    ELSE out[m] = "zero"
      <3> DEFINE f == m[1]
      <3>1. f \in FanOuts /\ m[2] \in 1..Size[f] /\ Size[f] \in Nat
        BY ItemFacts, FetchAssumption
      <3> HIDE DEF f
      <3>2. CASE result[Block(f)] = "listed"
        <4>1. at[Block(f)] = "done"
          BY <2>1, <3>1, <3>2, BlockFacts DEF BlockOK
        <4>2. next[f] = Size[f] + 1 /\ Ran(f)
          BY <3>1, <3>2, <4>1 DEF FanOutOK, Passed
        <4>3. go[m] \in {"none", "done"}
          BY <4>2 DEF Ran, f
        <4>4. m[2] < next[f]
          BY <3>1, <4>2
        <4>5. go[m] = "done" <=> Queued(m)
          BY <4>3, <4>4 DEF MemberOK, Come, f
        <4> QED
          BY <3>2, <4>3, <4>5 DEF MemberOK, f
      <3>3. CASE result[Block(f)] # "listed"
        <4>1. ~(next[f] > 1)
          BY <3>1, <3>3, BlockFacts DEF FanOutOK, Passed, BlockOK
        <4>2. go[m] = "none"
          BY <3>1, <4>1 DEF MemberOK, Come, TypeOK, f
        <4> QED
          BY <3>3, <4>2 DEF MemberOK, f
      <3> QED
        BY <3>2, <3>3
    <2> QED
      BY <2>2, <2>3 DEF AnswerIsSettled
  <1> QED
    BY <1>1, Invariant, PTL
\* A block that waits has a goroutine of its own in flight: the slots it lacks
\* are held by them, and its wait group counts them.
THEOREM AwaitedCorrect == Spec => []Awaited
  <1>1. IInv => Awaited
    <2> SUFFICES ASSUME IInv, NEW b \in Blocks, Waits(b)
                 PROVE  \E m \in Items : m[1] = at[b] /\ go[m] \in {"fetching", "answered"}
      BY DEF Awaited
    <2> USE DEF IInv
    <2> DEFINE f == at[b]
    <2>1. /\ f \in FanOuts
          /\ next[f] > Size[f] => ~Ran(f)
          /\ ~(next[f] > Size[f]) => f \in Bounded /\ slots[f] >= Limit
      BY DEF Waits
    <2> HIDE DEF f
    <2>2. CASE next[f] > Size[f]
      BY <2>1, <2>2 DEF Ran, TypeOK, f
    <2>3. CASE ~(next[f] > Size[f])
      <3>1. IsFiniteSet(Holding(f)) /\ slots[f] = Cardinality(Holding(f)) /\ slots[f] \in 0..Limit
        BY <2>1, <2>3 DEF SlotsOK, TypeOK
      <3>2. Cardinality(Holding(f)) # 0
        BY <2>1, <2>3, <3>1, FetchAssumption
      <3>3. Holding(f) # {}
        BY <3>2, FS_EmptySet
      <3>4. PICK m \in Holding(f) : TRUE
        BY <3>3
      <3> QED
        BY <3>4 DEF Holding, f
    <2> QED
      BY <2>2, <2>3
  <1> QED
    BY <1>1, Invariant, PTL

---------------------------------------------------------------------------
(***************************************************************************)
(* No way back.  Every step takes the handler, the context, a block, a     *)
(* fan-out or a goroutine forward and none of them back, so that there is  *)
(* an end to the steps of a request as there is to its blocks and members: *)
(* with Awaited this is what RequestEnds needs besides fairness.           *)
(***************************************************************************)
Before(s, t) ==
    \/ s = "root" /\ t # "root"
    \/ s = "members" /\ t \notin {"root", "members"}
    \/ s = "resource" /\ t \notin {"root", "members", "resource"}
    \/ s = "controllers" /\ t = "disks"
    \/ s \in FanOuts /\ t = "done"

HandlerMoves == {<<"row", "creds">>, <<"creds", "fetch">>, <<"fetch", "sent">>,
                 <<"row", "refused">>, <<"creds", "refused">>}

MemberMoves == {<<"none", "fetching">>, <<"fetching", "answered">>, <<"answered", "done">>}

Stays == <<handler, live, at, next, go>>' = <<handler, live, at, next, go>>

Onward ==
    /\ handler' = handler \/ <<handler, handler'>> \in HandlerMoves
    /\ live' => live
    /\ \A b \in Blocks : at'[b] = at[b] \/ Before(at[b], at'[b])
    /\ \A f \in FanOuts : next'[f] >= next[f]
    /\ \A m \in Items : go'[m] = go[m] \/ <<go[m], go'[m]>> \in MemberMoves
    /\ ~Stays

\* A walk never comes back to a stage it has left.
LEMMA BeforeOrders ==
    /\ \A s : ~Before(s, s)
    /\ \A s, t, u : Before(s, t) /\ Before(t, u) => Before(s, u)
  <1>1. /\ FanOuts \intersect {"root", "members", "resource", "done"} = {}
        /\ "controllers" \in FanOuts /\ "disks" \in FanOuts
    BY FetchAssumption DEF FanOuts
  <1> QED
    BY <1>1 DEF Before

LEMMA OnwardHandler ==
    ASSUME TypeOK, LookUp \/ Answer \/ EndContext PROVE Onward
  <1>1. UNCHANGED <<at, next, go>> /\ (live' => live)
    BY DEF LookUp, Answer, EndContext
  <1>2. \A f \in FanOuts : next'[f] >= next[f]
    BY <1>1 DEF TypeOK
  <1>3. handler' = handler \/ <<handler, handler'>> \in HandlerMoves
    BY DEF LookUp, Answer, EndContext, HandlerMoves
  <1>4. ~Stays
    BY DEF LookUp, Answer, EndContext, Stays
  <1> QED
    BY <1>1, <1>2, <1>3, <1>4 DEF Onward

LEMMA OnwardBlock ==
    ASSUME TypeOK, NEW b \in Blocks, Locate(b) \/ ReadResource(b) \/ Join(b) PROVE Onward
  <1>1. UNCHANGED <<handler, live, next, go>>
    BY DEF Locate, ReadResource, Join
  <1>2. PICK s : at' = [at EXCEPT ![b] = s] /\ Before(at[b], s)
    <2>1. /\ FanOuts \intersect {"root", "members", "resource", "done"} = {}
          /\ "controllers" \in FanOuts
      BY FetchAssumption DEF FanOuts
    <2>2. CASE Locate(b)
      <3>1. at[b] \in {"root", "members"}
        BY <2>2 DEF Locate
      <3>2. \/ at' = [at EXCEPT ![b] = IF at[b] = "root" THEN "members" ELSE "resource"]
            \/ at' = [at EXCEPT ![b] = "done"]
        BY <2>2 DEF Locate, Finish
      <3> QED
        BY <3>1, <3>2 DEF Before
    <2>3. CASE ReadResource(b)
      <3>1. at[b] = "resource"
        BY <2>3 DEF ReadResource
      <3>2. \/ at' = [at EXCEPT ![b] = "done"]
            \/ /\ b \notin Sensors
               /\ at' = [at EXCEPT ![b] = IF b = "drives" THEN "controllers" ELSE b]
        BY <2>3 DEF ReadResource, Finish
      <3>3. b \notin Sensors /\ b # "drives" => b \in FanOuts
        BY DEF Blocks, FanOuts
      <3> QED
        BY <2>1, <3>1, <3>2, <3>3 DEF Before
    <2>4. CASE Join(b)
      <3>1. at[b] \in FanOuts /\ at' = [at EXCEPT ![b] = After(at[b])]
        BY <2>4 DEF Join
      <3> QED
        BY <3>1 DEF Before, After
    <2> QED
      BY <2>2, <2>3, <2>4
  <1>3. at'[b] = s /\ \A d \in Blocks : d # b => at'[d] = at[d]
    BY <1>2 DEF TypeOK
  <1>4. s # at[b]
    BY <1>2, BeforeOrders
  <1>5. ~Stays
    BY <1>3, <1>4 DEF Stays
  <1>6. \A f \in FanOuts : next'[f] >= next[f]
    BY <1>1 DEF TypeOK
  <1> QED
    BY <1>1, <1>2, <1>3, <1>5, <1>6 DEF Onward

LEMMA OnwardStart ==
    ASSUME IInv, NEW b \in Blocks, StartMember(b) PROVE Onward
  <1> DEFINE f == at[b]
             m == <<f, next[f]>>
  <1>1. /\ f \in FanOuts /\ m \in Items
        /\ next' = [next EXCEPT ![f] = @ + 1]
        /\ UNCHANGED <<handler, live, at>>
        /\ go' = go \/ go' = [go EXCEPT ![m] = "fetching"]
    BY DEF StartMember
  <1>2. TypeOK /\ \A n \in Items : MemberOK(n)
    BY DEF IInv
  <1>3. next[f] \in Nat /\ go[m] = "none"
    <2>1. next[f] \in Nat
      BY <1>1, <1>2 DEF TypeOK
    <2>2. ~Come(m)
      BY <2>1 DEF Come
    <2> QED
      BY <1>1, <1>2, <2>1, <2>2 DEF MemberOK
  <1> HIDE DEF f, m
  <1>4. next'[f] = next[f] + 1 /\ \A g \in FanOuts : g # f => next'[g] = next[g]
    BY <1>1, <1>2 DEF TypeOK
  <1>5. \A g \in FanOuts : next'[g] >= next[g]
    BY <1>2, <1>3, <1>4 DEF TypeOK
  <1>6. \A n \in Items : go'[n] = go[n] \/ <<go[n], go'[n]>> \in MemberMoves
    BY <1>1, <1>2, <1>3 DEF TypeOK, MemberMoves
  <1>7. ~Stays
    BY <1>3, <1>4 DEF Stays
  <1> QED
    BY <1>1, <1>5, <1>6, <1>7 DEF Onward

LEMMA OnwardMember ==
    ASSUME TypeOK, NEW m \in Items, MemberStep(m) PROVE Onward
  <1>1. UNCHANGED <<handler, live, at, next>>
    BY DEF MemberStep, FetchMember, EndMember
  <1>2. PICK s : go' = [go EXCEPT ![m] = s] /\ <<go[m], s>> \in MemberMoves /\ s # go[m]
    BY DEF MemberStep, FetchMember, EndMember, MemberMoves
  <1>3. go'[m] = s /\ \A n \in Items : n # m => go'[n] = go[n]
    BY <1>2 DEF TypeOK
  <1>4. \A f \in FanOuts : next'[f] >= next[f]
    BY <1>1 DEF TypeOK
  <1>5. ~Stays
    BY <1>2, <1>3 DEF Stays
  <1> QED
    BY <1>1, <1>2, <1>3, <1>4, <1>5 DEF Onward

\* Every step of a request is one of finitely many (Hardware, Health and the
\* goroutines they start): nothing is read twice and nothing begun again.
THEOREM MovesOnward == Spec => [][Onward]_vars
  <1>1. IInv /\ [Next]_vars => [Onward]_vars
    <2> SUFFICES ASSUME IInv, Next PROVE Onward
      OBVIOUS
    <2>1. TypeOK
      BY DEF IInv
    <2> QED
      BY <2>1, OnwardHandler, OnwardBlock, OnwardStart, OnwardMember DEF Next, BlockStep
  <1> QED
    BY <1>1, Invariant, PTL DEF Spec
===========================================================================
