---------------------------- MODULE WorldProofs ----------------------------
(***************************************************************************)
(* Proofs about WorldAuthority and WorldReplication, for any number of     *)
(* players, settlements, objects and hostiles.                             *)
(*                                                                         *)
(* The service.  The inductive invariant WInv is the conjunction of what   *)
(* the run WorldObjects checks: a build takes a net id that no object has  *)
(* because every id in use lies below the counter, a scrap lowers the      *)
(* count of the right settlement because a net id names one slot, and a    *)
(* tick removes at most the one actor this iteration killed because no     *)
(* corpse was left.                                                        *)
(*                                                                         *)
(* The clients.  What a client will show is its view after the datagrams   *)
(* in flight (Settled).  A delivery does not change it, so only what an    *)
(* iteration sends counts: its outputs, applied to a view that agreed with *)
(* the service before, give one that agrees with it after (ObjectsLead,    *)
(* ActorsLead).  Of objects that holds message by message.  Of actors it   *)
(* does not - a replay's spawn shows full health, a death shows a corpse - *)
(* and the proofs follow whole blocks: the spawn with its state, the       *)
(* damage with its state, the death with its despawn.                      *)
(***************************************************************************)
EXTENDS WorldReplication, SharedLemmas, FiniteSetTheorems, TLAPS

\* The inductive invariant.
WInv ==
    /\ TypeOK
    /\ BudgetIsKept
    /\ NetIdsAreUnique
    /\ NoCorpseStays

-----------------------------------------------------------------------------
(***************************************************************************)
(* Slots and counts                                                        *)
(***************************************************************************)

LEMMA NoObjectIsAnObject == NoObject \in ObjectRecord
  BY WorldAssumption DEF NoObject, ObjectRecord

\* The objects of a settlement can be counted.
LEMMA ObjectsAreFinite ==
    ASSUME NEW s
    PROVE  IsFiniteSet(ObjectsOf(s)) /\ Cardinality(ObjectsOf(s)) \in Nat
<1>1. IsFiniteSet(ObjectSlots)
  BY FS_Interval, WorldAssumption DEF ObjectSlots
<1>2. ObjectsOf(s) \subseteq ObjectSlots
  BY DEF ObjectsOf, InUse
<1>. QED  BY <1>1, <1>2, FS_Subset, FS_CardinalityType

\* A search over the object slots that can succeed returns one of them.
LEMMA SearchFindsSlot ==
    ASSUME NEW S, S \subseteq ObjectSlots, S # {}
    PROVE  Min(S) \in S
<1>1. S \subseteq Nat
  BY WorldAssumption DEF ObjectSlots
<1>. QED  BY <1>1, MinIsLeast

-----------------------------------------------------------------------------
(***************************************************************************)
(* Ticks                                                                   *)
(***************************************************************************)

\* The tick of ac_tick takes no actor away unless it was marked before, and
\* dooms only the corpse of this iteration.
LEMMA TickDooms ==
    ASSUME NEW as \in [Actors -> ActorRecord], NEW t,
           \A a \in Actors : as[a].in_use => ~as[a].pending /\ (as[a].dead => a = t)
    PROVE  /\ Doomed(ac_tick(as)) \subseteq {t}
           /\ \A a \in Actors : as[a].in_use => ac_tick(as)[a].in_use
<1> DEFINE ts == ac_tick(as)
<1>1. ASSUME NEW a \in Actors, ~(as[a].in_use /\ as[a].dead)
      PROVE  ts[a] = as[a]
  BY <1>1 DEF ac_tick
<1>2. ASSUME NEW a \in Actors, as[a].in_use, as[a].dead
      PROVE  ts[a].in_use
  <2>1. ts[a] = [as[a] EXCEPT !.pending = TRUE] /\ as[a] \in ActorRecord
    BY <1>2 DEF ac_tick
  <2>. QED  BY <1>2, <2>1 DEF ActorRecord
<1>3. Doomed(ts) \subseteq {t}
  <2> SUFFICES ASSUME NEW a \in Doomed(ts)  PROVE a = t
    OBVIOUS
  <2>1. a \in Actors /\ ts[a].in_use /\ ts[a].pending /\ ts[a].dead
    BY DEF Doomed
  <2>2. CASE as[a].in_use /\ as[a].dead
    BY <2>1, <2>2
  <2>3. CASE ~(as[a].in_use /\ as[a].dead)
    BY <2>1, <2>3, <1>1
  <2>. QED  BY <2>2, <2>3
<1>. QED  BY <1>1, <1>2, <1>3

\* A tick after a handler that left at most one corpse, t, not yet marked:
\* the corpse is marked, despawned and forgotten in one go.
LEMMA TickClears ==
    ASSUME NEW as \in [Actors -> ActorRecord], NEW t,
           \A a \in Actors : as[a].in_use => ~as[a].pending /\ (as[a].dead => a = t),
           NEW cs, NEW out, NEW base,
           tl_tick(as, cs, out, base)
    PROVE  actors' \in [Actors -> ActorRecord] /\ NoCorpseStays'
<1> DEFINE ts == ac_tick(as)
           gone == Despawned(ts)
<1>1. actors' = [a \in Actors |-> IF a \in gone THEN NoActor ELSE ts[a]]
  BY DEF tl_tick
<1>2. NoActor \in ActorRecord /\ ~NoActor.in_use
  BY DEF NoActor, ActorRecord, Full
<1>3. ASSUME NEW a \in Actors, as[a].in_use, as[a].dead
      PROVE  ts[a] = [as[a] EXCEPT !.pending = TRUE]
  BY <1>3 DEF ac_tick
<1>4. ASSUME NEW a \in Actors, ~(as[a].in_use /\ as[a].dead)
      PROVE  ts[a] = as[a]
  BY <1>4 DEF ac_tick
<1>5. ASSUME NEW a \in Actors  PROVE ts[a] \in ActorRecord
  <2>1. as[a] \in ActorRecord
    OBVIOUS
  <2>2. [as[a] EXCEPT !.pending = TRUE] \in ActorRecord
    BY <2>1 DEF ActorRecord
  <2>. QED  BY <2>1, <2>2, <1>3, <1>4
<1>6. Doomed(ts) \subseteq {t}
  BY TickDooms
<1>7. gone = Doomed(ts)
  <2> SUFFICES ASSUME NEW a \in Doomed(ts)
               PROVE  Cardinality({b \in Doomed(ts) : b <= a}) <= MaxDespawn
    BY DEF Despawned
  <2>1. {b \in Doomed(ts) : b <= a} = {a}
    <3>1. a \in Nat
      BY WorldAssumption DEF Doomed
    <3>2. a <= a
      BY <3>1
    <3> HIDE DEF ts
    <3>. QED  BY <1>6, <3>2
  <2>2. Cardinality({a}) = 1
    BY FS_Singleton
  <2>3. 1 <= MaxDespawn
    BY WorldAssumption
  <2>4. Cardinality({b \in Doomed(ts) : b <= a}) = 1
    BY <2>1, <2>2, Zenon
  <2>. QED  BY <2>3, <2>4, Zenon
<1>8. ASSUME NEW a \in Actors, actors'[a].in_use
      PROVE  ~actors'[a].dead /\ ~actors'[a].pending
  <2>1. a \notin gone /\ actors'[a] = ts[a]
    <3> HIDE DEF ts, gone
    <3>. QED  BY <1>1, <1>2, <1>8
  <2>2. ts[a].in_use /\ ~(ts[a].pending /\ ts[a].dead)
    BY <2>1, <1>7, <1>8 DEF Doomed
  <2>3. CASE as[a].in_use /\ as[a].dead
    <3>1. as[a] \in ActorRecord
      OBVIOUS
    <3>2. ts[a] = [as[a] EXCEPT !.pending = TRUE]
      BY <2>3, <1>3
    <3> HIDE DEF ts
    <3>3. ts[a].pending = TRUE /\ ts[a].dead = as[a].dead
      BY <3>1, <3>2 DEF ActorRecord
    <3>. QED  BY <2>2, <2>3, <3>3
  <2>4. CASE ~(as[a].in_use /\ as[a].dead)
    BY <2>1, <2>2, <2>4, <1>4
  <2>. QED  BY <2>3, <2>4
<1>9. actors' \in [Actors -> ActorRecord]
  <2> HIDE DEF ts, gone
  <2>. QED  BY <1>1, <1>2, <1>5
<1>. QED  BY <1>8, <1>9 DEF NoCorpseStays

\* A tick after a handler that left the actors alone.
LEMMA QuietTick ==
    ASSUME TypeOK, NoCorpseStays, NEW cs, NEW out, NEW base,
           tl_tick(actors, cs, out, base)
    PROVE  actors' \in [Actors -> ActorRecord] /\ NoCorpseStays'
<1>1. actors \in [Actors -> ActorRecord]
  BY DEF TypeOK
<1>2. \A a \in Actors : actors[a].in_use =>
          ~actors[a].pending /\ (actors[a].dead => a = 0)
  BY DEF NoCorpseStays
<1>. QED  BY <1>1, <1>2, TickClears

\* The properties of objects depend on the objects, the counts and the counter.
LEMMA ObjectsUntouched ==
    ASSUME WInv, UNCHANGED <<objects, count>>,
           nextObject' \in 1 .. MaxNetId, nextObject' >= nextObject
    PROVE  /\ objects' \in [ObjectSlots -> ObjectRecord]
           /\ count' \in [Settlements -> Nat]
           /\ BudgetIsKept' /\ NetIdsAreUnique'
<1>1. BudgetIsKept'
  BY DEF WInv, BudgetIsKept, ObjectsOf, InUse
<1>2. NetIdsAreUnique'
  <2>1. \A i \in InUse(objects) : objects[i].id \in Nat
    BY DEF WInv, TypeOK, ObjectRecord, InUse
  <2>2. nextObject \in Nat /\ nextObject' \in Nat
    BY WorldAssumption DEF WInv, TypeOK
  <2>. QED  BY <2>1, <2>2 DEF WInv, NetIdsAreUnique, InUse
<1>. QED  BY <1>1, <1>2 DEF WInv, TypeOK

-----------------------------------------------------------------------------
(***************************************************************************)
(* The workshop's handlers                                                 *)
(***************************************************************************)

\* ac_handle_build_request: a free slot, a fresh net id, one more object.
LEMMA BuildKeepsBooks ==
    ASSUME WInv, NEW s \in Settlements, NEW p \in Places,
           nextObject < MaxNetId, count[s] < Budget[s],
           ObjectSlots \ InUse(objects) # {},
           objects' = ws_alloc_object(objects, nextObject, s, p),
           nextObject' = nextObject + 1,
           count' = [count EXCEPT ![s] = @ + 1]
    PROVE  /\ objects' \in [ObjectSlots -> ObjectRecord]
           /\ count' \in [Settlements -> Nat]
           /\ nextObject' \in 1 .. MaxNetId
           /\ BudgetIsKept' /\ NetIdsAreUnique'
<1> DEFINE k == Min(ObjectSlots \ InUse(objects))
           new == [in_use |-> TRUE, id |-> nextObject, settlement |-> s,
                   place |-> p, moved |-> FALSE]
<1>1. k \in ObjectSlots \ InUse(objects)
  BY SearchFindsSlot
<1>2. /\ objects \in [ObjectSlots -> ObjectRecord]
      /\ count \in [Settlements -> Nat]
      /\ nextObject \in 1 .. MaxNetId
      /\ nextObject \in Nat /\ MaxNetId \in Nat
  BY WorldAssumption DEF WInv, TypeOK
<1>3. objects' = [objects EXCEPT ![k] = new]
  BY DEF ws_alloc_object
<1>4. new \in ObjectRecord
  BY <1>2 DEF ObjectRecord
<1>5. new.in_use = TRUE /\ new.id = nextObject /\ new.settlement = s
  OBVIOUS
<1> HIDE DEF k, new
<1>6. objects'[k] = new /\ \A i \in ObjectSlots : i # k => objects'[i] = objects[i]
  BY <1>1, <1>2, <1>3
<1>7. InUse(objects)' = InUse(objects) \cup {k}
  BY <1>1, <1>5, <1>6 DEF InUse
<1>8. ASSUME NEW x \in Settlements
      PROVE  count'[x] = Cardinality(ObjectsOf(x)') /\ count'[x] <= Budget[x]
  <2>1. /\ count[x] = Cardinality(ObjectsOf(x)) /\ count[x] <= Budget[x]
        /\ count[x] \in Nat /\ Budget[x] \in Nat
    BY <1>2, WorldAssumption DEF WInv, BudgetIsKept
  <2>2. CASE x = s
    <3>1. ObjectsOf(x)' = ObjectsOf(x) \cup {k}
      BY <1>1, <1>5, <1>6, <1>7, <2>2 DEF ObjectsOf, InUse
    <3>2. k \notin ObjectsOf(x)
      BY <1>1 DEF ObjectsOf
    <3>3. Cardinality(ObjectsOf(x)') = Cardinality(ObjectsOf(x)) + 1
      BY <3>1, <3>2, ObjectsAreFinite, FS_AddElement
    <3>4. count'[x] = count[x] + 1 /\ count[x] < Budget[x]
      BY <1>2, <2>2
    <3>. QED  BY <2>1, <3>3, <3>4
  <2>3. CASE x # s
    <3>1. ObjectsOf(x)' = ObjectsOf(x)
      BY <1>1, <1>5, <1>6, <1>7, <2>3 DEF ObjectsOf, InUse
    <3>2. count'[x] = count[x]
      BY <1>2, <2>3
    <3>. QED  BY <2>1, <3>1, <3>2
  <2>. QED  BY <2>2, <2>3
<1>9. \A i \in InUse(objects) : objects[i].id \in Nat /\ objects[i].id < nextObject
  BY <1>2 DEF WInv, NetIdsAreUnique, InUse, ObjectRecord
<1>10. NetIdsAreUnique'
  <2>1. \A i \in InUse(objects) : i # k /\ objects'[i] = objects[i]
    BY <1>1, <1>6 DEF InUse
  <2>2. \A i \in InUse(objects)' : objects'[i].id < nextObject'
    BY <1>2, <1>5, <1>6, <1>7, <1>9, <2>1
  <2>3. ASSUME NEW i \in InUse(objects)', NEW j \in InUse(objects)',
               objects'[i].id = objects'[j].id
        PROVE  i = j
    <3>1. CASE i = k /\ j # k
      BY <1>2, <1>5, <1>6, <1>7, <1>9, <2>1, <2>3, <3>1
    <3>2. CASE i # k /\ j = k
      BY <1>2, <1>5, <1>6, <1>7, <1>9, <2>1, <2>3, <3>2
    <3>3. CASE i # k /\ j # k
      BY <1>7, <2>1, <2>3, <3>3 DEF WInv, NetIdsAreUnique
    <3>. QED  BY <3>1, <3>2, <3>3
  <2>. QED  BY <2>2, <2>3 DEF NetIdsAreUnique
<1>11. count' \in [Settlements -> Nat] /\ nextObject' \in 1 .. MaxNetId
  BY <1>2
<1>. QED
  BY <1>2, <1>3, <1>4, <1>8, <1>10, <1>11 DEF BudgetIsKept

\* ac_handle_object_move: the object keeps its slot, its id and its settlement.
LEMMA MoveKeepsBooks ==
    ASSUME WInv, NEW i \in InUse(objects), NEW p \in Places,
           objects' = [objects EXCEPT ![i] = [@ EXCEPT !.place = p, !.moved = TRUE]],
           UNCHANGED <<count, nextObject>>
    PROVE  /\ objects' \in [ObjectSlots -> ObjectRecord]
           /\ BudgetIsKept' /\ NetIdsAreUnique'
<1> DEFINE new == [objects[i] EXCEPT !.place = p, !.moved = TRUE]
<1>1. i \in ObjectSlots /\ objects \in [ObjectSlots -> ObjectRecord]
  BY DEF WInv, TypeOK, InUse
<1>2. /\ new \in ObjectRecord
      /\ new.in_use = objects[i].in_use
      /\ new.id = objects[i].id
      /\ new.settlement = objects[i].settlement
  <2>1. objects[i] \in ObjectRecord
    BY <1>1
  <2>. QED  BY <2>1 DEF ObjectRecord
<1>3. objects' = [objects EXCEPT ![i] = new]
  OBVIOUS
<1> HIDE DEF new
<1>4. \A j \in ObjectSlots : /\ objects'[j].in_use = objects[j].in_use
                             /\ objects'[j].id = objects[j].id
                             /\ objects'[j].settlement = objects[j].settlement
  BY <1>1, <1>2, <1>3
<1>5. InUse(objects)' = InUse(objects)
  BY <1>4 DEF InUse
<1>6. ASSUME NEW s  PROVE ObjectsOf(s)' = ObjectsOf(s)
  BY <1>4, <1>5 DEF ObjectsOf, InUse
<1>7. BudgetIsKept'
  BY <1>6 DEF WInv, BudgetIsKept
<1>8. NetIdsAreUnique'
  BY <1>4, <1>5 DEF WInv, NetIdsAreUnique, InUse
<1>. QED  BY <1>1, <1>2, <1>3, <1>7, <1>8

\* ac_handle_object_scrap: the net id names one slot, so the count that is
\* lowered is the one of the settlement that loses the object.
LEMMA ScrapKeepsBooks ==
    ASSUME WInv, NEW i \in InUse(objects),
           objects' = [objects EXCEPT ![i] = NoObject],
           count' = [count EXCEPT ![objects[i].settlement] = IF @ > 0 THEN @ - 1 ELSE 0],
           UNCHANGED nextObject
    PROVE  /\ objects' \in [ObjectSlots -> ObjectRecord]
           /\ count' \in [Settlements -> Nat]
           /\ BudgetIsKept' /\ NetIdsAreUnique'
<1> DEFINE s == objects[i].settlement
<1>1. /\ i \in ObjectSlots
      /\ objects \in [ObjectSlots -> ObjectRecord]
      /\ count \in [Settlements -> Nat]
  BY DEF WInv, TypeOK, InUse
<1>2. objects[i] \in ObjectRecord
  BY <1>1
<1>3. s \in Settlements
  BY <1>2 DEF ObjectRecord
<1>4. NoObject.in_use = FALSE
  BY DEF NoObject
<1>5. objects'[i] = NoObject /\ \A j \in ObjectSlots : j # i => objects'[j] = objects[j]
  BY <1>1
<1>6. InUse(objects)' = InUse(objects) \ {i}
  BY <1>1, <1>4, <1>5 DEF InUse
<1>7. count' = [count EXCEPT ![s] = IF count[s] > 0 THEN count[s] - 1 ELSE 0]
  BY <1>1, <1>3
<1>8. count' \in [Settlements -> Nat]
  <2>1. count[s] \in Nat
    BY <1>1, <1>3
  <2>2. (IF count[s] > 0 THEN count[s] - 1 ELSE 0) \in Nat
    BY <2>1
  <2> HIDE DEF s
  <2>. QED  BY <1>1, <1>7, <2>2
<1>9. ASSUME NEW x \in Settlements
      PROVE  count'[x] = Cardinality(ObjectsOf(x)') /\ count'[x] <= Budget[x]
  <2>1. /\ count[x] = Cardinality(ObjectsOf(x)) /\ count[x] <= Budget[x]
        /\ count[x] \in Nat /\ Budget[x] \in Nat
    BY <1>1, WorldAssumption DEF WInv, BudgetIsKept
  <2>2. CASE x = s
    <3>1. ObjectsOf(x)' = ObjectsOf(x) \ {i}
      BY <1>5, <1>6 DEF ObjectsOf, InUse
    <3>2. i \in ObjectsOf(x)
      BY <2>2 DEF ObjectsOf
    <3>3. Cardinality(ObjectsOf(x)') = Cardinality(ObjectsOf(x)) - 1
      BY <3>1, <3>2, ObjectsAreFinite, FS_RemoveElement
    <3>4. Cardinality(ObjectsOf(x)') \in Nat
      <4>1. IsFiniteSet(ObjectsOf(x)')
        BY <3>1, ObjectsAreFinite, FS_Subset
      <4>. QED  BY <4>1, FS_CardinalityType
    <3>5. count[x] > 0
      BY <2>1, <3>3, <3>4
    <3>6. count'[x] = count[x] - 1
      <4> HIDE DEF s
      <4>. QED  BY <1>1, <1>3, <1>7, <2>2, <3>5
    <3>. QED  BY <2>1, <3>3, <3>6
  <2>3. CASE x # s
    <3>1. ObjectsOf(x)' = ObjectsOf(x)
      BY <1>5, <1>6, <2>3 DEF ObjectsOf, InUse
    <3>2. count'[x] = count[x]
      <4> HIDE DEF s
      <4>. QED  BY <1>1, <1>7, <2>3
    <3>. QED  BY <2>1, <3>1, <3>2
  <2>. QED  BY <2>2, <2>3
<1>10. NetIdsAreUnique'
  BY <1>5, <1>6 DEF WInv, NetIdsAreUnique, InUse
<1>. QED  BY <1>1, <1>8, <1>9, <1>10, NoObjectIsAnObject DEF BudgetIsKept

-----------------------------------------------------------------------------
(***************************************************************************)
(* What a tick announces                                                   *)
(***************************************************************************)

\* The largest iteration that ends a fight: MSG_DAMAGE, MSG_ACTOR_STATE,
\* MSG_DEATH and MSG_ACTOR_DESPAWN, each to everybody.  With the 7 players of
\* the code these are 28 of 64 outputs.
CombatFits == 4 * Cardinality(Clients) <= MaxOutputs

LEMMA OrderOfOne ==
    ASSUME NEW a \in Nat
    PROVE  Cardinality({a}) = 1 /\ InOrder({a})[1] = a
<1>1. Cardinality({a}) = 1
  BY FS_Singleton
<1>2. [i \in 1 .. 1 |-> a] \in [1 .. 1 -> {a}]
      /\ \A i, j \in 1 .. 1 : i < j => FALSE
  OBVIOUS
<1>3. \E f \in [1 .. 1 -> {a}] : \A i, j \in DOMAIN f : i < j => f[i] < f[j]
  BY <1>2
<1>4. InOrder({a}) \in [1 .. 1 -> {a}]
  BY <1>1, <1>3 DEF InOrder
<1>. QED  BY <1>1, <1>4

\* Of a broadcast some first messages reach everybody it is meant for, and all
\* of them if there is room.
LEMMA FitsBounds ==
    ASSUME NEW cs \in SUBSET Clients, NEW c \in cs, NEW n \in Nat, NEW base \in Nat
    PROVE  /\ Fits(cs, c, n, base) \in 0 .. n
           /\ n = 1 /\ base + Cardinality(cs) <= MaxOutputs => Fits(cs, c, n, base) = 1
<1> DEFINE rank == Cardinality({d \in cs : d <= c})
           reach == {k \in 1 .. n : base + (k - 1) * Cardinality(cs) + rank <= MaxOutputs}
<1>1. IsFiniteSet(cs) /\ Cardinality(cs) \in Nat
  BY FS_Subset, FS_CardinalityType, WorldAssumption
<1>2. rank \in Nat /\ rank <= Cardinality(cs)
  BY <1>1, FS_Subset, FS_CardinalityType
<1>3. IsFiniteSet(1 .. n) /\ Cardinality(1 .. n) = n
  BY FS_Interval
<1>4. reach \subseteq 1 .. n
  OBVIOUS
<1>5. Cardinality(reach) \in Nat /\ Cardinality(reach) <= n
  <2> HIDE DEF reach
  <2>. QED  BY <1>3, <1>4, FS_Subset, FS_CardinalityType
<1>6. Fits(cs, c, n, base) = Cardinality(reach)
  BY DEF Fits
<1>7. ASSUME n = 1, base + Cardinality(cs) <= MaxOutputs  PROVE Cardinality(reach) = 1
  <2>1. (1 - 1) * Cardinality(cs) = 0
    BY <1>1
  <2>2. base + (1 - 1) * Cardinality(cs) + rank <= MaxOutputs
    <3> HIDE DEF rank
    <3>. QED  BY <1>1, <1>2, <1>7, <2>1, WorldAssumption
  <2>3. 1 \in reach
    BY <1>7, <2>2
  <2>4. 1 .. n = {1}
    BY <1>7
  <2> HIDE DEF reach
  <2>5. reach = {1}
    BY <1>4, <2>3, <2>4, Zenon
  <2>. QED  BY <2>5, FS_Singleton
<1> HIDE DEF reach
<1>. QED  BY <1>5, <1>6, <1>7

\* A handler that left one corpse t, and room for one more broadcast: the tick
\* takes no other actor, and whoever is connected is told at the end.
LEMMA TickSays ==
    ASSUME NEW as \in [Actors -> ActorRecord], NEW t,
           \A a \in Actors : as[a].in_use => ~as[a].pending /\ (as[a].dead => a = t),
           NEW cs \in SUBSET Clients, NEW out,
           NEW base \in Nat, base + Cardinality(cs) <= MaxOutputs,
           tl_tick(as, cs, out, base),
           NEW a \in Actors, as[a].in_use, ~actors'[a].in_use, NEW c \in cs
    PROVE  outputs'[c] = out[c] \o <<ActorDespawn(a)>>
<1> DEFINE ts == ac_tick(as)
           gone == Despawned(ts)
           last == Broadcast(cs, Despawns(gone), base)
<1>1. /\ actors' = [b \in Actors |-> IF b \in gone THEN NoActor ELSE ts[b]]
      /\ outputs' = [d \in Clients |-> out[d] \o last[d]]
  BY DEF tl_tick
<1>2. gone \subseteq {t} /\ ts[a].in_use
  BY TickDooms DEF Despawned
<1>3. gone = {a} /\ a \in Nat
  <2> HIDE DEF ts, gone
  <2>. QED  BY <1>1, <1>2, WorldAssumption
<1>4. Despawns(gone) = <<ActorDespawn(a)>>
  <2>1. Despawns({a}) = [k \in 1 .. 1 |-> ActorDespawn(InOrder({a})[k])]
    BY <1>3, OrderOfOne DEF Despawns
  <2>2. InOrder({a})[1] = a
    BY <1>3, OrderOfOne
  <2>3. Despawns({a}) = [k \in 1 .. 1 |-> ActorDespawn(a)]
    <3>1. \A k \in 1 .. 1 : ActorDespawn(InOrder({a})[k]) = ActorDespawn(a)
      <4>1. \A k \in 1 .. 1 : k = 1
        OBVIOUS
      <4>. QED  BY <2>2, <4>1, Zenon
    <3>. QED  BY <2>1, <3>1, Zenon
  <2> DEFINE x == ActorDespawn(a)
  <2> HIDE DEF gone, x
  <2>4. [k \in 1 .. 1 |-> x] = <<x>>
    OBVIOUS
  <2>5. Despawns(gone) = Despawns({a})
    BY <1>3, Zenon
  <2>. QED  BY <2>3, <2>4, <2>5, Zenon DEF x
<1>5. Fits(cs, c, 1, base) = 1
  BY FitsBounds
<1>6. last[c] = <<ActorDespawn(a)>>
  <2>1. last[c] = SubSeq(Despawns(gone), 1, Fits(cs, c, Len(Despawns(gone)), base))
    BY DEF Broadcast
  <2> DEFINE x == ActorDespawn(a)
  <2> HIDE DEF last, gone, x
  <2>2. SubSeq(<<x>>, 1, 1) = <<x>> /\ Len(<<x>>) = 1
    <3>1. <<x>> \in Seq({x}) /\ Len(<<x>>) = 1
      OBVIOUS
    <3>. QED  BY <3>1, SubSeqFull
  <2>3. Despawns(gone) = <<x>>
    BY <1>4 DEF x
  <2>4. last[c] = SubSeq(<<x>>, 1, Fits(cs, c, Len(<<x>>), base))
    BY <2>1, <2>3, Zenon
  <2>. QED  BY <1>5, <2>2, <2>4 DEF x
<1> HIDE DEF last
<1>. QED  BY <1>1, <1>6

\* In particular, whoever loses an actor in the tick is told.
LEMMA TickAnnounces ==
    ASSUME NEW as \in [Actors -> ActorRecord], NEW t,
           \A a \in Actors : as[a].in_use => ~as[a].pending /\ (as[a].dead => a = t),
           NEW cs \in SUBSET Clients, NEW M, NEW out, \A c \in cs : out[c] \in Seq(M),
           NEW base \in Nat, base + Cardinality(cs) <= MaxOutputs,
           tl_tick(as, cs, out, base),
           NEW a \in Actors, as[a].in_use, ~actors'[a].in_use, NEW c \in cs
    PROVE  ActorDespawn(a) \in Range(outputs'[c])
<1>1. outputs'[c] = out[c] \o <<ActorDespawn(a)>>
  BY TickSays
<1>2. /\ Len(out[c]) + 1 \in DOMAIN (out[c] \o <<ActorDespawn(a)>>)
      /\ (out[c] \o <<ActorDespawn(a)>>)[Len(out[c]) + 1] = ActorDespawn(a)
  <2> DEFINE x == ActorDespawn(a)
  <2> HIDE DEF x
  <2>1. out[c] \in Seq(M \cup {x}) /\ <<x>> \in Seq(M \cup {x})
    OBVIOUS
  <2>2. Len(out[c]) + 1 \in DOMAIN (out[c] \o <<x>>) /\ (out[c] \o <<x>>)[Len(out[c]) + 1] = x
    BY <2>1
  <2>. QED  BY <2>2 DEF x
<1>. QED  BY <1>1, <1>2 DEF Range

-----------------------------------------------------------------------------
(***************************************************************************)
(* The invariant                                                           *)
(***************************************************************************)

\* A hit changes health and death only.
LEMMA HitKeepsRecord ==
    ASSUME NEW q \in ActorRecord
    PROVE  /\ Hit(q) \in ActorRecord
           /\ Hit(q).pending = q.pending /\ Hit(q).in_use = q.in_use
<1> DEFINE h == IF q.health > 0 THEN q.health - 1 ELSE 0
<1>1. q.health \in 0 .. Full /\ Full \in Nat
  BY DEF ActorRecord, Full
<1>2. h \in 0 .. Full /\ (h = 0) \in BOOLEAN
  BY <1>1
<1>3. Hit(q) = [q EXCEPT !.health = h, !.dead = (h = 0)]
  BY DEF Hit
<1> HIDE DEF h
<1>. QED  BY <1>2, <1>3 DEF ActorRecord

LEMMA WorldInit == Init => WInv
<1> SUFFICES ASSUME Init  PROVE WInv
  OBVIOUS
<1>1. Hostile \in ActorRecord /\ ~Hostile.dead /\ ~Hostile.pending
  BY DEF Hostile, ActorRecord, Full
<1>2. TypeOK
  BY <1>1, NoObjectIsAnObject, WorldAssumption DEF Init, TypeOK
<1>3. InUse(objects) = {}
  BY DEF Init, InUse, NoObject
<1>4. BudgetIsKept
  <2>1. \A s \in Settlements : ObjectsOf(s) = {}
    BY <1>3 DEF ObjectsOf
  <2>2. Cardinality({}) = 0
    BY FS_EmptySet
  <2>3. \A s \in Settlements : count[s] = 0 /\ Budget[s] \in Nat
    BY WorldAssumption DEF Init
  <2>4. \A n \in Nat : 0 <= n
    OBVIOUS
  <2>. QED  BY <2>1, <2>2, <2>3, <2>4, Zenon DEF BudgetIsKept
<1>5. NetIdsAreUnique
  BY <1>3 DEF NetIdsAreUnique
<1>6. NoCorpseStays
  BY <1>1 DEF Init, NoCorpseStays
<1>. QED  BY <1>2, <1>4, <1>5, <1>6 DEF WInv

LEMMA WorldStepKeepsInv ==
    ASSUME WInv, NEW c \in Clients, Step(c)
    PROVE  WInv'
<1>1. TypeOK /\ NoCorpseStays
  BY DEF WInv
<1>2. /\ connected \subseteq Clients /\ pos \in [Clients -> Places]
      /\ actors \in [Actors -> ActorRecord] /\ count \in [Settlements -> Nat]
      /\ nextObject \in 1 .. MaxNetId /\ nextObject \in Nat /\ MaxNetId \in Nat
  BY <1>1, WorldAssumption DEF TypeOK
<1> DEFINE Kept == /\ objects' \in [ObjectSlots -> ObjectRecord]
                   /\ count' \in [Settlements -> Nat]
                   /\ BudgetIsKept' /\ NetIdsAreUnique'
           Quiet == \E cs, out, base : tl_tick(actors, cs, out, base)
<1>3. UNCHANGED <<objects, count, nextObject>> => Kept
  BY <1>2, ObjectsUntouched
<1>4. Quiet => actors' \in [Actors -> ActorRecord] /\ NoCorpseStays'
  BY <1>1, QuietTick
<1>5. ASSUME connected' \subseteq Clients, pos' \in [Clients -> Places],
             actors' \in [Actors -> ActorRecord], NoCorpseStays',
             nextObject' \in 1 .. MaxNetId, Kept
      PROVE  WInv'
  BY <1>5 DEF WInv, TypeOK
<1> HIDE DEF Kept
<1>6. CASE Hello(c)
  <2>1. PICK q \in Places :
          /\ connected' = connected \cup {c}
          /\ pos' = [pos EXCEPT ![c] = q]
          /\ Quiet
          /\ UNCHANGED <<objects, count, nextObject>>
    <3>1. Origin \in Places /\ pos[c] \in Places
      BY <1>2, WorldAssumption
    <3>. QED  BY <1>6, <3>1 DEF Hello
  <2> HIDE DEF Quiet
  <2>. QED  BY <1>2, <1>3, <1>4, <1>5, <2>1
<1>7. CASE Disconnect(c)
  <2>1. connected' = connected \ {c} /\ Quiet
        /\ UNCHANGED <<pos, objects, count, nextObject>>
    BY <1>7 DEF Disconnect
  <2> HIDE DEF Quiet
  <2>. QED  BY <1>2, <1>3, <1>4, <1>5, <2>1
<1>8. ASSUME NEW q \in Places, PlayerState(c, q)  PROVE WInv'
  <2>1. pos' = [pos EXCEPT ![c] = q] /\ Quiet
        /\ UNCHANGED <<connected, objects, count, nextObject>>
    BY <1>8 DEF PlayerState
  <2> HIDE DEF Quiet
  <2>. QED  BY <1>2, <1>3, <1>4, <1>5, <2>1
<1>9. CASE TickOnly(c)
  <2>1. Quiet /\ UNCHANGED <<connected, pos, objects, count, nextObject>>
    BY <1>9 DEF TickOnly
  <2> HIDE DEF Quiet
  <2>. QED  BY <1>2, <1>3, <1>4, <1>5, <2>1
<1>10. ASSUME NEW t \in Actors, ac_handle_fire_intent(c, t)  PROVE WInv'
  <2> DEFINE r == Hit(actors[t])
             as == [actors EXCEPT ![t] = r]
  <2>1. /\ actors[t].in_use /\ actors[t] \in ActorRecord
        /\ UNCHANGED <<connected, pos, objects, count, nextObject>>
    BY <1>2, <1>10 DEF ac_handle_fire_intent, Targets
  <2>2. PICK cs, out, base : tl_tick(as, cs, out, base)
    BY <1>10 DEF ac_handle_fire_intent
  <2>3. r \in ActorRecord /\ r.pending = actors[t].pending
    BY <2>1, HitKeepsRecord
  <2> HIDE DEF r
  <2>4. as \in [Actors -> ActorRecord]
    BY <1>2, <2>3
  <2>5. \A a \in Actors : as[a].in_use => ~as[a].pending /\ (as[a].dead => a = t)
    <3>1. as[t] = r /\ \A a \in Actors : a # t => as[a] = actors[a]
      BY <1>2
    <3> HIDE DEF as
    <3>. QED  BY <1>1, <2>1, <2>3, <3>1 DEF NoCorpseStays
  <2> HIDE DEF as
  <2>6. actors' \in [Actors -> ActorRecord] /\ NoCorpseStays'
    BY <2>2, <2>4, <2>5, TickClears
  <2>. QED  BY <1>2, <1>3, <1>5, <2>1, <2>6
<1>11. ASSUME NEW s \in Settlements, NEW q \in Places, ac_handle_build_request(c, s, q)
       PROVE  WInv'
  <2>1. /\ nextObject < MaxNetId /\ count[s] < Budget[s]
        /\ ObjectSlots \ InUse(objects) # {}
        /\ objects' = ws_alloc_object(objects, nextObject, s, q)
        /\ nextObject' = nextObject + 1
        /\ count' = [count EXCEPT ![s] = @ + 1]
        /\ Quiet
        /\ UNCHANGED <<connected, pos>>
    BY <1>11 DEF ac_handle_build_request, validate_build_request
  <2>2. Kept /\ nextObject' \in 1 .. MaxNetId
    BY <2>1, BuildKeepsBooks DEF Kept
  <2> HIDE DEF Quiet
  <2>. QED  BY <1>2, <1>4, <1>5, <2>1, <2>2
<1>12. ASSUME NEW s \in Settlements, NEW q \in Places, BuildWithoutRoom(c, s, q)
       PROVE  WInv'
  <2>1. /\ nextObject < MaxNetId /\ nextObject' = nextObject + 1
        /\ Quiet /\ UNCHANGED <<connected, pos, objects, count>>
    BY <1>12 DEF BuildWithoutRoom
  <2>2. nextObject' \in 1 .. MaxNetId /\ nextObject' >= nextObject
    BY <1>2, <2>1
  <2>3. Kept
    BY <2>1, <2>2, ObjectsUntouched DEF Kept
  <2> HIDE DEF Quiet
  <2>. QED  BY <1>2, <1>4, <1>5, <2>1, <2>2, <2>3
<1>13. ASSUME NEW id, Named(objects, id) # {}
       PROVE  find_object(objects, id) \in InUse(objects)
  <2>1. Named(objects, id) \subseteq ObjectSlots
    BY DEF Named, InUse
  <2>. QED  BY <1>13, <2>1, SearchFindsSlot DEF find_object, Named
<1>14. ASSUME NEW id \in 1 .. MaxNetId, NEW q \in Places, ac_handle_object_move(c, id, q)
       PROVE  WInv'
  <2> DEFINE i == find_object(objects, id)
  <2>1. /\ i \in InUse(objects)
        /\ objects' = [objects EXCEPT ![i] = [@ EXCEPT !.place = q, !.moved = TRUE]]
        /\ Quiet
        /\ UNCHANGED <<connected, pos, count, nextObject>>
    BY <1>13, <1>14 DEF ac_handle_object_move
  <2> HIDE DEF i, Quiet
  <2>2. Kept
    BY <1>2, <2>1, MoveKeepsBooks DEF Kept
  <2>. QED  BY <1>2, <1>4, <1>5, <2>1, <2>2
<1>15. ASSUME NEW id \in 1 .. MaxNetId, ac_handle_object_scrap(c, id)
       PROVE  WInv'
  <2> DEFINE i == find_object(objects, id)
  <2>1. /\ i \in InUse(objects)
        /\ objects' = [objects EXCEPT ![i] = NoObject]
        /\ count' = [count EXCEPT ![objects[i].settlement] = IF @ > 0 THEN @ - 1 ELSE 0]
        /\ Quiet
        /\ UNCHANGED <<connected, pos, nextObject>>
    BY <1>13, <1>15 DEF ac_handle_object_scrap, ws_remove_object
  <2> HIDE DEF i, Quiet
  <2>2. Kept
    BY <2>1, ScrapKeepsBooks DEF Kept
  <2>. QED  BY <1>2, <1>4, <1>5, <2>1, <2>2
<1>. QED
  BY <1>6, <1>7, <1>8, <1>9, <1>10, <1>11, <1>12, <1>14, <1>15 DEF Step

\* All of it, in every reachable state, for any number of players,
\* settlements, object slots and hostiles.
THEOREM WorldInvariant == Spec => []WInv
<1>1. Init => WInv
  BY WorldInit
<1>2. WInv /\ [Next]_vars => WInv'
  <2> SUFFICES ASSUME WInv, [Next]_vars  PROVE WInv'
    OBVIOUS
  <2>1. CASE Next
    BY <2>1, WorldStepKeepsInv DEF Next
  <2>2. CASE UNCHANGED vars
    <3>1. TypeOK'
      BY <2>2 DEF vars, WInv, TypeOK
    <3>2. BudgetIsKept'
      BY <2>2 DEF vars, WInv, BudgetIsKept, ObjectsOf, InUse
    <3>3. NetIdsAreUnique'
      BY <2>2 DEF vars, WInv, NetIdsAreUnique, InUse
    <3>4. NoCorpseStays'
      BY <2>2 DEF vars, WInv, NoCorpseStays
    <3>. QED  BY <3>1, <3>2, <3>3, <3>4 DEF WInv
  <2>. QED  BY <2>1, <2>2
<1>. QED  BY <1>1, <1>2, PTL DEF Spec

\* Only the end of a fight takes an actor away, and it is announced.
LEMMA WorldStepAnnounces ==
    ASSUME CombatFits, WInv, NEW c \in Clients, Step(c),
           NEW a \in Actors, actors[a].in_use, ~actors'[a].in_use, NEW d \in connected'
    PROVE  ActorDespawn(a) \in Range(outputs'[d])
<1>1. /\ connected \subseteq Clients /\ actors \in [Actors -> ActorRecord]
      /\ \A b \in Actors : actors[b].in_use => ~actors[b].pending /\ ~actors[b].dead
  BY DEF WInv, TypeOK, NoCorpseStays
<1>2. ~\E cs, out, base : tl_tick(actors, cs, out, base)
  <2> SUFFICES ASSUME NEW cs, NEW out, NEW base, tl_tick(actors, cs, out, base)  PROVE FALSE
    OBVIOUS
  <2> DEFINE ts == ac_tick(actors)
             gone == Despawned(ts)
  <2>1. actors' = [b \in Actors |-> IF b \in gone THEN NoActor ELSE ts[b]]
    BY DEF tl_tick
  <2>2. gone \subseteq {0} /\ ts[a].in_use
    BY <1>1, TickDooms DEF Despawned
  <2>3. 0 \notin Actors
    BY WorldAssumption
  <2> HIDE DEF ts, gone
  <2>. QED  BY <2>1, <2>2, <2>3
<1>3. PICK t \in Actors : ac_handle_fire_intent(c, t)
  BY <1>2, Zenon
  DEF Step, Hello, Disconnect, PlayerState, ac_handle_build_request, BuildWithoutRoom, TickOnly,
      ac_handle_object_move, ac_handle_object_scrap
<1> DEFINE r == Hit(actors[t])
           as == [actors EXCEPT ![t] = r]
           msgs == <<Damage(t, r), ActorState(t, r)>> \o (IF r.dead THEN <<Death(t)>> ELSE <<>>)
           M == {Damage(t, r), ActorState(t, r), Death(t)}
<1>4. /\ actors[t].in_use /\ connected' = connected
      /\ tl_tick(as, connected, Broadcast(connected, msgs, 0), Len(msgs) * Cardinality(connected))
  BY <1>3 DEF ac_handle_fire_intent, Targets
<1>5. as \in [Actors -> ActorRecord]
      /\ \A b \in Actors : as[b].in_use => ~as[b].pending /\ (as[b].dead => b = t)
  <2>1. r \in ActorRecord /\ r.pending = actors[t].pending
    BY <1>1, HitKeepsRecord
  <2> HIDE DEF r
  <2>2. as[t] = r /\ \A b \in Actors : b # t => as[b] = actors[b]
    BY <1>1
  <2>3. as \in [Actors -> ActorRecord]
    BY <1>1, <2>1
  <2> HIDE DEF as
  <2>. QED  BY <1>1, <1>4, <2>1, <2>2, <2>3
<1>6. as[a].in_use
  <2>1. r.in_use = actors[t].in_use
    BY <1>1, HitKeepsRecord
  <2> HIDE DEF r
  <2>. QED  BY <1>1, <1>4, <2>1
<1>7. msgs \in Seq(M) /\ Len(msgs) \in 0 .. 3
  <2> DEFINE x == Damage(t, r)
             y == ActorState(t, r)
             z == Death(t)
  <2> HIDE DEF x, y, z
  <2>1. <<x, y>> \o (IF r.dead THEN <<z>> ELSE <<>>) \in Seq({x, y, z})
        /\ Len(<<x, y>> \o (IF r.dead THEN <<z>> ELSE <<>>)) \in 0 .. 3
    <3>1. <<x, y>> \in Seq({x, y, z}) /\ <<z>> \in Seq({x, y, z}) /\ <<>> \in Seq({x, y, z})
          /\ Len(<<x, y>>) = 2 /\ Len(<<z>>) = 1 /\ Len(<<>>) = 0
      OBVIOUS
    <3>2. CASE r.dead
      BY <3>1, <3>2
    <3>3. CASE ~r.dead
      BY <3>1, <3>3
    <3>. QED  BY <3>2, <3>3
  <2>. QED  BY <2>1 DEF x, y, z
<1>8. IsFiniteSet(connected) /\ Cardinality(connected) \in Nat
      /\ Cardinality(connected) <= Cardinality(Clients) /\ Cardinality(Clients) \in Nat
  BY <1>1, FS_Subset, FS_CardinalityType, WorldAssumption
<1> HIDE DEF msgs, M, as, r
<1>9. /\ Len(msgs) * Cardinality(connected) \in Nat
      /\ Len(msgs) * Cardinality(connected) + Cardinality(connected) <= MaxOutputs
  <2>1. Len(msgs) \in {0, 1, 2, 3}
    BY <1>7
  <2> DEFINE n == Cardinality(connected)
  <2>2. n \in Nat /\ 4 * n <= MaxOutputs
    BY <1>8, WorldAssumption DEF CombatFits
  <2> HIDE DEF n
  <2>3. \A k \in {0, 1, 2, 3} : k * n \in Nat /\ k * n + n <= MaxOutputs
    BY <2>2, WorldAssumption
  <2>4. Len(msgs) * n \in Nat /\ Len(msgs) * n + n <= MaxOutputs
    BY <2>1, <2>3, Zenon
  <2>. QED  BY <2>4 DEF n
<1>10. \A b \in connected : Broadcast(connected, msgs, 0)[b] \in Seq(M)
  <2> SUFFICES ASSUME NEW b \in connected
               PROVE  Broadcast(connected, msgs, 0)[b] \in Seq(M)
    OBVIOUS
  <2>1. Broadcast(connected, msgs, 0)[b] = SubSeq(msgs, 1, Fits(connected, b, Len(msgs), 0))
    BY <1>1 DEF Broadcast
  <2>2. Fits(connected, b, Len(msgs), 0) \in 0 .. Len(msgs)
    <3>1. connected \in SUBSET Clients /\ Len(msgs) \in Nat /\ 0 \in Nat
      BY <1>1, <1>7
    <3>. QED  BY <3>1, FitsBounds, Zenon
  <2> DEFINE n == Fits(connected, b, Len(msgs), 0)
  <2> HIDE DEF n
  <2>3. n \in 0 .. Len(msgs) => SubSeq(msgs, 1, n) \in Seq(M)
    BY <1>7, SubSeqProperties
  <2>. QED  BY <2>1, <2>2, <2>3 DEF n
<1>. QED  BY <1>1, <1>4, <1>5, <1>6, <1>9, <1>10, TickAnnounces

\* Whenever an actor goes, every connected player is sent MSG_ACTOR_DESPAWN: the
\* path of ac_tick that removes an actor without a word is never taken.
THEOREM WorldDespawns ==
    ASSUME CombatFits
    PROVE  Spec => DespawnIsAnnounced
<1>1. WInv /\ [Next]_vars =>
        [\A a \in Actors : actors[a].in_use /\ ~actors'[a].in_use =>
            \A c \in connected' : ActorDespawn(a) \in Range(outputs'[c])]_vars
  <2> SUFFICES ASSUME WInv, Next, NEW a \in Actors, actors[a].in_use, ~actors'[a].in_use,
                      NEW c \in connected'
               PROVE  ActorDespawn(a) \in Range(outputs'[c])
    OBVIOUS
  <2>. QED  BY WorldStepAnnounces DEF Next
<1>2. Spec => [][\A a \in Actors : actors[a].in_use /\ ~actors'[a].in_use =>
            \A c \in connected' : ActorDespawn(a) \in Range(outputs'[c])]_vars
  BY <1>1, WorldInvariant, PTL DEF Spec
<1>. QED  BY <1>2, PTL DEF DespawnIsAnnounced

\* Slots, counters and positions stay in their ranges; health stays between 0
\* and 1.0 however often authority_core.c subtracts a hit.
THEOREM WorldTypes == Spec => []TypeOK
<1>1. WInv => TypeOK
  BY DEF WInv
<1>. QED  BY <1>1, WorldInvariant, PTL

\* object_count is the number of the settlement's objects and respects its
\* budget, although builds and scraps update it apart from the slots.
THEOREM WorldBudget == Spec => []BudgetIsKept
<1>1. WInv => BudgetIsKept
  BY DEF WInv
<1>. QED  BY <1>1, WorldInvariant, PTL

\* A net id names at most one object, whatever slots builds and scraps reuse.
THEOREM WorldNetIds == Spec => []NetIdsAreUnique
<1>1. WInv => NetIdsAreUnique
  BY DEF WInv
<1>. QED  BY <1>1, WorldInvariant, PTL

\* The tick of the iteration that kills an actor also removes it.
THEOREM WorldNoCorpse == Spec => []NoCorpseStays
<1>1. WInv => NoCorpseStays
  BY DEF WInv
<1>. QED  BY <1>1, WorldInvariant, PTL

-----------------------------------------------------------------------------
(***************************************************************************)
(* What a plugin does with a datagram                                      *)
(***************************************************************************)

ProxyRecord == [in_use : BOOLEAN, health : 0 .. Full, is_dead : BOOLEAN]

ProxyObjectRecord == [in_use : BOOLEAN, place : Places, moved : BOOLEAN]

Views == [actors : [Actors -> ProxyRecord], objects : [NetIds -> ProxyObjectRecord]]

ActorMsgs ==
    [kind : {"actor_spawn", "death", "actor_despawn"}, id : Actors]
    \cup [kind : {"actor_state", "damage"}, id : Actors, health : 0 .. Full]

ObjectMsgs ==
    [kind : {"object_spawn", "object_update"}, id : NetIds, place : Places, moved : BOOLEAN]
    \cup [kind : {"object_despawn"}, id : NetIds]

Msgs == ActorMsgs \cup ObjectMsgs

\* The proxy of actor a becomes x.
SetActor(v, a, x) == [v EXCEPT !.actors[a] = x]

\* The proxy of object id becomes x.
SetObject(v, id, x) == [v EXCEPT !.objects[id] = x]

LEMMA SetActorFields ==
    ASSUME NEW v \in Views, NEW a \in Actors, NEW x \in ProxyRecord
    PROVE  /\ SetActor(v, a, x) \in Views
           /\ SetActor(v, a, x).objects = v.objects
           /\ SetActor(v, a, x).actors[a] = x
           /\ \A b \in Actors : b # a => SetActor(v, a, x).actors[b] = v.actors[b]
  BY DEF SetActor, Views

LEMMA SetObjectFields ==
    ASSUME NEW v \in Views, NEW id \in NetIds, NEW x \in ProxyObjectRecord
    PROVE  /\ SetObject(v, id, x) \in Views
           /\ SetObject(v, id, x).actors = v.actors
           /\ SetObject(v, id, x).objects[id] = x
           /\ \A j \in NetIds : j # id => SetObject(v, id, x).objects[j] = v.objects[j]
  BY DEF SetObject, Views

\* proxy_spawn_actor and proxy_despawn_actor set the record, whatever it was.
LEMMA ApplySpawn ==
    ASSUME NEW v \in Views, NEW m \in ActorMsgs
    PROVE  /\ m.kind = "actor_spawn" =>
                plugin_apply_packet(v, m)
                  = SetActor(v, m.id, [in_use |-> TRUE, health |-> Full, is_dead |-> FALSE])
           /\ m.kind = "actor_despawn" => plugin_apply_packet(v, m) = SetActor(v, m.id, NoProxy)
  BY DEF plugin_apply_packet, proxy_spawn_actor, proxy_despawn_actor, SetActor

\* The other three leave the actor shown or not, with the health they carry.
LEMMA ApplyState ==
    ASSUME NEW v \in Views, NEW m \in ActorMsgs, m.kind = "actor_state"
    PROVE  \E x \in ProxyRecord :
              /\ plugin_apply_packet(v, m) = SetActor(v, m.id, x)
              /\ x.in_use /\ x.health = m.health
              /\ x.is_dead => v.actors[m.id].in_use /\ v.actors[m.id].is_dead /\ m.health = 0
<1> DEFINE w == IF v.actors[m.id].in_use THEN v ELSE proxy_spawn_actor(v, m.id)
           x == w.actors[m.id]
           y == [x EXCEPT !.health = m.health, !.is_dead = x.is_dead /\ m.health = 0]
<1>1. m.id \in Actors /\ m.health \in 0 .. Full
  BY DEF ActorMsgs
<1>2. v.actors[m.id] \in ProxyRecord
  BY <1>1 DEF Views
<1>3. [in_use |-> TRUE, health |-> Full, is_dead |-> FALSE] \in ProxyRecord
  BY DEF ProxyRecord, Full
<1>4. plugin_apply_packet(v, m) = [w EXCEPT !.actors[m.id] = y]
  BY DEF plugin_apply_packet, pa_apply_actor_state
<1>5. x \in ProxyRecord /\ x.in_use /\ (x.is_dead => v.actors[m.id].in_use /\ v.actors[m.id].is_dead)
  <2>1. CASE v.actors[m.id].in_use
    BY <1>2, <2>1
  <2>2. CASE ~v.actors[m.id].in_use
    <3>1. x = [in_use |-> TRUE, health |-> Full, is_dead |-> FALSE]
      BY <1>1, <2>2 DEF proxy_spawn_actor, Views
    <3> HIDE DEF x
    <3>. QED  BY <1>3, <3>1
  <2>. QED  BY <2>1, <2>2
<1>6. [w EXCEPT !.actors[m.id] = y] = SetActor(v, m.id, y)
  <2> HIDE DEF y
  <2>1. CASE v.actors[m.id].in_use
    BY <2>1 DEF SetActor
  <2>2. CASE ~v.actors[m.id].in_use
    <3> DEFINE z == [in_use |-> TRUE, health |-> Full, is_dead |-> FALSE]
    <3>1. w = [v EXCEPT !.actors[m.id] = z]
      BY <2>2 DEF proxy_spawn_actor
    <3> HIDE DEF z, w
    <3>2. [w EXCEPT !.actors[m.id] = y] = [v EXCEPT !.actors[m.id] = y]
      BY <1>1, <3>1 DEF Views
    <3>. QED  BY <3>2 DEF SetActor
  <2>. QED  BY <2>1, <2>2
<1>7. y \in ProxyRecord /\ y.in_use /\ y.health = m.health
      /\ (y.is_dead => x.is_dead /\ m.health = 0)
  <2> HIDE DEF x
  <2>1. (x.is_dead /\ m.health = 0) \in BOOLEAN
    OBVIOUS
  <2>. QED  BY <1>1, <1>5, <2>1 DEF ProxyRecord
<1> HIDE DEF x, y, w
<1>. QED  BY <1>4, <1>5, <1>6, <1>7

LEMMA ApplyDamage ==
    ASSUME NEW v \in Views, NEW m \in ActorMsgs, m.kind = "damage"
    PROVE  /\ ~v.actors[m.id].in_use => plugin_apply_packet(v, m) = v
           /\ v.actors[m.id].in_use =>
                \E x \in ProxyRecord :
                  /\ plugin_apply_packet(v, m) = SetActor(v, m.id, x)
                  /\ x.in_use /\ x.health = m.health
                  /\ x.is_dead => v.actors[m.id].is_dead \/ m.health = 0
<1> DEFINE x == v.actors[m.id]
           y == [x EXCEPT !.health = m.health, !.is_dead = x.is_dead \/ m.health = 0]
<1>1. m.id \in Actors /\ m.health \in 0 .. Full
  BY DEF ActorMsgs
<1>2. x \in ProxyRecord
  BY <1>1 DEF Views
<1>3. plugin_apply_packet(v, m) = IF ~x.in_use THEN v ELSE [v EXCEPT !.actors[m.id] = y]
  BY DEF plugin_apply_packet, proxy_set_damage_result
<1>4. x.in_use => y \in ProxyRecord /\ y.in_use /\ y.health = m.health
                  /\ (y.is_dead => x.is_dead \/ m.health = 0)
  <2> HIDE DEF x
  <2>1. (x.is_dead \/ m.health = 0) \in BOOLEAN
    OBVIOUS
  <2>. QED  BY <1>1, <1>2, <2>1 DEF ProxyRecord
<1> HIDE DEF y
<1>. QED  BY <1>3, <1>4 DEF SetActor

LEMMA ApplyDeath ==
    ASSUME NEW v \in Views, NEW m \in ActorMsgs, m.kind = "death"
    PROVE  \/ plugin_apply_packet(v, m) = v
           \/ \E x \in ProxyRecord : plugin_apply_packet(v, m) = SetActor(v, m.id, x)
<1> DEFINE y == [v.actors[m.id] EXCEPT !.health = 0, !.is_dead = TRUE]
<1>1. m.id \in Actors
  BY DEF ActorMsgs
<1>2. v.actors[m.id] \in ProxyRecord
  BY <1>1 DEF Views
<1>3. plugin_apply_packet(v, m) = IF ~v.actors[m.id].in_use THEN v ELSE [v EXCEPT !.actors[m.id] = y]
  BY DEF plugin_apply_packet, proxy_set_death_event
<1>4. y \in ProxyRecord
  <2>1. 0 \in 0 .. Full /\ TRUE \in BOOLEAN
    BY DEF Full
  <2>. QED  BY <1>2, <2>1 DEF ProxyRecord
<1> HIDE DEF y
<1>. QED  BY <1>3, <1>4 DEF SetActor

\* Whatever it is about an actor, it sets that actor's proxy or nothing.
LEMMA ApplyActorMsg ==
    ASSUME NEW v \in Views, NEW m \in ActorMsgs
    PROVE  /\ m.id \in Actors
           /\ plugin_apply_packet(v, m) \in Views
           /\ plugin_apply_packet(v, m).objects = v.objects
           /\ \A b \in Actors : b # m.id => plugin_apply_packet(v, m).actors[b] = v.actors[b]
<1>1. m.id \in Actors /\ m.kind \in {"actor_spawn", "death", "actor_despawn", "actor_state", "damage"}
  BY DEF ActorMsgs
<1>2. \/ plugin_apply_packet(v, m) = v
      \/ \E x \in ProxyRecord : plugin_apply_packet(v, m) = SetActor(v, m.id, x)
  <2>1. /\ [in_use |-> TRUE, health |-> Full, is_dead |-> FALSE] \in ProxyRecord
        /\ NoProxy \in ProxyRecord
    BY DEF ProxyRecord, NoProxy, Full
  <2>2. CASE m.kind \in {"actor_spawn", "actor_despawn"}
    BY <2>1, <2>2, ApplySpawn
  <2>3. CASE m.kind = "death"
    BY <2>3, ApplyDeath
  <2>4. CASE m.kind = "actor_state"
    BY <2>4, ApplyState
  <2>5. CASE m.kind = "damage"
    BY <2>5, ApplyDamage
  <2>. QED  BY <1>1, <2>2, <2>3, <2>4, <2>5
<1>. QED  BY <1>1, <1>2, SetActorFields

ObjectProxy(m) == [in_use |-> TRUE, place |-> m.place, moved |-> m.moved]

LEMMA ApplyObjectMsg ==
    ASSUME NEW v \in Views, NEW m \in ObjectMsgs
    PROVE  /\ m.id \in NetIds
           /\ plugin_apply_packet(v, m) \in Views
           /\ plugin_apply_packet(v, m).actors = v.actors
           /\ m.kind = "object_spawn" =>
                 plugin_apply_packet(v, m) =
                    IF m.id \in ProxyObjects(v) \/ Cardinality(ProxyObjects(v)) < MaxProxyObjects
                    THEN SetObject(v, m.id, ObjectProxy(m)) ELSE v
           /\ m.kind = "object_update" =>
                 plugin_apply_packet(v, m) =
                    IF m.id \in ProxyObjects(v) THEN SetObject(v, m.id, ObjectProxy(m)) ELSE v
           /\ m.kind = "object_despawn" =>
                 plugin_apply_packet(v, m) = SetObject(v, m.id, NoProxyObject)
<1>1. m.id \in NetIds /\ m.kind \in {"object_spawn", "object_update", "object_despawn"}
  BY DEF ObjectMsgs
<1>2. m.kind # "object_despawn" => m.place \in Places /\ m.moved \in BOOLEAN
  BY DEF ObjectMsgs
<1>3. m.kind # "object_despawn" => ObjectProxy(m) \in ProxyObjectRecord
  BY <1>2 DEF ObjectProxy, ProxyObjectRecord
<1>4. NoProxyObject \in ProxyObjectRecord
  BY WorldAssumption DEF NoProxyObject, ProxyObjectRecord
<1>5. m.kind = "object_spawn" =>
         plugin_apply_packet(v, m) =
            IF m.id \in ProxyObjects(v) \/ Cardinality(ProxyObjects(v)) < MaxProxyObjects
            THEN SetObject(v, m.id, ObjectProxy(m)) ELSE v
  BY DEF plugin_apply_packet, proxy_spawn_object, SetObject, ObjectProxy
<1>6. m.kind = "object_update" =>
         plugin_apply_packet(v, m) =
            IF m.id \in ProxyObjects(v) THEN SetObject(v, m.id, ObjectProxy(m)) ELSE v
  <2>1. m.kind = "object_update" /\ m.id \in ProxyObjects(v) =>
          [v.objects[m.id] EXCEPT !.place = m.place, !.moved = m.moved] = ObjectProxy(m)
    <3> SUFFICES ASSUME m.kind = "object_update", m.id \in ProxyObjects(v)
                 PROVE  [v.objects[m.id] EXCEPT !.place = m.place, !.moved = m.moved] = ObjectProxy(m)
      OBVIOUS
    <3> DEFINE x == v.objects[m.id]
               y == [x EXCEPT !.place = m.place, !.moved = m.moved]
    <3>1. x \in ProxyObjectRecord /\ x.in_use = TRUE
      BY <1>1 DEF Views, ProxyObjects, ProxyObjectRecord
    <3> HIDE DEF x
    <3>2. y.in_use = TRUE /\ y.place = m.place /\ y.moved = m.moved
      BY <3>1 DEF ProxyObjectRecord
    <3>3. y \in ProxyObjectRecord
      BY <1>2, <3>1 DEF ProxyObjectRecord
    <3> HIDE DEF y
    <3>4. y = [in_use |-> y.in_use, place |-> y.place, moved |-> y.moved]
      BY <3>3 DEF ProxyObjectRecord
    <3>5. y = ObjectProxy(m)
      BY <3>2, <3>4 DEF ObjectProxy
    <3>. QED  BY <3>5 DEF x, y
  <2>. QED  BY <2>1 DEF plugin_apply_packet, proxy_update_object, SetObject
<1>7. m.kind = "object_despawn" =>
         plugin_apply_packet(v, m) = SetObject(v, m.id, NoProxyObject)
  BY DEF plugin_apply_packet, proxy_despawn_object, SetObject
<1>. QED  BY <1>1, <1>3, <1>4, <1>5, <1>6, <1>7, SetObjectFields

-----------------------------------------------------------------------------
(***************************************************************************)
(* What a client shows once its channel is empty.  A is a set of views     *)
(* that the datagrams B do not lead out of; the proofs below choose A as   *)
(* the views that agree with the service and B as the datagrams that say   *)
(* what is true of it.                                                     *)
(***************************************************************************)

After(v, w) == FoldLeft(plugin_apply_packet, v, w)

Closed(A, B) == \A v \in A, m \in B : plugin_apply_packet(v, m) \in A

LEMMA AfterTrace ==
    ASSUME NEW A, NEW B, Closed(A, B), NEW b \in A, NEW w \in Seq(B)
    PROVE  FoldsTo(A, [x \in A \X B |-> plugin_apply_packet(x[1], x[2])], b, w, After(b, w))
<1> DEFINE F == [x \in A \X B |-> plugin_apply_packet(x[1], x[2])]
           S == SUBSET (1 .. Len(w))
           iter == CHOOSE it : it = [s \in S |-> IF s = {} THEN b
                                                  ELSE plugin_apply_packet(it[s \ {Max(s)}], w[Max(s)])]
<1>0. Len(w) \in Nat
  OBVIOUS
<1>1. /\ F \in [A \X B -> A]
      /\ \A a \in A, m \in B : F[<<a, m>>] = plugin_apply_packet(a, m)
  BY DEF Closed
<1>2. After(b, w) = iter[1 .. Len(w)]
  <2>1. DOMAIN w = 1 .. Len(w)
    OBVIOUS
  <2>. QED  BY <2>1 DEF After, FoldLeft, MapThenFoldSet
<1>3. PICK g \in [S -> A] : FoldsOver(F, b, w, Len(w), g)
  <2> HIDE DEF F
  <2>. QED  BY <1>1, FoldFunctionExists
<1>4. g = [s \in S |-> IF s = {} THEN b ELSE plugin_apply_packet(g[s \ {Max(s)}], w[Max(s)])]
  <2>1. ASSUME NEW s \in S, s # {}
        PROVE  F[<<g[s \ {Max(s)}], w[Max(s)]>>] = plugin_apply_packet(g[s \ {Max(s)}], w[Max(s)])
    <3> DEFINE x == Max(s)
    <3>1. x \in s
      BY <1>0, <2>1, MaxIsIn
    <3> HIDE DEF x, F
    <3>2. s \ {x} \in S /\ x \in 1 .. Len(w)
      BY <3>1
    <3> HIDE DEF S
    <3>3. g[s \ {x}] \in A
      BY <1>3, <3>2
    <3>4. w[x] \in B
      BY <3>2, ElementOfSeq
    <3>. QED  BY <1>1, <3>3, <3>4 DEF x
  <2>2. g = [s \in S |-> IF s = {} THEN b ELSE F[<<g[s \ {Max(s)}], w[Max(s)]>>]]
    BY <1>3 DEF FoldsOver
  <2> HIDE DEF F
  <2>. QED  BY <2>1, <2>2
<1>5. iter = [s \in S |-> IF s = {} THEN b ELSE plugin_apply_packet(iter[s \ {Max(s)}], w[Max(s)])]
  BY <1>4
<1> HIDE DEF iter
<1>6. iter[{}] = b
  BY <1>5
<1>7. ASSUME NEW s \in S, s # {}, iter[s \ {Max(s)}] \in A
      PROVE  iter[s] = F[<<iter[s \ {Max(s)}], w[Max(s)]>>]
  <2>1. w[Max(s)] \in B
    <3>1. Max(s) \in s
      BY <1>0, <1>7, MaxIsIn
    <3>2. Max(s) \in 1 .. Len(w)
      BY <3>1
    <3>. QED  BY <3>2, ElementOfSeq
  <2>2. iter[s] = plugin_apply_packet(iter[s \ {Max(s)}], w[Max(s)])
    BY <1>5, <1>7
  <2> HIDE DEF F
  <2>. QED  BY <1>1, <1>7, <2>1, <2>2
<1>8. FoldsTo(A, F, b, w, iter[1 .. Len(w)])
  <2> HIDE DEF F
  <2>1. StepsBy(A, F, b, w, iter)
    BY <1>6, <1>7 DEF StepsBy
  <2>2. F \in [A \X B -> A]
    BY <1>1
  <2>. QED  BY <2>1, <2>2, FoldSteps
<1>. QED  BY <1>2, <1>8

\* One datagram at a time, from either end.
LEMMA AfterSteps ==
    ASSUME NEW A, NEW B, Closed(A, B), NEW b \in A, NEW w \in Seq(B)
    PROVE  /\ After(b, <<>>) = b
           /\ After(b, w) \in A
           /\ \A m \in B : After(b, Append(w, m)) = plugin_apply_packet(After(b, w), m)
           /\ w # <<>> => After(plugin_apply_packet(b, w[1]), Tail(w)) = After(b, w)
<1> DEFINE F == [x \in A \X B |-> plugin_apply_packet(x[1], x[2])]
<1>1. \A a \in A, m \in B : F[<<a, m>>] = plugin_apply_packet(a, m)
  OBVIOUS
<1>2. \A c \in A, u \in Seq(B) : FoldsTo(A, F, c, u, After(c, u))
  BY AfterTrace
<1> HIDE DEF F
<1>3. After(b, <<>>) = b
  <2>1. <<>> \in Seq(B)
    BY EmptySeq
  <2>2. FoldsTo(A, F, b, <<>>, After(b, <<>>))
    BY <1>2, <2>1
  <2>. QED  BY <2>2, FoldsToOfEmpty
<1>4. FoldsTo(A, F, b, w, After(b, w)) /\ After(b, w) \in A
  <2>1. FoldsTo(A, F, b, w, After(b, w))
    BY <1>2
  <2>. QED  BY <2>1, FoldsToIsIn
<1>5. ASSUME NEW m \in B  PROVE After(b, Append(w, m)) = plugin_apply_packet(After(b, w), m)
  <2>1. Append(w, m) \in Seq(B)
    OBVIOUS
  <2>2. FoldsTo(A, F, b, Append(w, m), After(b, Append(w, m)))
    BY <1>2, <2>1
  <2>3. After(b, Append(w, m)) = F[<<After(b, w), m>>]
    BY <1>4, <2>2, FoldsToAppend
  <2>. QED  BY <1>1, <1>4, <2>3
<1>6. ASSUME w # <<>>  PROVE After(plugin_apply_packet(b, w[1]), Tail(w)) = After(b, w)
  <2>1. Tail(w) \in Seq(B) /\ w[1] \in B
    BY <1>6
  <2>2. plugin_apply_packet(b, w[1]) \in A /\ F[<<b, w[1]>>] = plugin_apply_packet(b, w[1])
    BY <1>1, <2>1 DEF Closed
  <2>3. FoldsTo(A, F, plugin_apply_packet(b, w[1]), Tail(w), After(plugin_apply_packet(b, w[1]), Tail(w)))
    BY <1>2, <2>1, <2>2
  <2>4. StartsWith(F, b, w, plugin_apply_packet(b, w[1]))
    BY <1>6, <2>2 DEF StartsWith
  <2>. QED  BY <1>4, <2>3, <2>4, FoldsToTail
<1>. QED  BY <1>3, <1>4, <1>5, <1>6

\* Datagrams put behind the others are applied to what the others lead to.
LEMMA AfterConcat ==
    ASSUME NEW A, NEW B, Closed(A, B), NEW b \in A, NEW w \in Seq(B), NEW u \in Seq(B)
    PROVE  After(b, w \o u) = After(After(b, w), u)
<1> DEFINE T == {k \in 0 .. Len(u) : After(b, w \o SubSeq(u, 1, k)) = After(After(b, w), SubSeq(u, 1, k))}
<1>1. Len(u) \in Nat /\ After(b, w) \in A
  BY AfterSteps
<1>2. 0 \in T
  <2>1. SubSeq(u, 1, 0) = <<>> /\ w \o <<>> = w
    OBVIOUS
  <2>2. After(After(b, w), <<>>) = After(b, w)
    BY <1>1, AfterSteps
  <2>3. After(b, w \o SubSeq(u, 1, 0)) = After(After(b, w), SubSeq(u, 1, 0))
    BY <2>1, <2>2, Zenon
  <2>. QED  BY <1>1, <2>3
<1>3. ASSUME NEW k \in 1 .. Len(u), k - 1 \in T  PROVE k \in T
  <2> DEFINE s == SubSeq(u, 1, k - 1)
             t == SubSeq(u, 1, k)
  <2>1. s \in Seq(B) /\ u[k] \in B
    <3>1. \A i \in 1 .. (k - 1) : u[i] \in B
      BY <1>1
    <3>. QED  BY <1>1, <3>1, SubSeqProperties
  <2>2. t = Append(s, u[k])
    BY <1>1
  <2>3. After(b, w \o s) = After(After(b, w), s)
    BY <1>3
  <2> HIDE DEF s, t
  <2>4. w \o Append(s, u[k]) = Append(w \o s, u[k]) /\ w \o s \in Seq(B)
    BY <2>1
  <2>. \A x \in A, y \in Seq(B), m \in B : After(x, Append(y, m)) = plugin_apply_packet(After(x, y), m)
    BY AfterSteps
  <2>5. After(b, Append(w \o s, u[k])) = plugin_apply_packet(After(b, w \o s), u[k])
    BY <2>1, <2>4, Zenon
  <2>6. After(After(b, w), Append(s, u[k])) = plugin_apply_packet(After(After(b, w), s), u[k])
    BY <1>1, <2>1, Zenon
  <2>7. After(b, w \o t) = After(After(b, w), t)
    BY <2>2, <2>3, <2>4, <2>5, <2>6
  <2>. QED  BY <1>1, <2>7 DEF t
<1> HIDE DEF T
<1>4. \A k \in 0 .. Len(u) : k \in T
  BY <1>1, <1>2, <1>3, IntervalInduction
<1>5. Len(u) \in T
  BY <1>1, <1>4
<1>6. SubSeq(u, 1, Len(u)) = u
  BY SubSeqFull
<1>. QED  BY <1>5, <1>6 DEF T

LEMMA ViewsClosed == Closed(Views, Msgs)
  BY ApplyActorMsg, ApplyObjectMsg DEF Closed, Msgs

\* A single datagram.
LEMMA AfterOne ==
    ASSUME NEW v \in Views, NEW m \in Msgs
    PROVE  After(v, <<m>>) = plugin_apply_packet(v, m)
<1>1. <<>> \in Seq(Msgs) /\ Append(<<>>, m) = <<m>>
  BY EmptySeq
<1>2. \A w \in Seq(Msgs) : After(v, <<>>) = v /\ After(v, Append(w, m)) = plugin_apply_packet(After(v, w), m)
  BY ViewsClosed, AfterSteps
<1>. QED  BY <1>1, <1>2, Zenon

-----------------------------------------------------------------------------
(***************************************************************************)
(* Objects: a view agrees with the slots os when everything it shows is an *)
(* object of os as os has it (Shown), and when it shows every object with  *)
(* an id from which on it has seen the builds (Built).                     *)
(***************************************************************************)

WellNamed(os) ==
    /\ os \in [ObjectSlots -> ObjectRecord]
    /\ \A i \in InUse(os) : os[i].id \in NetIds
    /\ \A i, j \in InUse(os) : os[i].id = os[j].id => i = j

Shown(os) ==
    {v \in Views : \A id \in ProxyObjects(v) : \E i \in Named(os, id) :
                      /\ v.objects[id].place = os[i].place
                      /\ v.objects[id].moved = os[i].moved}

Built(os, from) ==
    {v \in Views : \A i \in InUse(os) : os[i].id >= from => os[i].id \in ProxyObjects(v)}

\* The datagrams that say where an object is.
TrueObjectMsgs(os) ==
    {ObjectSpawn(os[i]) : i \in InUse(os)} \cup {ObjectUpdate(os[i]) : i \in InUse(os)}

LEMMA ObjectMsgFields ==
    ASSUME NEW o \in ObjectRecord, o.id \in NetIds
    PROVE  /\ ObjectSpawn(o) \in ObjectMsgs /\ ObjectUpdate(o) \in ObjectMsgs
           /\ ObjectSpawn(o).kind = "object_spawn" /\ ObjectUpdate(o).kind = "object_update"
           /\ ObjectSpawn(o).id = o.id /\ ObjectUpdate(o).id = o.id
           /\ ObjectProxy(ObjectSpawn(o)) = [in_use |-> TRUE, place |-> o.place, moved |-> o.moved]
           /\ ObjectProxy(ObjectUpdate(o)) = [in_use |-> TRUE, place |-> o.place, moved |-> o.moved]
           /\ [in_use |-> TRUE, place |-> o.place, moved |-> o.moved] \in ProxyObjectRecord
<1>1. o.place \in Places /\ o.moved \in BOOLEAN
  BY DEF ObjectRecord
<1>2. ObjectSpawn(o) \in ObjectMsgs /\ ObjectUpdate(o) \in ObjectMsgs
  BY <1>1 DEF ObjectSpawn, ObjectUpdate, ObjectMsgs
<1>. QED  BY <1>1, <1>2 DEF ObjectSpawn, ObjectUpdate, ObjectProxy, ProxyObjectRecord

LEMMA SetObjectShows ==
    ASSUME NEW v \in Views, NEW id \in NetIds, NEW x \in ProxyObjectRecord
    PROVE  /\ x.in_use => ProxyObjects(SetObject(v, id, x)) = ProxyObjects(v) \cup {id}
           /\ ~x.in_use => ProxyObjects(SetObject(v, id, x)) = ProxyObjects(v) \ {id}
  BY SetObjectFields DEF ProxyObjects

\* The proxy of slot i's object is set to what the slot holds; about the other
\* objects the slots o2 say what os said.
LEMMA SetKeepsShown ==
    ASSUME NEW os, NEW o2, WellNamed(o2), NEW i \in InUse(o2),
           \A j \in InUse(os) : j # i => j \in InUse(o2) /\ o2[j] = os[j],
           i \in InUse(os) => os[i].id = o2[i].id,
           NEW v \in Shown(os), NEW x \in ProxyObjectRecord,
           x.in_use, x.place = o2[i].place, x.moved = o2[i].moved
    PROVE  SetObject(v, o2[i].id, x) \in Shown(o2)
<1> DEFINE n == o2[i].id
           u == SetObject(v, n, x)
<1>1. v \in Views /\ n \in NetIds
  BY DEF Shown, WellNamed
<1>2. /\ u \in Views /\ u.objects[n] = x
      /\ \A k \in NetIds : k # n => u.objects[k] = v.objects[k]
      /\ ProxyObjects(u) = ProxyObjects(v) \cup {n}
  BY <1>1, SetObjectFields, SetObjectShows
<1>3. i \in Named(o2, n)
  BY DEF Named
<1> HIDE DEF u
<1>4. ASSUME NEW k \in ProxyObjects(u)
      PROVE  \E j \in Named(o2, k) :
                u.objects[k].place = o2[j].place /\ u.objects[k].moved = o2[j].moved
  <2>1. CASE k = n
    BY <1>2, <1>3, <2>1
  <2>2. CASE k # n
    <3>1. k \in ProxyObjects(v) /\ k \in NetIds
      BY <1>2, <2>2 DEF ProxyObjects
    <3>2. PICK j \in Named(os, k) :
             v.objects[k].place = os[j].place /\ v.objects[k].moved = os[j].moved
      BY <3>1 DEF Shown
    <3>3. j \in InUse(os) /\ os[j].id = k /\ j # i
      BY <2>2, <3>2 DEF Named
    <3>4. j \in Named(o2, k) /\ o2[j] = os[j]
      BY <3>3 DEF Named
    <3>. QED  BY <1>2, <2>2, <3>1, <3>2, <3>4
  <2>. QED  BY <2>1, <2>2
<1>5. u \in Shown(o2)
  BY <1>2, <1>4 DEF Shown
<1>. QED  BY <1>5 DEF u

\* What a truthful datagram leads to agrees if what it was applied to did.
LEMMA TruthKeepsShown ==
    ASSUME NEW os, WellNamed(os)
    PROVE  Closed(Shown(os), ActorMsgs \cup TrueObjectMsgs(os))
<1> SUFFICES ASSUME NEW v \in Shown(os), NEW m \in ActorMsgs \cup TrueObjectMsgs(os)
             PROVE  plugin_apply_packet(v, m) \in Shown(os)
  BY DEF Closed
<1>1. v \in Views
  BY DEF Shown
<1>2. CASE m \in ActorMsgs
  <2> DEFINE u == plugin_apply_packet(v, m)
  <2>1. u \in Views /\ u.objects = v.objects
    BY <1>1, <1>2, ApplyActorMsg
  <2> HIDE DEF u
  <2>2. u \in Shown(os)
    BY <2>1 DEF Shown, ProxyObjects
  <2>. QED  BY <2>2 DEF u
<1>3. ASSUME NEW i \in InUse(os), m \in {ObjectSpawn(os[i]), ObjectUpdate(os[i])}
      PROVE  plugin_apply_packet(v, m) \in Shown(os)
  <2> DEFINE x == [in_use |-> TRUE, place |-> os[i].place, moved |-> os[i].moved]
  <2>1. os[i] \in ObjectRecord /\ os[i].id \in NetIds
    BY DEF WellNamed, InUse
  <2>2. x \in ProxyObjectRecord /\ x.in_use /\ x.place = os[i].place /\ x.moved = os[i].moved
    BY <2>1, ObjectMsgFields
  <2>3. /\ m \in ObjectMsgs /\ m.kind \in {"object_spawn", "object_update"}
        /\ m.id = os[i].id /\ ObjectProxy(m) = x
    BY <1>3, <2>1, ObjectMsgFields
  <2> HIDE DEF x
  <2>4. SetObject(v, os[i].id, x) \in Shown(os)
    BY <2>2, SetKeepsShown
  <2>5. plugin_apply_packet(v, m) \in {v, SetObject(v, os[i].id, x)}
    BY <1>1, <2>3, ApplyObjectMsg
  <2>. QED  BY <2>4, <2>5
<1>. QED  BY <1>2, <1>3 DEF TrueObjectMsgs

LEMMA TruthKeepsBuilt ==
    ASSUME NEW os, WellNamed(os), NEW from
    PROVE  Closed(Built(os, from), ActorMsgs \cup TrueObjectMsgs(os))
<1> SUFFICES ASSUME NEW v \in Built(os, from), NEW m \in ActorMsgs \cup TrueObjectMsgs(os)
             PROVE  plugin_apply_packet(v, m) \in Built(os, from)
  BY DEF Closed
<1> DEFINE u == plugin_apply_packet(v, m)
<1>1. v \in Views
  BY DEF Built
<1>2. u \in Views /\ ProxyObjects(v) \subseteq ProxyObjects(u)
  <2>1. CASE m \in ActorMsgs
    <3>1. u \in Views /\ u.objects = v.objects
      BY <1>1, <2>1, ApplyActorMsg
    <3> HIDE DEF u
    <3>. QED  BY <3>1 DEF ProxyObjects
  <2>2. ASSUME NEW i \in InUse(os), m \in {ObjectSpawn(os[i]), ObjectUpdate(os[i])}
        PROVE  u \in Views /\ ProxyObjects(v) \subseteq ProxyObjects(u)
    <3> DEFINE x == [in_use |-> TRUE, place |-> os[i].place, moved |-> os[i].moved]
    <3>1. os[i] \in ObjectRecord /\ os[i].id \in NetIds
      BY DEF WellNamed, InUse
    <3>2. x \in ProxyObjectRecord /\ x.in_use
      BY <3>1, ObjectMsgFields
    <3>3. /\ m \in ObjectMsgs /\ m.kind \in {"object_spawn", "object_update"}
          /\ m.id = os[i].id /\ ObjectProxy(m) = x
      BY <2>2, <3>1, ObjectMsgFields
    <3> HIDE DEF x
    <3>4. u \in {v, SetObject(v, os[i].id, x)} /\ u \in Views
      BY <1>1, <3>3, ApplyObjectMsg
    <3>5. ProxyObjects(SetObject(v, os[i].id, x)) = ProxyObjects(v) \cup {os[i].id}
      BY <1>1, <3>1, <3>2, SetObjectShows
    <3> HIDE DEF u
    <3>. QED  BY <3>4, <3>5
  <2> HIDE DEF u
  <2>. QED  BY <2>1, <2>2 DEF TrueObjectMsgs
<1> HIDE DEF u
<1>3. u \in Built(os, from)
  BY <1>2 DEF Built
<1>. QED  BY <1>3 DEF u

\* A view shows at most as many objects as the service has.
LEMMA ShownAreFew ==
    ASSUME NEW os, NEW v \in Shown(os)
    PROVE  /\ IsFiniteSet(InUse(os)) /\ IsFiniteSet(ProxyObjects(v))
           /\ Cardinality(ProxyObjects(v)) <= Cardinality(InUse(os))
           /\ Cardinality(ProxyObjects(v)) \in Nat /\ Cardinality(InUse(os)) \in Nat
<1> DEFINE P == ProxyObjects(v)
           U == InUse(os)
           f == [id \in P |-> CHOOSE i \in Named(os, id) : TRUE]
<1>1. IsFiniteSet(U)
  <2>1. IsFiniteSet(ObjectSlots) /\ U \subseteq ObjectSlots
    BY FS_Interval, WorldAssumption DEF ObjectSlots, InUse
  <2>. QED  BY <2>1, FS_Subset
<1>2. \A id \in P : f[id] \in U /\ os[f[id]].id = id
  <2> SUFFICES ASSUME NEW id \in P  PROVE f[id] \in Named(os, id)
    BY DEF Named
  <2>1. Named(os, id) # {}
    BY DEF Shown
  <2>. QED  BY <2>1
<1>3. f \in Injection(P, U)
  <2>1. f \in [P -> U]
    BY <1>2
  <2>2. \A a, b \in P : f[a] = f[b] => a = b
    <3> HIDE DEF f
    <3>. QED  BY <1>2
  <2>. QED  BY <2>1, <2>2 DEF Injection, IsInjective
<1>4. IsFiniteSet(P) /\ Cardinality(P) <= Cardinality(U)
  BY <1>1, <1>3, FS_Injection
<1>. QED  BY <1>1, <1>4, FS_CardinalityType

\* ac_handle_build_request: the new object's spawn.
LEMMA BuildAgrees ==
    ASSUME NEW os, NEW o2, WellNamed(o2), NEW i \in InUse(o2), i \notin InUse(os),
           InUse(o2) = InUse(os) \cup {i}, \A j \in InUse(os) : o2[j] = os[j],
           NEW v \in Shown(os)
    PROVE  /\ plugin_apply_packet(v, ObjectSpawn(o2[i])) \in Shown(o2)
           /\ \A from : v \in Built(os, from) /\ Cardinality(InUse(o2)) <= MaxProxyObjects
                 => plugin_apply_packet(v, ObjectSpawn(o2[i])) \in Built(o2, from)
<1> DEFINE m == ObjectSpawn(o2[i])
           x == [in_use |-> TRUE, place |-> o2[i].place, moved |-> o2[i].moved]
           u == SetObject(v, o2[i].id, x)
<1>1. v \in Views /\ o2[i] \in ObjectRecord /\ o2[i].id \in NetIds
  BY DEF Shown, WellNamed, InUse
<1>2. x \in ProxyObjectRecord /\ x.in_use /\ x.place = o2[i].place /\ x.moved = o2[i].moved
  BY <1>1, ObjectMsgFields
<1>3. m \in ObjectMsgs /\ m.kind = "object_spawn" /\ m.id = o2[i].id /\ ObjectProxy(m) = x
  BY <1>1, ObjectMsgFields
<1> HIDE DEF m, x
<1>4. plugin_apply_packet(v, m) =
        IF o2[i].id \in ProxyObjects(v) \/ Cardinality(ProxyObjects(v)) < MaxProxyObjects
        THEN u ELSE v
  BY <1>1, <1>3, ApplyObjectMsg
<1>5. u \in Shown(o2)
  BY <1>2, SetKeepsShown
<1>6. v \in Shown(o2)
  <2>1. \A id : Named(os, id) \subseteq Named(o2, id)
    BY DEF Named
  <2>2. \A id : \A j \in Named(os, id) : o2[j] = os[j]
    BY DEF Named
  <2>. QED  BY <2>1, <2>2 DEF Shown
<1>7. ASSUME NEW from, v \in Built(os, from), Cardinality(InUse(o2)) <= MaxProxyObjects
      PROVE  plugin_apply_packet(v, m) \in Built(o2, from)
  <2>1. Cardinality(InUse(o2)) = Cardinality(InUse(os)) + 1
    BY ShownAreFew, FS_AddElement
  <2>2. Cardinality(ProxyObjects(v)) < MaxProxyObjects
    BY <1>7, <2>1, ShownAreFew, ReplicationAssumption
  <2>3. u \in Views /\ ProxyObjects(u) = ProxyObjects(v) \cup {o2[i].id}
    BY <1>1, <1>2, SetObjectFields, SetObjectShows
  <2> HIDE DEF u
  <2>4. u \in Built(o2, from)
    BY <1>7, <2>3 DEF Built
  <2>. QED  BY <1>4, <2>2, <2>4
<1> HIDE DEF u
<1>. QED  BY <1>4, <1>5, <1>6, <1>7 DEF m

\* ac_handle_object_move: the update.
LEMMA MoveAgrees ==
    ASSUME NEW os, WellNamed(os), NEW o2, WellNamed(o2), NEW i \in InUse(o2),
           InUse(o2) = InUse(os), \A j \in InUse(os) : j # i => o2[j] = os[j],
           o2[i].id = os[i].id,
           NEW v \in Shown(os)
    PROVE  /\ plugin_apply_packet(v, ObjectUpdate(o2[i])) \in Shown(o2)
           /\ \A from : v \in Built(os, from)
                 => plugin_apply_packet(v, ObjectUpdate(o2[i])) \in Built(o2, from)
<1> DEFINE m == ObjectUpdate(o2[i])
           n == o2[i].id
           x == [in_use |-> TRUE, place |-> o2[i].place, moved |-> o2[i].moved]
           u == SetObject(v, n, x)
<1>1. v \in Views /\ o2[i] \in ObjectRecord /\ n \in NetIds
  BY DEF Shown, WellNamed, InUse
<1>2. x \in ProxyObjectRecord /\ x.in_use /\ x.place = o2[i].place /\ x.moved = o2[i].moved
  BY <1>1, ObjectMsgFields
<1>3. m \in ObjectMsgs /\ m.kind = "object_update" /\ m.id = n /\ ObjectProxy(m) = x
  BY <1>1, ObjectMsgFields
<1> HIDE DEF m, x
<1>4. plugin_apply_packet(v, m) = IF n \in ProxyObjects(v) THEN u ELSE v
  BY <1>1, <1>3, ApplyObjectMsg
<1>5. u \in Shown(o2)
  BY <1>2, SetKeepsShown
<1>6. ASSUME n \notin ProxyObjects(v)  PROVE v \in Shown(o2)
  <2>1. ASSUME NEW k \in ProxyObjects(v), NEW j \in Named(os, k)
        PROVE  j \in Named(o2, k) /\ o2[j] = os[j]
    BY <1>6, <2>1 DEF Named
  <2>. QED  BY <2>1 DEF Shown
<1>7. ASSUME NEW from, v \in Built(os, from)  PROVE plugin_apply_packet(v, m) \in Built(o2, from)
  <2>1. u \in Views /\ ProxyObjects(u) = ProxyObjects(v) \cup {n}
    BY <1>1, <1>2, SetObjectFields, SetObjectShows
  <2>2. \A j \in InUse(o2) : o2[j].id = os[j].id
    OBVIOUS
  <2> HIDE DEF u, n
  <2>3. u \in Built(o2, from) /\ v \in Built(o2, from)
    BY <1>1, <1>7, <2>1, <2>2 DEF Built
  <2>. QED  BY <1>4, <2>3
<1> HIDE DEF u
<1>. QED  BY <1>4, <1>5, <1>6, <1>7 DEF m

\* ac_handle_object_scrap: the despawn.
LEMMA ScrapAgrees ==
    ASSUME NEW os, WellNamed(os), NEW o2, NEW i \in InUse(os),
           InUse(o2) = InUse(os) \ {i}, \A j \in InUse(os) : j # i => o2[j] = os[j],
           NEW v \in Shown(os)
    PROVE  /\ ObjectDespawn(os[i].id) \in ObjectMsgs
           /\ plugin_apply_packet(v, ObjectDespawn(os[i].id)) \in Shown(o2)
           /\ \A from : v \in Built(os, from)
                 => plugin_apply_packet(v, ObjectDespawn(os[i].id)) \in Built(o2, from)
<1> DEFINE n == os[i].id
           m == ObjectDespawn(n)
           u == SetObject(v, n, NoProxyObject)
<1>1. v \in Views /\ n \in NetIds
  BY DEF Shown, WellNamed
<1>2. NoProxyObject \in ProxyObjectRecord /\ ~NoProxyObject.in_use
  BY WorldAssumption DEF NoProxyObject, ProxyObjectRecord
<1>3. m \in ObjectMsgs /\ m.kind = "object_despawn" /\ m.id = n
  BY <1>1 DEF ObjectDespawn, ObjectMsgs
<1> HIDE DEF m
<1>4. plugin_apply_packet(v, m) = u
  BY <1>1, <1>3, ApplyObjectMsg
<1>5. /\ u \in Views /\ ProxyObjects(u) = ProxyObjects(v) \ {n}
      /\ \A k \in NetIds : k # n => u.objects[k] = v.objects[k]
  BY <1>1, <1>2, SetObjectFields, SetObjectShows
<1> HIDE DEF u
<1>6. u \in Shown(o2)
  <2>1. ASSUME NEW k \in ProxyObjects(u)
        PROVE  \E j \in Named(o2, k) :
                  u.objects[k].place = o2[j].place /\ u.objects[k].moved = o2[j].moved
    <3>1. k \in ProxyObjects(v) /\ k # n /\ u.objects[k] = v.objects[k]
      BY <1>5 DEF ProxyObjects
    <3>2. PICK j \in Named(os, k) :
             v.objects[k].place = os[j].place /\ v.objects[k].moved = os[j].moved
      BY <3>1 DEF Shown
    <3>3. j \in Named(o2, k) /\ o2[j] = os[j]
      BY <3>1, <3>2 DEF Named
    <3>. QED  BY <3>1, <3>2, <3>3
  <2>. QED  BY <1>5, <2>1 DEF Shown
<1>7. ASSUME NEW from, v \in Built(os, from)  PROVE u \in Built(o2, from)
  <2>1. \A j \in InUse(o2) : j \in InUse(os) /\ o2[j] = os[j] /\ o2[j].id # n
    BY DEF WellNamed
  <2> HIDE DEF n
  <2>. QED  BY <1>5, <1>7, <2>1 DEF Built
<1>. QED  BY <1>3, <1>4, <1>6, <1>7 DEF m

-----------------------------------------------------------------------------
(***************************************************************************)
(* What an iteration sends                                                 *)
(***************************************************************************)

\* A finite set of net ids can be put in order, so InOrder does it.
Ordered(S, f) == \A i, j \in DOMAIN f : i < j => f[i] < f[j]

LEMMA OrderExists ==
    ASSUME NEW S, S \subseteq Nat, IsFiniteSet(S)
    PROVE  \E f \in [1 .. Cardinality(S) -> S] : Ordered(S, f)
<1> DEFINE n == Cardinality(S)
           T == {k \in 0 .. n : \A R \in SUBSET S : Cardinality(R) = k =>
                                   \E f \in [1 .. k -> R] : Ordered(R, f)}
<1>1. n \in Nat
  BY FS_CardinalityType
<1>2. \A R \in SUBSET S : IsFiniteSet(R)
  BY FS_Subset
<1>3. 0 \in T
  <2> SUFFICES ASSUME NEW R \in SUBSET S  PROVE \E f \in [1 .. 0 -> R] : Ordered(R, f)
    BY <1>1
  <2> DEFINE f == [i \in 1 .. 0 |-> 0]
  <2>1. f \in [1 .. 0 -> R] /\ DOMAIN f = 1 .. 0
    OBVIOUS
  <2>2. Ordered(R, f)
    BY <2>1 DEF Ordered
  <2>. QED  BY <2>1, <2>2
<1>4. ASSUME NEW k \in 1 .. n, k - 1 \in T  PROVE k \in T
  <2> SUFFICES ASSUME NEW R \in SUBSET S, Cardinality(R) = k
               PROVE  \E f \in [1 .. k -> R] : Ordered(R, f)
    BY <1>1
  <2> DEFINE a == Min(R)
             Q == R \ {a}
  <2>1. R # {}
    BY <1>1, FS_EmptySet
  <2>2. a \in R /\ \A y \in R : a <= y
    <3>1. R \subseteq Nat
      OBVIOUS
    <3>. QED  BY <2>1, <3>1, MinIsLeast
  <2> HIDE DEF a
  <2>3. Q \in SUBSET S /\ Cardinality(Q) = k - 1
    BY <1>1, <1>2, <2>2, FS_RemoveElement
  <2>4. PICK g \in [1 .. (k - 1) -> Q] : Ordered(Q, g)
    BY <1>4, <2>3
  <2> DEFINE f == [i \in 1 .. k |-> IF i = 1 THEN a ELSE g[i - 1]]
  <2>5. ASSUME NEW i \in 2 .. k
        PROVE  i - 1 \in 1 .. (k - 1) /\ f[i] = g[i - 1] /\ f[i] \in R /\ f[i] # a /\ i \in 1 .. k
    BY <1>1
  <2>6. f[1] = a /\ \A i \in 1 .. k : i = 1 \/ i \in 2 .. k
    BY <1>1
  <2>7. f \in [1 .. k -> R]
    <3>1. \A i \in 1 .. k : f[i] \in R
      <4> HIDE DEF f, Q
      <4>. QED  BY <2>2, <2>5, <2>6
    <3>. QED  BY <3>1
  <2>8. ASSUME NEW i \in 1 .. k, NEW j \in 1 .. k, i < j  PROVE f[i] < f[j]
    <3>1. j \in 2 .. k
      BY <1>1, <2>8
    <3>2. CASE i = 1
      <4>1. f[j] \in Nat /\ a \in Nat /\ f[j] # a /\ a <= f[j]
        <5> HIDE DEF f, Q
        <5>. QED  BY <2>2, <2>5, <3>1
      <4>2. f[i] = a
        BY <2>6, <3>2
      <4> HIDE DEF f
      <4>. QED  BY <4>1, <4>2
    <3>3. CASE i # 1
      <4>1. i \in 2 .. k
        BY <1>1, <3>3
      <4>2. i - 1 \in DOMAIN g /\ j - 1 \in DOMAIN g /\ i - 1 < j - 1
        BY <1>1, <2>5, <2>8, <3>1, <4>1
      <4>3. g[i - 1] < g[j - 1]
        BY <2>4, <4>2 DEF Ordered
      <4>. QED  BY <2>5, <3>1, <4>1, <4>3
    <3>. QED  BY <3>2, <3>3
  <2>9. Ordered(R, f)
    <3>1. DOMAIN f = 1 .. k
      OBVIOUS
    <3> HIDE DEF f
    <3>. QED  BY <2>8, <3>1 DEF Ordered
  <2> HIDE DEF f
  <2>. QED  BY <2>7, <2>9
<1> HIDE DEF T
<1>5. \A k \in 0 .. n : k \in T
  BY <1>1, <1>3, <1>4, IntervalInduction
<1>6. n \in T
  BY <1>1, <1>5
<1>. QED  BY <1>6 DEF T

LEMMA InOrderIsIn ==
    ASSUME NEW k \in 1 .. Cardinality(Actors)
    PROVE  InOrder(Actors)[k] \in Actors
<1>1. \E f \in [1 .. Cardinality(Actors) -> Actors] : Ordered(Actors, f)
  BY OrderExists, WorldAssumption
<1>2. InOrder(Actors) \in [1 .. Cardinality(Actors) -> Actors]
  BY <1>1 DEF InOrder, Ordered
<1>. QED  BY <1>2

\* A broadcast sends some first messages of the list; one alone, if it fits.
LEMMA BroadcastTyped ==
    ASSUME NEW B, NEW msgs \in Seq(B), NEW cs \in SUBSET Clients, NEW base \in Nat,
           NEW c \in Clients
    PROVE  /\ Broadcast(cs, msgs, base)[c] \in Seq(B)
           /\ c \notin cs => Broadcast(cs, msgs, base)[c] = <<>>
<1> DEFINE n == Fits(cs, c, Len(msgs), base)
<1>1. Broadcast(cs, msgs, base)[c] = IF c \in cs THEN SubSeq(msgs, 1, n) ELSE <<>>
  BY DEF Broadcast
<1>2. ASSUME c \in cs  PROVE SubSeq(msgs, 1, n) \in Seq(B)
  <2>1. Len(msgs) \in Nat
    OBVIOUS
  <2>2. n \in 0 .. Len(msgs)
    BY <1>2, <2>1, FitsBounds, Zenon
  <2> HIDE DEF n
  <2>3. \A i \in 1 .. n : msgs[i] \in B
    BY <2>1, <2>2
  <2>. QED  BY <2>1, <2>2, <2>3, SubSeqProperties
<1> HIDE DEF n
<1>. QED  BY <1>1, <1>2, EmptySeq

LEMMA BroadcastOne ==
    ASSUME NEW m, NEW cs \in SUBSET Clients, NEW base \in Nat, NEW c \in cs,
           base + Cardinality(cs) <= MaxOutputs
    PROVE  Broadcast(cs, <<m>>, base)[c] = <<m>>
<1>1. <<m>> \in Seq({m}) /\ Len(<<m>>) = 1
  OBVIOUS
<1>2. SubSeq(<<m>>, 1, 1) = <<m>>
  BY <1>1, SubSeqFull
<1>3. Fits(cs, c, Len(<<m>>), base) = 1
  BY <1>1, FitsBounds
<1>4. Broadcast(cs, <<m>>, base)[c] = SubSeq(<<m>>, 1, Fits(cs, c, Len(<<m>>), base))
  BY DEF Broadcast
<1>. QED  BY <1>2, <1>3, <1>4

Farewells == {ActorDespawn(a) : a \in Actors}

LEMMA DespawnsTyped ==
    ASSUME NEW t, NEW gone \in SUBSET ({t} \cap Actors)
    PROVE  Despawns(gone) \in Seq(Farewells) /\ (gone = {} => Despawns(gone) = <<>>)
<1>1. CASE gone = {}
  <2>1. Cardinality({}) = 0
    BY FS_EmptySet
  <2>2. Despawns({}) = [k \in 1 .. 0 |-> ActorDespawn(InOrder({})[k])]
    BY <2>1 DEF Despawns
  <2>3. Despawns({}) = <<>>
    <3> DEFINE D(k) == ActorDespawn(InOrder({})[k])
    <3>1. Despawns({}) = [k \in 1 .. 0 |-> D(k)]
      BY <2>2
    <3> HIDE DEF D
    <3>. QED  BY <3>1
  <2>. QED  BY <1>1, <2>3, EmptySeq
<1>2. CASE gone # {}
  <2>1. gone = {t} /\ t \in Actors /\ t \in Nat
    BY <1>2, WorldAssumption
  <2> DEFINE x == InOrder({t})[1]
             D(k) == ActorDespawn(InOrder({t})[k])
  <2>2. Cardinality({t}) = 1 /\ x = t
    BY <2>1, OrderOfOne
  <2>3. Despawns(gone) = [k \in 1 .. 1 |-> D(k)]
    <3>1. Despawns({t}) = [k \in 1 .. Cardinality({t}) |-> D(k)]
      BY DEF Despawns
    <3>. QED  BY <2>1, <2>2, <3>1
  <2>4. D(1) \in Farewells
    BY <2>1, <2>2 DEF Farewells
  <2> HIDE DEF D
  <2>5. [k \in 1 .. 1 |-> D(k)] \in Seq(Farewells)
    BY <2>4
  <2>. QED  BY <1>2, <2>3, <2>5
<1>. QED  BY <1>1, <1>2

\* What a tick adds to what the handler put into the buffer for c.
Adds(as, cs, out, c) ==
    \E l \in Seq(Farewells) :
        /\ outputs'[c] = out[c] \o l
        /\ (\A a \in Actors : as[a].in_use => ~as[a].dead) \/ c \notin cs => l = <<>>

LEMMA TickTyped ==
    ASSUME NEW as \in [Actors -> ActorRecord], NEW t,
           \A a \in Actors : as[a].in_use => ~as[a].pending /\ (as[a].dead => a = t),
           NEW cs \in SUBSET Clients, NEW out, NEW base \in Nat,
           tl_tick(as, cs, out, base), NEW c \in Clients
    PROVE  Adds(as, cs, out, c)
<1> DEFINE ts == ac_tick(as)
           gone == Despawned(ts)
           l == Broadcast(cs, Despawns(gone), base)[c]
<1>1. outputs'[c] = out[c] \o l
  BY DEF tl_tick
<1>2. gone \subseteq {t} \cap Actors
  BY TickDooms DEF Despawned, Doomed
<1>3. ASSUME \A a \in Actors : as[a].in_use => ~as[a].dead  PROVE gone = {}
  <2>1. \A a \in Actors : ts[a] = as[a]
    BY <1>3 DEF ac_tick
  <2> HIDE DEF ts
  <2>. QED  BY <1>3, <2>1 DEF Despawned, Doomed
<1> HIDE DEF gone
<1>4. Despawns(gone) \in Seq(Farewells) /\ (gone = {} => Despawns(gone) = <<>>)
  BY <1>2, DespawnsTyped
<1>5. l \in Seq(Farewells) /\ (c \notin cs => l = <<>>)
  BY <1>4, BroadcastTyped
<1>6. Despawns(gone) = <<>> => l = <<>>
  <2> SUFFICES ASSUME Despawns(gone) = <<>>  PROVE l = <<>>
    OBVIOUS
  <2>1. Despawns(gone) \in Seq({})
    BY EmptySeq
  <2>2. l \in Seq({})
    BY <2>1, BroadcastTyped
  <2> HIDE DEF l
  <2>. QED  BY <2>2
<1> HIDE DEF l
<1>. QED  BY <1>1, <1>3, <1>4, <1>5, <1>6 DEF Adds

\* A tick that finds no corpse changes and adds nothing.
LEMMA QuietTickSays ==
    ASSUME NEW as \in [Actors -> ActorRecord],
           \A a \in Actors : as[a].in_use => ~as[a].pending /\ ~as[a].dead,
           NEW cs \in SUBSET Clients, NEW out, NEW base \in Nat,
           tl_tick(as, cs, out, base)
    PROVE  /\ actors' = as
           /\ \A c \in Clients : \A B : out[c] \in Seq(B) => outputs'[c] = out[c]
<1> PICK t : t \notin Actors
  BY WorldAssumption
<1>1. \A a \in Actors : as[a].in_use => ~as[a].pending /\ (as[a].dead => a = t)
  OBVIOUS
<1>2. actors' = as
  <2> DEFINE ts == ac_tick(as)
             gone == Despawned(ts)
  <2>1. actors' = [a \in Actors |-> IF a \in gone THEN NoActor ELSE ts[a]]
    BY DEF tl_tick
  <2>2. gone \subseteq {t}
    BY <1>1, TickDooms DEF Despawned
  <2>3. \A a \in Actors : ts[a] = as[a]
    BY DEF ac_tick
  <2> HIDE DEF ts, gone
  <2>4. actors' = [a \in Actors |-> as[a]]
    BY <2>1, <2>2, <2>3
  <2>. QED  BY <2>4
<1>3. ASSUME NEW c \in Clients, NEW B, out[c] \in Seq(B)  PROVE outputs'[c] = out[c]
  <2> DEFINE Q == \A a \in Actors : as[a].in_use => ~as[a].dead
  <2>1. PICK l \in Seq(Farewells) : outputs'[c] = out[c] \o l /\ (Q \/ c \notin cs => l = <<>>)
    <3>1. Adds(as, cs, out, c)
      BY <1>1, TickTyped
    <3>. QED  BY <3>1, Zenon DEF Adds
  <2>2. Q
    OBVIOUS
  <2> HIDE DEF Q
  <2>3. l = <<>>
    BY <2>1, <2>2
  <2>. QED  BY <1>3, <2>1, <2>3
<1>. QED  BY <1>2, <1>3

-----------------------------------------------------------------------------
(***************************************************************************)
(* The replay of MSG_HELLO                                                 *)
(***************************************************************************)

ActorBlocks(as, p) ==
    [k \in 1 .. Cardinality(Actors) |->
        LET a == InOrder(Actors)[k]
        IN  IF as[a].in_use /\ <<ActorPlace[a], p>> \in Near
            THEN <<ActorSpawn(a), ActorState(a, as[a])>> ELSE <<>>]

ObjectBlocks(os, p) ==
    [i \in ObjectSlots |->
        IF os[i].in_use /\ <<os[i].place, p>> \in Near THEN <<ObjectSpawn(os[i])>> ELSE <<>>]

LEMMA ReplayHasBlocks ==
    ASSUME NEW as, NEW os, NEW p
    PROVE  ReplayOf(as, os, p) = FlattenSeq(ActorBlocks(as, p)) \o FlattenSeq(ObjectBlocks(os, p))
  BY Zenon DEF ReplayOf, ActorBlocks, ObjectBlocks

LEMMA ActorMsgFields ==
    ASSUME NEW a \in Actors, NEW q \in ActorRecord
    PROVE  /\ ActorSpawn(a) \in ActorMsgs /\ ActorState(a, q) \in ActorMsgs
           /\ Damage(a, q) \in ActorMsgs /\ Death(a) \in ActorMsgs /\ ActorDespawn(a) \in ActorMsgs
           /\ ActorSpawn(a).kind = "actor_spawn" /\ ActorSpawn(a).id = a
           /\ ActorState(a, q).kind = "actor_state" /\ ActorState(a, q).id = a
           /\ ActorState(a, q).health = q.health
           /\ Damage(a, q).kind = "damage" /\ Damage(a, q).id = a /\ Damage(a, q).health = q.health
           /\ Death(a).kind = "death" /\ Death(a).id = a
           /\ ActorDespawn(a).kind = "actor_despawn" /\ ActorDespawn(a).id = a
<1>1. q.health \in 0 .. Full
  BY DEF ActorRecord
<1>2. ActorState(a, q) \in ActorMsgs /\ Damage(a, q) \in ActorMsgs
  BY <1>1 DEF ActorMsgs, ActorState, Damage
<1>3. ActorSpawn(a) \in ActorMsgs /\ Death(a) \in ActorMsgs /\ ActorDespawn(a) \in ActorMsgs
  BY DEF ActorMsgs, ActorSpawn, Death, ActorDespawn
<1>. QED  BY <1>2, <1>3 DEF ActorSpawn, ActorState, Damage, Death, ActorDespawn

LEMMA BlocksOfActors ==
    ASSUME NEW as \in [Actors -> ActorRecord], NEW p
    PROVE  /\ ActorBlocks(as, p) \in Seq(Seq(ActorMsgs))
           /\ Len(ActorBlocks(as, p)) = Cardinality(Actors) /\ Cardinality(Actors) \in Nat
           /\ \A k \in 1 .. Cardinality(Actors) :
                 \/ ActorBlocks(as, p)[k] = <<>>
                 \/ \E a \in Actors : /\ as[a].in_use
                                      /\ ActorBlocks(as, p)[k] = <<ActorSpawn(a), ActorState(a, as[a])>>
<1> DEFINE s == ActorBlocks(as, p)
           n == Cardinality(Actors)
<1>1. n \in Nat
  BY FS_CardinalityType, WorldAssumption
<1>2. ASSUME NEW k \in 1 .. n
      PROVE  \/ s[k] = <<>>
             \/ \E a \in Actors : as[a].in_use /\ s[k] = <<ActorSpawn(a), ActorState(a, as[a])>>
  <2> DEFINE a == InOrder(Actors)[k]
  <2>1. a \in Actors
    BY InOrderIsIn
  <2>2. s[k] = IF as[a].in_use /\ <<ActorPlace[a], p>> \in Near
               THEN <<ActorSpawn(a), ActorState(a, as[a])>> ELSE <<>>
    BY DEF ActorBlocks
  <2> HIDE DEF a, s
  <2>. QED  BY <2>1, <2>2, Zenon
<1>3. ASSUME NEW k \in 1 .. n  PROVE s[k] \in Seq(ActorMsgs)
  <2>1. \A a \in Actors : <<ActorSpawn(a), ActorState(a, as[a])>> \in Seq(ActorMsgs)
    <3> SUFFICES ASSUME NEW a \in Actors  PROVE <<ActorSpawn(a), ActorState(a, as[a])>> \in Seq(ActorMsgs)
      OBVIOUS
    <3>1. as[a] \in ActorRecord
      OBVIOUS
    <3>2. ActorSpawn(a) \in ActorMsgs /\ ActorState(a, as[a]) \in ActorMsgs
      BY <3>1, ActorMsgFields
    <3> DEFINE x == ActorSpawn(a)
               y == ActorState(a, as[a])
    <3> HIDE DEF x, y
    <3>3. x \in ActorMsgs /\ y \in ActorMsgs => <<x, y>> \in Seq(ActorMsgs)
      OBVIOUS
    <3>. QED  BY <3>2, <3>3 DEF x, y
  <2> HIDE DEF s
  <2>. QED  BY <1>2, <2>1, EmptySeq
<1>4. s = [k \in 1 .. n |-> s[k]]
  BY DEF ActorBlocks
<1> HIDE DEF s, n
<1>5. s \in Seq(Seq(ActorMsgs)) /\ Len(s) = n
  BY <1>1, <1>3, <1>4
<1>. QED  BY <1>1, <1>2, <1>5 DEF s, n

LEMMA BlocksOfObjects ==
    ASSUME NEW os, NEW p
    PROVE  ObjectBlocks(os, p) \in Seq(Seq(TrueObjectMsgs(os)))
<1> DEFINE s == ObjectBlocks(os, p)
<1>1. ASSUME NEW i \in ObjectSlots  PROVE s[i] \in Seq(TrueObjectMsgs(os))
  <2>1. s[i] = IF os[i].in_use /\ <<os[i].place, p>> \in Near THEN <<ObjectSpawn(os[i])>> ELSE <<>>
    BY DEF ObjectBlocks
  <2>2. os[i].in_use => ObjectSpawn(os[i]) \in TrueObjectMsgs(os)
    BY DEF TrueObjectMsgs, InUse
  <2> DEFINE x == ObjectSpawn(os[i])
  <2> HIDE DEF x, s
  <2>3. x \in TrueObjectMsgs(os) => <<x>> \in Seq(TrueObjectMsgs(os))
    OBVIOUS
  <2>4. CASE os[i].in_use /\ <<os[i].place, p>> \in Near
    BY <2>1, <2>2, <2>3, <2>4 DEF x
  <2>5. CASE ~(os[i].in_use /\ <<os[i].place, p>> \in Near)
    BY <2>1, <2>5, EmptySeq
  <2>. QED  BY <2>4, <2>5
<1>2. s = [i \in 1 .. MaxObjects |-> s[i]]
  BY DEF ObjectBlocks, ObjectSlots
<1> DEFINE U == Seq(TrueObjectMsgs(os))
<1> HIDE DEF s, U
<1>3. MaxObjects \in Nat
  BY WorldAssumption
<1>4. \A i \in 1 .. MaxObjects : s[i] \in U
  BY <1>1 DEF U, ObjectSlots
<1>5. s \in Seq(U)
  BY <1>2, <1>3, <1>4
<1>. QED  BY <1>5 DEF s, U

\* The replay says nothing but the truth about objects.
LEMMA ReplayTyped ==
    ASSUME NEW as \in [Actors -> ActorRecord], NEW os, NEW p
    PROVE  ReplayOf(as, os, p) \in Seq(ActorMsgs \cup TrueObjectMsgs(os))
<1> DEFINE x == FlattenSeq(ActorBlocks(as, p))
           y == FlattenSeq(ObjectBlocks(os, p))
           U == ActorMsgs \cup TrueObjectMsgs(os)
<1>1. x \in Seq(ActorMsgs) /\ y \in Seq(TrueObjectMsgs(os))
  BY BlocksOfActors, BlocksOfObjects, FlattenTyped
<1>2. ReplayOf(as, os, p) = x \o y
  BY ReplayHasBlocks
<1> HIDE DEF x, y
<1>3. x \in Seq(U) /\ y \in Seq(U)
  BY <1>1
<1> HIDE DEF U
<1>4. x \o y \in Seq(U)
  BY <1>3
<1>. QED  BY <1>2, <1>4 DEF U

-----------------------------------------------------------------------------
(***************************************************************************)
(* What the outputs of an iteration do to a view that agrees about objects *)
(***************************************************************************)

\* A build result and the spawn to everybody: with the 7 players of the code
\* these are 8 of 64 outputs.
ObjectFits == 1 + Cardinality(Clients) <= MaxOutputs

\* Every object has a net id that was given out.
IdsAreGiven == \A i \in InUse(objects) : objects[i].id \in NetIds

ObjectsLead(w) ==
    \A v \in Shown(objects) :
        /\ After(v, w) \in Shown(objects')
        /\ \A from : v \in Built(objects, from) /\ Cardinality(InUse(objects)') <= MaxProxyObjects
              => After(v, w) \in Built(objects', from)

LEMMA SlotsAreNamed ==
    ASSUME WInv, IdsAreGiven
    PROVE  WellNamed(objects)
  BY DEF WInv, TypeOK, NetIdsAreUnique, IdsAreGiven, WellNamed

LEMMA TrueMsgsAreMsgs ==
    ASSUME NEW os, WellNamed(os)
    PROVE  ActorMsgs \cup TrueObjectMsgs(os) \subseteq Msgs
<1>1. \A i \in InUse(os) : os[i] \in ObjectRecord /\ os[i].id \in NetIds
  BY DEF WellNamed, InUse
<1>2. TrueObjectMsgs(os) \subseteq ObjectMsgs
  BY <1>1, ObjectMsgFields DEF TrueObjectMsgs
<1>. QED  BY <1>2 DEF Msgs

\* Nothing changed, and what is said of the objects is true.
LEMMA TruthLeads ==
    ASSUME WInv, IdsAreGiven, UNCHANGED objects,
           NEW w \in Seq(ActorMsgs \cup TrueObjectMsgs(objects))
    PROVE  w \in Seq(Msgs) /\ ObjectsLead(w)
<1>1. WellNamed(objects)
  BY SlotsAreNamed
<1>2. w \in Seq(Msgs)
  BY <1>1, TrueMsgsAreMsgs
<1>3. \A v \in Shown(objects) : After(v, w) \in Shown(objects)
  BY <1>1, TruthKeepsShown, AfterSteps
<1>4. \A from : \A v \in Built(objects, from) : After(v, w) \in Built(objects, from)
  BY <1>1, TruthKeepsBuilt, AfterSteps
<1>5. objects' = objects
  OBVIOUS
<1>. QED  BY <1>2, <1>3, <1>4, <1>5, Zenon DEF ObjectsLead

\* A single datagram says what changed.
LEMMA NewsLeads ==
    ASSUME NEW m \in ObjectMsgs,
           \A v \in Shown(objects) :
              /\ plugin_apply_packet(v, m) \in Shown(objects')
              /\ \A from : v \in Built(objects, from)
                            /\ Cardinality(InUse(objects)') <= MaxProxyObjects
                    => plugin_apply_packet(v, m) \in Built(objects', from)
    PROVE  <<m>> \in Seq(Msgs) /\ ObjectsLead(<<m>>)
<1>1. m \in Msgs
  BY DEF Msgs
<1>2. \A v \in Shown(objects) : After(v, <<m>>) = plugin_apply_packet(v, m)
  <2>1. \A v \in Shown(objects) : v \in Views
    BY DEF Shown
  <2>. QED  BY <1>1, <2>1, AfterOne
<1>3. ObjectsLead(<<m>>)
  BY <1>2, Zenon DEF ObjectsLead
<1>4. <<m>> \in Seq(Msgs)
  BY <1>1
<1>. QED  BY <1>3, <1>4

\* The steps that leave the objects alone, after whatever the handler sent.
LEMMA TickLeads ==
    ASSUME WInv, IdsAreGiven, UNCHANGED objects,
           NEW as \in [Actors -> ActorRecord], NEW t,
           \A a \in Actors : as[a].in_use => ~as[a].pending /\ (as[a].dead => a = t),
           NEW cs \in SUBSET Clients, NEW out, NEW base \in Nat,
           tl_tick(as, cs, out, base), NEW d \in Clients,
           out[d] \in Seq(ActorMsgs \cup TrueObjectMsgs(objects))
    PROVE  outputs'[d] \in Seq(Msgs) /\ ObjectsLead(outputs'[d])
<1> DEFINE U == ActorMsgs \cup TrueObjectMsgs(objects)
<1>1. Adds(as, cs, out, d)
  BY TickTyped
<1>2. PICK l \in Seq(Farewells) : outputs'[d] = out[d] \o l
  BY <1>1, Zenon DEF Adds
<1>3. Farewells \subseteq U
  <2>1. NoActor \in ActorRecord
    BY DEF NoActor, ActorRecord, Full
  <2>. QED  BY <2>1, ActorMsgFields DEF Farewells
<1>4. out[d] \in Seq(U)
  OBVIOUS
<1> HIDE DEF U
<1>5. l \in Seq(U)
  BY <1>3
<1>6. outputs'[d] \in Seq(U)
  BY <1>2, <1>4, <1>5
<1>. QED  BY <1>6, TruthLeads DEF U

\* Build, move and scrap: the actors are left alone, so the outputs are one
\* broadcast.
LEMMA ObjectTick ==
    ASSUME WInv, NEW m, NEW base \in Nat, NEW b2 \in Nat,
           connected' = connected, ObjectFits, base <= 1,
           tl_tick(actors, connected, Broadcast(connected, <<m>>, base), b2),
           NEW d \in Clients
    PROVE  outputs'[d] = IF d \in connected' THEN <<m>> ELSE <<>>
<1>1. /\ connected \in SUBSET Clients /\ actors \in [Actors -> ActorRecord]
      /\ \A a \in Actors : actors[a].in_use => ~actors[a].pending /\ ~actors[a].dead
  BY DEF WInv, TypeOK, NoCorpseStays
<1>2. <<m>> \in Seq({m})
  OBVIOUS
<1>3. Broadcast(connected, <<m>>, base)[d] \in Seq({m})
      /\ (d \notin connected => Broadcast(connected, <<m>>, base)[d] = <<>>)
  BY <1>1, <1>2, BroadcastTyped
<1>4. base + Cardinality(connected) <= MaxOutputs
  <2>1. Cardinality(connected) \in Nat /\ Cardinality(Clients) \in Nat
        /\ Cardinality(connected) <= Cardinality(Clients)
    BY <1>1, FS_Subset, FS_CardinalityType, WorldAssumption
  <2>. QED  BY <2>1, WorldAssumption DEF ObjectFits
<1>5. d \in connected => Broadcast(connected, <<m>>, base)[d] = <<m>>
  BY <1>1, <1>4, BroadcastOne
<1>6. outputs'[d] = Broadcast(connected, <<m>>, base)[d]
  BY <1>1, <1>3, QuietTickSays
<1>. QED  BY <1>3, <1>5, <1>6

LEMMA HelloBaseIsNat ==
    ASSUME NEW cs \in SUBSET Clients, NEW c \in cs
    PROVE  /\ HelloBase(cs) \in Nat
           /\ HelloBase(cs) <= 4 + Cardinality(Clients) /\ Cardinality(Clients) \in Nat
<1>1. IsFiniteSet(cs) /\ Cardinality(cs) \in Nat /\ Cardinality(Clients) \in Nat
      /\ Cardinality(cs) <= Cardinality(Clients)
  BY FS_Subset, FS_CardinalityType, WorldAssumption
<1>2. Cardinality(cs) # 0
  BY <1>1, FS_EmptySet
<1>. QED  BY <1>1, <1>2 DEF HelloBase

\* MSG_HELLO: the replay tells c what is true, the others hear nothing of it.
LEMMA HelloLeads ==
    ASSUME WInv, IdsAreGiven, NEW c \in Clients, Hello(c), NEW d \in Clients
    PROVE  outputs'[d] \in Seq(Msgs) /\ ObjectsLead(outputs'[d])
<1> DEFINE cs == connected \cup {c}
           U == ActorMsgs \cup TrueObjectMsgs(objects)
<1>1. /\ connected \in SUBSET Clients /\ actors \in [Actors -> ActorRecord]
      /\ \A a \in Actors : actors[a].in_use => ~actors[a].pending /\ ~actors[a].dead
  BY DEF WInv, TypeOK, NoCorpseStays
<1>2. PICK p : /\ tl_tick(actors, cs, HelloReply(cs, c, ReplayOf(actors, objects, p)),
                          HelloBase(cs) + Len(ReplayOf(actors, objects, p)))
               /\ UNCHANGED objects
  BY DEF Hello
<1> DEFINE w == ReplayOf(actors, objects, p)
           out == HelloReply(cs, c, w)
<1>3. cs \in SUBSET Clients /\ c \in cs /\ {c} \in SUBSET Clients
  BY <1>1
<1>4. w \in Seq(U)
  BY <1>1, ReplayTyped
<1> HIDE DEF cs, w
<1>5. HelloBase(cs) \in Nat /\ HelloBase(cs) + Len(w) \in Nat
  BY <1>3, <1>4, HelloBaseIsNat
<1>6. out[d] \in Seq(U)
  BY <1>3, <1>4, <1>5, BroadcastTyped DEF HelloReply
<1>7. tl_tick(actors, cs, out, HelloBase(cs) + Len(w))
  BY <1>2 DEF w
<1>8. \A a \in Actors : actors[a].in_use => ~actors[a].pending /\ (actors[a].dead => a = c)
  BY <1>1
<1> HIDE DEF out
<1>. QED  BY <1>1, <1>2, <1>3, <1>5, <1>6, <1>7, <1>8, TickLeads DEF U

\* A step that says nothing itself and leaves the actors to the tick.
LEMMA SilenceLeads ==
    ASSUME WInv, IdsAreGiven, UNCHANGED objects, NEW cs \in SUBSET Clients, NEW base \in Nat,
           tl_tick(actors, cs, Silence, base), NEW d \in Clients
    PROVE  outputs'[d] \in Seq(Msgs) /\ ObjectsLead(outputs'[d])
<1>1. /\ actors \in [Actors -> ActorRecord]
      /\ \A a \in Actors : actors[a].in_use => ~actors[a].pending /\ (actors[a].dead => a = d)
  BY DEF WInv, TypeOK, NoCorpseStays
<1>2. Silence[d] \in Seq(ActorMsgs \cup TrueObjectMsgs(objects))
  BY EmptySeq DEF Silence
<1>. QED  BY <1>1, <1>2, TickLeads

\* A shot: nothing is said of objects.
LEMMA FireSays ==
    ASSUME WInv, NEW c \in Clients, NEW t \in Actors, ac_handle_fire_intent(c, t)
    PROVE  \E q \in ActorRecord, msgs \in Seq(ActorMsgs) :
              /\ q = Hit(actors[t]) /\ q.in_use /\ ~q.pending
              /\ actors[t].in_use /\ ~actors[t].dead
              /\ msgs = <<Damage(t, q), ActorState(t, q)>> \o (IF q.dead THEN <<Death(t)>> ELSE <<>>)
              /\ Len(msgs) = IF q.dead THEN 3 ELSE 2
              /\ tl_tick([actors EXCEPT ![t] = q], connected, Broadcast(connected, msgs, 0),
                         Len(msgs) * Cardinality(connected))
              /\ [actors EXCEPT ![t] = q] \in [Actors -> ActorRecord]
              /\ \A a \in Actors : [actors EXCEPT ![t] = q][a].in_use =>
                    /\ ~[actors EXCEPT ![t] = q][a].pending
                    /\ [actors EXCEPT ![t] = q][a].dead => a = t
<1> DEFINE q == Hit(actors[t])
           msgs == <<Damage(t, q), ActorState(t, q)>> \o (IF q.dead THEN <<Death(t)>> ELSE <<>>)
           as == [actors EXCEPT ![t] = q]
<1>1. /\ actors \in [Actors -> ActorRecord]
      /\ \A a \in Actors : actors[a].in_use => ~actors[a].pending /\ ~actors[a].dead
  BY DEF WInv, TypeOK, NoCorpseStays
<1>2. /\ actors[t].in_use /\ ~actors[t].dead
      /\ tl_tick(as, connected, Broadcast(connected, msgs, 0), Len(msgs) * Cardinality(connected))
  BY DEF ac_handle_fire_intent, Targets
<1>3. q \in ActorRecord /\ q.in_use /\ ~q.pending
  BY <1>1, <1>2, HitKeepsRecord
<1>4. msgs \in Seq(ActorMsgs) /\ Len(msgs) = IF q.dead THEN 3 ELSE 2
  <2> DEFINE x == Damage(t, q)
             y == ActorState(t, q)
             z == Death(t)
  <2>1. x \in ActorMsgs /\ y \in ActorMsgs /\ z \in ActorMsgs
    BY <1>3, ActorMsgFields
  <2> HIDE DEF x, y, z, q
  <2>2. <<x, y>> \in Seq(ActorMsgs) /\ <<z>> \in Seq(ActorMsgs) /\ <<>> \in Seq(ActorMsgs)
        /\ Len(<<x, y>>) = 2 /\ Len(<<z>>) = 1 /\ Len(<<>>) = 0
    BY <2>1
  <2>3. <<x, y>> \o (IF q.dead THEN <<z>> ELSE <<>>) \in Seq(ActorMsgs)
        /\ Len(<<x, y>> \o (IF q.dead THEN <<z>> ELSE <<>>)) = IF q.dead THEN 3 ELSE 2
    <3>1. CASE q.dead
      BY <2>2, <3>1
    <3>2. CASE ~q.dead
      BY <2>2, <3>2
    <3>. QED  BY <3>1, <3>2
  <2>. QED  BY <2>3 DEF x, y, z
<1>5. as \in [Actors -> ActorRecord]
      /\ \A a \in Actors : as[a].in_use => ~as[a].pending /\ (as[a].dead => a = t)
  <2> HIDE DEF q
  <2>1. as[t] = q /\ \A a \in Actors : a # t => as[a] = actors[a]
    BY <1>1
  <2>2. as \in [Actors -> ActorRecord]
    BY <1>1, <1>3
  <2> HIDE DEF as
  <2>. QED  BY <1>1, <1>3, <2>1, <2>2
<1> HIDE DEF q
<1>6. q = Hit(actors[t])
  BY DEF q
<1>7. msgs = <<Damage(t, q), ActorState(t, q)>> \o (IF q.dead THEN <<Death(t)>> ELSE <<>>)
  OBVIOUS
<1> HIDE DEF msgs
<1>. QED  BY <1>2, <1>3, <1>4, <1>5, <1>6, <1>7, Zenon

LEMMA FireLeads ==
    ASSUME WInv, IdsAreGiven, NEW c \in Clients, NEW t \in Actors, ac_handle_fire_intent(c, t),
           NEW d \in Clients
    PROVE  outputs'[d] \in Seq(Msgs) /\ ObjectsLead(outputs'[d])
<1>1. PICK q \in ActorRecord, msgs \in Seq(ActorMsgs) :
              /\ tl_tick([actors EXCEPT ![t] = q], connected, Broadcast(connected, msgs, 0),
                         Len(msgs) * Cardinality(connected))
              /\ [actors EXCEPT ![t] = q] \in [Actors -> ActorRecord]
              /\ \A a \in Actors : [actors EXCEPT ![t] = q][a].in_use =>
                    /\ ~[actors EXCEPT ![t] = q][a].pending
                    /\ [actors EXCEPT ![t] = q][a].dead => a = t
  BY FireSays, Zenon
<1> DEFINE as == [actors EXCEPT ![t] = q]
           out == Broadcast(connected, msgs, 0)
           base == Len(msgs) * Cardinality(connected)
<1>2. connected \in SUBSET Clients /\ UNCHANGED objects
  BY DEF WInv, TypeOK, ac_handle_fire_intent
<1>3. base \in Nat
  <2>1. IsFiniteSet(connected)
    BY <1>2, FS_Subset, WorldAssumption
  <2>2. Cardinality(connected) \in Nat
    BY <2>1, FS_CardinalityType
  <2>3. Len(msgs) \in Nat
    OBVIOUS
  <2>. QED  BY <2>2, <2>3
<1>4. out[d] \in Seq(ActorMsgs)
  BY <1>2, BroadcastTyped
<1>5. out[d] \in Seq(ActorMsgs \cup TrueObjectMsgs(objects))
  <2> HIDE DEF out
  <2>. QED  BY <1>4
<1>6. /\ as \in [Actors -> ActorRecord]
      /\ \A a \in Actors : as[a].in_use => ~as[a].pending /\ (as[a].dead => a = t)
      /\ tl_tick(as, connected, out, base)
  BY <1>1, Zenon
<1> HIDE DEF as, out, base
<1>. QED  BY <1>2, <1>3, <1>5, <1>6, TickLeads

LEMMA BuildLeads ==
    ASSUME WInv, WInv', IdsAreGiven, ObjectFits, NEW c \in Clients,
           NEW s \in Settlements, NEW p \in Places, ac_handle_build_request(c, s, p),
           NEW d \in Clients
    PROVE  /\ IdsAreGiven'
           /\ outputs'[d] \in Seq(Msgs) /\ (d \in connected' => ObjectsLead(outputs'[d]))
<1> DEFINE k == Min(ObjectSlots \ InUse(objects))
           new == [in_use |-> TRUE, id |-> nextObject, settlement |-> s,
                   place |-> p, moved |-> FALSE]
           m == ObjectSpawn(objects'[k])
<1>1. k \in ObjectSlots \ InUse(objects)
  BY SearchFindsSlot DEF ac_handle_build_request
<1>2. /\ objects \in [ObjectSlots -> ObjectRecord] /\ nextObject \in NetIds
      /\ connected' = connected /\ connected \in SUBSET Clients
  BY DEF WInv, TypeOK, ac_handle_build_request, NetIds
<1>3. objects' = [objects EXCEPT ![k] = new]
  BY DEF ws_alloc_object, ac_handle_build_request
<1>4. new.in_use = TRUE /\ new.id = nextObject
  OBVIOUS
<1> HIDE DEF k, new
<1>5. objects'[k] = new /\ \A i \in ObjectSlots : i # k => objects'[i] = objects[i]
  BY <1>1, <1>2, <1>3
<1>6. InUse(objects') = InUse(objects) \cup {k} /\ k \in InUse(objects') /\ k \notin InUse(objects)
      /\ \A j \in InUse(objects) : objects'[j] = objects[j]
  BY <1>1, <1>4, <1>5 DEF InUse
<1>7. IdsAreGiven'
  BY <1>2, <1>4, <1>5, <1>6 DEF IdsAreGiven, InUse
<1>8. WellNamed(objects')
  <2>1. /\ objects' \in [ObjectSlots -> ObjectRecord]
        /\ \A i \in InUse(objects') : objects'[i].id \in NetIds
        /\ \A i, j \in InUse(objects') : objects'[i].id = objects'[j].id => i = j
    BY <1>7, Zenon DEF WInv, TypeOK, NetIdsAreUnique, IdsAreGiven, InUse
  <2>. QED  BY <2>1 DEF WellNamed
<1>9. objects'[find_object(objects', nextObject)] = objects'[k]
  <2>1. Named(objects', nextObject) = {k}
    <3>1. k \in Named(objects', nextObject)
      BY <1>4, <1>5, <1>6 DEF Named
    <3>2. \A j \in Named(objects', nextObject) : j = k
      BY <1>8, <3>1 DEF Named, WellNamed
    <3>. QED  BY <3>1, <3>2
  <2>. QED  BY <2>1, MinOfOne DEF find_object
<1>10. tl_tick(actors, connected, Broadcast(connected, <<m>>, 1), 1 + Cardinality(connected))
  <2> DEFINE o == objects'[find_object(objects', nextObject)]
  <2>1. tl_tick(actors, connected, Broadcast(connected, <<ObjectSpawn(o)>>, 1), 1 + Cardinality(connected))
    BY DEF ac_handle_build_request
  <2>2. o = objects'[k]
    BY <1>9
  <2> HIDE DEF o
  <2>. QED  BY <2>1, <2>2, Zenon
<1>11. 1 + Cardinality(connected) \in Nat
  <2>1. IsFiniteSet(connected)
    BY <1>2, FS_Subset, WorldAssumption
  <2>. QED  BY <2>1, FS_CardinalityType
<1>12. outputs'[d] = IF d \in connected' THEN <<m>> ELSE <<>>
  <2> HIDE DEF m
  <2>. QED  BY <1>2, <1>10, <1>11, ObjectTick
<1>13. m \in ObjectMsgs
  <2>1. objects'[k] \in ObjectRecord /\ objects'[k].id \in NetIds
    BY <1>6, <1>8 DEF WellNamed, InUse
  <2>. QED  BY <2>1, ObjectMsgFields
<1>14. \A v \in Shown(objects) :
          /\ plugin_apply_packet(v, m) \in Shown(objects')
          /\ \A from : v \in Built(objects, from) /\ Cardinality(InUse(objects')) <= MaxProxyObjects
                => plugin_apply_packet(v, m) \in Built(objects', from)
  BY <1>6, <1>8, BuildAgrees
<1> HIDE DEF m
<1>15. <<m>> \in Seq(Msgs) /\ ObjectsLead(<<m>>)
  <2>1. InUse(objects)' = InUse(objects')
    BY DEF InUse
  <2>. QED  BY <1>13, <1>14, <2>1, NewsLeads
<1>. QED  BY <1>7, <1>12, <1>15, EmptySeq

LEMMA MoveLeads ==
    ASSUME WInv, WInv', IdsAreGiven, ObjectFits, NEW c \in Clients,
           NEW id \in NetIds, NEW p \in Places, ac_handle_object_move(c, id, p),
           NEW d \in Clients
    PROVE  /\ IdsAreGiven'
           /\ outputs'[d] \in Seq(Msgs) /\ (d \in connected' => ObjectsLead(outputs'[d]))
<1> DEFINE k == find_object(objects, id)
           new == [objects[k] EXCEPT !.place = p, !.moved = TRUE]
           m == ObjectUpdate(objects'[k])
<1>1. k \in InUse(objects) /\ k \in ObjectSlots
  <2>1. Named(objects, id) \subseteq ObjectSlots /\ Named(objects, id) # {}
    BY DEF Named, InUse, ac_handle_object_move
  <2>. QED  BY <2>1, SearchFindsSlot DEF find_object, Named, InUse
<1>2. /\ objects \in [ObjectSlots -> ObjectRecord]
      /\ connected' = connected /\ connected \in SUBSET Clients
  BY DEF WInv, TypeOK, ac_handle_object_move
<1>3. objects' = [objects EXCEPT ![k] = new]
  BY DEF ac_handle_object_move
<1>4. new.in_use = objects[k].in_use /\ new.id = objects[k].id
  <2>1. objects[k] \in ObjectRecord
    BY <1>1, <1>2
  <2>. QED  BY <2>1 DEF ObjectRecord
<1>5. tl_tick(actors, connected, Broadcast(connected, <<m>>, 0), Cardinality(connected))
  BY DEF ac_handle_object_move
<1> HIDE DEF k, new
<1>6. objects'[k] = new /\ \A i \in ObjectSlots : i # k => objects'[i] = objects[i]
  BY <1>1, <1>2, <1>3
<1>7. InUse(objects') = InUse(objects) /\ k \in InUse(objects')
      /\ objects'[k].id = objects[k].id
      /\ \A j \in InUse(objects) : j # k => objects'[j] = objects[j]
  BY <1>1, <1>4, <1>6 DEF InUse
<1>8. IdsAreGiven'
  BY <1>7 DEF IdsAreGiven, InUse
<1>9. WellNamed(objects')
  <2>1. /\ objects' \in [ObjectSlots -> ObjectRecord]
        /\ \A i \in InUse(objects') : objects'[i].id \in NetIds
        /\ \A i, j \in InUse(objects') : objects'[i].id = objects'[j].id => i = j
    BY <1>8, Zenon DEF WInv, TypeOK, NetIdsAreUnique, IdsAreGiven, InUse
  <2>. QED  BY <2>1 DEF WellNamed
<1>10. Cardinality(connected) \in Nat
  <2>1. IsFiniteSet(connected)
    BY <1>2, FS_Subset, WorldAssumption
  <2>. QED  BY <2>1, FS_CardinalityType
<1>11. outputs'[d] = IF d \in connected' THEN <<m>> ELSE <<>>
  <2> HIDE DEF m
  <2>. QED  BY <1>2, <1>5, <1>10, ObjectTick
<1>12. m \in ObjectMsgs
  <2>1. objects'[k] \in ObjectRecord /\ objects'[k].id \in NetIds
    BY <1>7, <1>9 DEF WellNamed, InUse
  <2>. QED  BY <2>1, ObjectMsgFields
<1>13. \A v \in Shown(objects) :
          /\ plugin_apply_packet(v, m) \in Shown(objects')
          /\ \A from : v \in Built(objects, from)
                => plugin_apply_packet(v, m) \in Built(objects', from)
  BY <1>7, <1>9, MoveAgrees, SlotsAreNamed
<1> HIDE DEF m
<1>14. <<m>> \in Seq(Msgs) /\ ObjectsLead(<<m>>)
  BY <1>12, <1>13, NewsLeads
<1>. QED  BY <1>8, <1>11, <1>14, EmptySeq

LEMMA ScrapLeads ==
    ASSUME WInv, IdsAreGiven, ObjectFits, NEW c \in Clients,
           NEW id \in NetIds, ac_handle_object_scrap(c, id),
           NEW d \in Clients
    PROVE  /\ IdsAreGiven'
           /\ outputs'[d] \in Seq(Msgs) /\ (d \in connected' => ObjectsLead(outputs'[d]))
<1> DEFINE k == find_object(objects, id)
           m == ObjectDespawn(id)
<1>1. k \in InUse(objects) /\ k \in ObjectSlots /\ objects[k].id = id
  <2>1. Named(objects, id) \subseteq ObjectSlots /\ Named(objects, id) # {}
    BY DEF Named, InUse, ac_handle_object_scrap
  <2>. QED  BY <2>1, SearchFindsSlot DEF find_object, Named, InUse
<1>2. /\ objects \in [ObjectSlots -> ObjectRecord]
      /\ connected' = connected /\ connected \in SUBSET Clients
      /\ tl_tick(actors, connected, Broadcast(connected, <<m>>, 0), Cardinality(connected))
  BY DEF WInv, TypeOK, ac_handle_object_scrap
<1>3. objects' = [objects EXCEPT ![k] = NoObject] /\ ~NoObject.in_use
  BY DEF ac_handle_object_scrap, ws_remove_object, NoObject
<1> HIDE DEF k
<1>4. objects'[k] = NoObject /\ \A i \in ObjectSlots : i # k => objects'[i] = objects[i]
  BY <1>1, <1>2, <1>3
<1>5. InUse(objects') = InUse(objects) \ {k}
      /\ \A j \in InUse(objects) : j # k => objects'[j] = objects[j]
  BY <1>1, <1>3, <1>4 DEF InUse
<1>6. IdsAreGiven'
  BY <1>5 DEF IdsAreGiven, InUse
<1>7. Cardinality(connected) \in Nat
  <2>1. IsFiniteSet(connected)
    BY <1>2, FS_Subset, WorldAssumption
  <2>. QED  BY <2>1, FS_CardinalityType
<1>8. outputs'[d] = IF d \in connected' THEN <<m>> ELSE <<>>
  <2> HIDE DEF m
  <2>. QED  BY <1>2, <1>7, ObjectTick
<1>9. m \in ObjectMsgs
  BY DEF ObjectDespawn, ObjectMsgs
<1>10. \A v \in Shown(objects) :
          /\ plugin_apply_packet(v, m) \in Shown(objects')
          /\ \A from : v \in Built(objects, from)
                => plugin_apply_packet(v, m) \in Built(objects', from)
  BY <1>1, <1>5, ScrapAgrees, SlotsAreNamed
<1> HIDE DEF m
<1>11. <<m>> \in Seq(Msgs) /\ ObjectsLead(<<m>>)
  BY <1>9, <1>10, NewsLeads
<1>. QED  BY <1>6, <1>8, <1>11, EmptySeq

\* Every iteration: what it sends to whoever is connected leads from agreement
\* about the objects as they were to agreement about the objects as they are.
LEMMA StepLeads ==
    ASSUME WInv, IdsAreGiven, ObjectFits, NEW c \in Clients, Step(c), NEW d \in Clients
    PROVE  /\ IdsAreGiven'
           /\ outputs'[d] \in Seq(Msgs) /\ (d \in connected' => ObjectsLead(outputs'[d]))
<1>1. WInv' /\ connected \in SUBSET Clients
  BY WorldStepKeepsInv DEF WInv, TypeOK
<1>2. UNCHANGED objects => IdsAreGiven'
  BY DEF IdsAreGiven, InUse
<1>3. Cardinality(connected) \in Nat
  <2>1. IsFiniteSet(connected)
    BY <1>1, FS_Subset, WorldAssumption
  <2>. QED  BY <2>1, FS_CardinalityType
<1>4. CASE Hello(c)
  BY <1>2, <1>4, HelloLeads DEF Hello
<1>5. CASE Disconnect(c)
  <2>1. /\ tl_tick(actors, connected \ {c}, Silence, Cardinality(connected))
        /\ UNCHANGED objects /\ connected \ {c} \in SUBSET Clients
    BY <1>1, <1>5 DEF Disconnect
  <2>. QED  BY <1>2, <1>3, <2>1, SilenceLeads
<1>6. ASSUME NEW p \in Places, PlayerState(c, p)
      PROVE  IdsAreGiven' /\ outputs'[d] \in Seq(Msgs) /\ ObjectsLead(outputs'[d])
  <2>1. tl_tick(actors, connected, Silence, Cardinality(connected)) /\ UNCHANGED objects
    BY <1>6 DEF PlayerState
  <2>. QED  BY <1>1, <1>2, <1>3, <2>1, SilenceLeads
<1>7. ASSUME NEW t \in Actors, ac_handle_fire_intent(c, t)
      PROVE  IdsAreGiven' /\ outputs'[d] \in Seq(Msgs) /\ ObjectsLead(outputs'[d])
  BY <1>2, <1>7, FireLeads DEF ac_handle_fire_intent
<1>8. ASSUME NEW s \in Settlements, NEW p \in Places, BuildWithoutRoom(c, s, p)
      PROVE  IdsAreGiven' /\ outputs'[d] \in Seq(Msgs) /\ ObjectsLead(outputs'[d])
  <2>1. tl_tick(actors, connected, Silence, 1) /\ UNCHANGED objects
    BY <1>8 DEF BuildWithoutRoom
  <2>. QED  BY <1>1, <1>2, <2>1, SilenceLeads
<1>9. CASE TickOnly(c)
  <2>1. PICK base \in {0, 1, Cardinality(connected)} : tl_tick(actors, connected, Silence, base)
    BY <1>9 DEF TickOnly
  <2>2. base \in Nat /\ UNCHANGED objects
    BY <1>3, <1>9 DEF TickOnly
  <2>. QED  BY <1>1, <1>2, <2>1, <2>2, SilenceLeads
<1> DEFINE Goal == /\ IdsAreGiven'
                   /\ outputs'[d] \in Seq(Msgs) /\ (d \in connected' => ObjectsLead(outputs'[d]))
<1>10. ASSUME NEW s \in Settlements, NEW p \in Places, ac_handle_build_request(c, s, p)  PROVE Goal
  BY <1>1, <1>10, BuildLeads
<1>11. ASSUME NEW id \in NetIds, NEW p \in Places, ac_handle_object_move(c, id, p)  PROVE Goal
  BY <1>1, <1>11, MoveLeads
<1>12. ASSUME NEW id \in NetIds, ac_handle_object_scrap(c, id)  PROVE Goal
  BY <1>12, ScrapLeads
<1>13. Goal
  BY <1>4, <1>5, <1>6, <1>7, <1>8, <1>9, <1>10, <1>11, <1>12, Zenon DEF Step, NetIds
<1>. QED  BY <1>13

-----------------------------------------------------------------------------
(***************************************************************************)
(* The composition with the clients                                        *)
(***************************************************************************)

Handles(c) == ClientStarts(c) \/ HelloAgain(c) \/ ClientCloses(c) \/ WorldStep(c)

\* Every step of the composition is one of the service's, or none.
LEMMA HandlesIsStep ==
    ASSUME NEW c \in Clients, Handles(c)
    PROVE  Step(c)
  BY Zenon DEF Handles, ClientStarts, HelloAgain, ClientCloses, WorldStep, Step, NetIds

\* The composition with clients and network is an implementation of the service
\* alone: whatever is proved of WorldAuthority holds in WorldReplication.
THEOREM ReplicationIsTheService == RSpec => Spec
<1>1. RInit => Init
  BY DEF RInit
<1>2. [RNext]_<<vars, netVars>> => [Next]_vars
  <2>1. ASSUME NEW c \in Clients, Deliver(c)  PROVE UNCHANGED vars
    BY <2>1 DEF Deliver
  <2>2. UNCHANGED <<vars, netVars>> => UNCHANGED vars
    OBVIOUS
  <2>3. RNext => Next \/ UNCHANGED vars
    BY <2>1, HandlesIsStep, Zenon DEF RNext, Next, Handles
  <2>. QED  BY <2>2, <2>3
<1>. QED  BY <1>1, <1>2, PTL DEF RSpec, Spec

RTypes ==
    /\ chan \in [Clients -> Seq(Msgs)]
    /\ view \in [Clients -> Views]
    /\ since \in [Clients -> Nat]

LEMMA EmptyViewTyped ==
    /\ EmptyView \in Views
    /\ ProxyObjects(EmptyView) = {}
    /\ \A a \in Actors : ~EmptyView.actors[a].in_use
<1>1. NoProxy \in ProxyRecord /\ ~NoProxy.in_use
  BY DEF NoProxy, ProxyRecord, Full
<1>2. NoProxyObject \in ProxyObjectRecord /\ ~NoProxyObject.in_use
  BY WorldAssumption DEF NoProxyObject, ProxyObjectRecord
<1>3. EmptyView \in Views
  BY <1>1, <1>2 DEF EmptyView, Views
<1>. QED  BY <1>1, <1>2, <1>3 DEF EmptyView, ProxyObjects

\* What d will show after an iteration: what it would have shown, after what
\* the iteration sent - or what a fresh process shows after that.
Follows(d) ==
    \/ d \in connected /\ since'[d] = since[d] /\ Settled(d)' = After(Settled(d), outputs'[d])
    \/ since'[d] = nextObject /\ Settled(d)' = After(EmptyView, outputs'[d])

LEMMA SettledTyped ==
    ASSUME RTypes, NEW d \in Clients
    PROVE  Settled(d) = After(view[d], chan[d]) /\ Settled(d) \in Views
<1>1. Settled(d) = After(view[d], chan[d])
  BY DEF Settled, After
<1>2. view[d] \in Views /\ chan[d] \in Seq(Msgs)
  BY DEF RTypes
<1>. QED  BY <1>1, <1>2, ViewsClosed, AfterSteps

LEMMA HandlesFollows ==
    ASSUME RTypes, WInv, NEW c \in Clients, Handles(c), \A d \in Clients : outputs'[d] \in Seq(Msgs)
    PROVE  RTypes' /\ \A d \in connected' : Follows(d)
<1>1. nextObject \in Nat /\ connected \subseteq Clients
  BY WorldAssumption DEF WInv, TypeOK
<1>2. EmptyView \in Views
  BY EmptyViewTyped
<1>3. \A d \in Clients : Settled(d)' = After(view'[d], chan'[d])
  BY DEF Settled, After
<1>4. ASSUME NEW d \in Clients, view'[d] = view[d], chan'[d] = chan[d] \o outputs'[d]
      PROVE  Settled(d)' = After(Settled(d), outputs'[d])
  <2>1. view[d] \in Views /\ chan[d] \in Seq(Msgs) /\ outputs'[d] \in Seq(Msgs)
    BY DEF RTypes
  <2>2. After(view[d], chan[d] \o outputs'[d]) = After(After(view[d], chan[d]), outputs'[d])
    BY <2>1, ViewsClosed, AfterConcat
  <2>3. Settled(d) = After(view[d], chan[d])
    BY SettledTyped
  <2>. QED  BY <1>3, <1>4, <2>2, <2>3, Zenon
<1>5. \A d \in Clients : chan[d] \o outputs'[d] \in Seq(Msgs)
  <2>1. \A d \in Clients : chan[d] \in Seq(Msgs) /\ outputs'[d] \in Seq(Msgs)
    BY DEF RTypes
  <2>2. \A x, y \in Seq(Msgs) : x \o y \in Seq(Msgs)
    OBVIOUS
  <2>. QED  BY <2>1, <2>2
<1>6. CASE ClientStarts(c)
  <2>1. /\ chan' = [d \in Clients |-> IF d = c THEN outputs'[c] ELSE chan[d] \o outputs'[d]]
        /\ view' = [view EXCEPT ![c] = EmptyView]
        /\ since' = [since EXCEPT ![c] = nextObject]
        /\ connected' = connected \cup {c}
    BY <1>6 DEF ClientStarts, Hello
  <2>2. RTypes'
    <3>1. chan' \in [Clients -> Seq(Msgs)]
      BY <1>5, <2>1
    <3>2. view' \in [Clients -> Views] /\ since' \in [Clients -> Nat]
      BY <1>1, <1>2, <2>1 DEF RTypes
    <3>. QED  BY <3>1, <3>2 DEF RTypes
  <2>3. ASSUME NEW d \in connected', d # c  PROVE Follows(d)
    <3>1. d \in connected /\ d \in Clients
      BY <1>1, <2>1, <2>3
    <3>2. view'[d] = view[d] /\ since'[d] = since[d] /\ chan'[d] = chan[d] \o outputs'[d]
      BY <2>1, <2>3, <3>1 DEF RTypes
    <3>. QED  BY <1>4, <3>1, <3>2 DEF Follows
  <2>4. Follows(c)
    <3>1. view'[c] = EmptyView /\ since'[c] = nextObject /\ chan'[c] = outputs'[c]
      BY <2>1 DEF RTypes
    <3>2. Settled(c)' = After(EmptyView, outputs'[c])
      BY <1>3, <3>1, Zenon
    <3>. QED  BY <3>1, <3>2 DEF Follows
  <2>. QED  BY <2>2, <2>3, <2>4
<1>7. ASSUME Send, UNCHANGED <<view, since>>, connected' = connected
      PROVE  RTypes' /\ \A d \in connected' : Follows(d)
  <2>1. chan' = [d \in Clients |-> chan[d] \o outputs'[d]] /\ view' = view /\ since' = since
    BY <1>7 DEF Send
  <2>2. RTypes'
    BY <1>5, <2>1 DEF RTypes
  <2>3. ASSUME NEW d \in connected'  PROVE Follows(d)
    <3>1. d \in connected /\ d \in Clients
      BY <1>1, <1>7
    <3>2. view'[d] = view[d] /\ since'[d] = since[d] /\ chan'[d] = chan[d] \o outputs'[d]
      BY <2>1, <3>1
    <3>. QED  BY <1>4, <3>1, <3>2 DEF Follows
  <2>. QED  BY <2>2, <2>3
<1>8. CASE HelloAgain(c)
  <2>1. connected' = connected
    BY <1>8 DEF HelloAgain, Hello
  <2>. QED  BY <1>7, <1>8, <2>1 DEF HelloAgain
<1>9. CASE WorldStep(c)
  <2>1. connected' = connected
    BY <1>9 DEF WorldStep, PlayerState, ac_handle_fire_intent, ac_handle_build_request,
                BuildWithoutRoom, TickOnly, ac_handle_object_move, ac_handle_object_scrap
  <2>. QED  BY <1>7, <1>9, <2>1 DEF WorldStep
<1>10. CASE ClientCloses(c)
  <2>1. /\ chan' = [d \in Clients |-> IF d = c THEN <<>> ELSE chan[d] \o outputs'[d]]
        /\ view' = view /\ since' = since /\ connected' = connected \ {c}
    BY <1>10 DEF ClientCloses, Disconnect
  <2>2. RTypes'
    BY <1>5, <2>1, EmptySeq DEF RTypes
  <2>3. ASSUME NEW d \in connected'  PROVE Follows(d)
    <3>1. d \in connected /\ d \in Clients /\ d # c
      BY <1>1, <2>1
    <3>2. view'[d] = view[d] /\ since'[d] = since[d] /\ chan'[d] = chan[d] \o outputs'[d]
      BY <2>1, <3>1
    <3>. QED  BY <1>4, <3>1, <3>2 DEF Follows
  <2>. QED  BY <2>2, <2>3
<1>. QED  BY <1>6, <1>8, <1>9, <1>10 DEF Handles

\* A delivery in order does not change what a client will show.
LEMMA DeliverFollows ==
    ASSUME Window = 1, RTypes, NEW c \in Clients, Deliver(c)
    PROVE  RTypes' /\ \A d \in Clients : Settled(d)' = Settled(d)
<1>1. /\ chan[c] \in Seq(Msgs) /\ view[c] \in Views
      /\ chan \in [Clients -> Seq(Msgs)] /\ view \in [Clients -> Views]
  BY DEF RTypes
<1>2. /\ Len(chan[c]) >= 1
      /\ view' = [view EXCEPT ![c] = plugin_apply_packet(view[c], chan[c][1])]
      /\ chan' = [chan EXCEPT ![c] = RemoveAt(chan[c], 1)]
  <2>1. PICK k \in 1 .. Len(chan[c]) :
          /\ k <= 1
          /\ view' = [view EXCEPT ![c] = plugin_apply_packet(view[c], chan[c][k])]
          /\ chan' = [chan EXCEPT ![c] = RemoveAt(chan[c], k)]
    BY <1>1 DEF Deliver
  <2>2. k = 1 /\ Len(chan[c]) >= 1
    BY <1>1, <2>1
  <2>. QED  BY <2>1, <2>2
<1> DEFINE w == chan[c]
           x == plugin_apply_packet(view[c], w[1])
<1>3. w # <<>> /\ w[1] \in Msgs /\ Tail(w) \in Seq(Msgs)
  BY <1>1, <1>2
<1>4. x \in Views
  BY <1>1, <1>3, ViewsClosed DEF Closed
<1>5. RemoveAt(w, 1) = Tail(w)
  <2>1. /\ RemoveAt(w, 1) \in Seq(Msgs) /\ Len(RemoveAt(w, 1)) = Len(w) - 1
        /\ \A i \in 1 .. (Len(w) - 1) : RemoveAt(w, 1)[i] = IF i < 1 THEN w[i] ELSE w[i + 1]
    <3>1. w \in Seq(Msgs) /\ 1 \in 1 .. Len(w)
      BY <1>1, <1>2
    <3> HIDE DEF w
    <3>. QED  BY <3>1, RemoveAtElements, Zenon
  <2>2. /\ Len(Tail(w)) = Len(w) - 1
        /\ \A i \in 1 .. (Len(w) - 1) : Tail(w)[i] = w[i + 1]
    BY <1>1, <1>3
  <2> DEFINE y == RemoveAt(w, 1)
             z == Tail(w)
  <2>3. y \in Seq(Msgs) /\ z \in Seq(Msgs) /\ Len(y) = Len(z)
        /\ \A i \in 1 .. Len(y) : y[i] = z[i]
    <3>1. \A i \in 1 .. (Len(w) - 1) : ~(i < 1)
      BY <1>1
    <3>. QED  BY <1>3, <2>1, <2>2, <3>1
  <2> HIDE DEF y, z
  <2>4. y = z
    BY <2>3, SeqEqual
  <2>. QED  BY <2>4 DEF y, z
<1> HIDE DEF x
<1>6. view'[c] = x /\ chan'[c] = Tail(w)
      /\ \A d \in Clients : d # c => view'[d] = view[d] /\ chan'[d] = chan[d]
  BY <1>1, <1>2, <1>5 DEF x
<1>7. RTypes'
  <2>1. chan' \in [Clients -> Seq(Msgs)] /\ view' \in [Clients -> Views]
    BY <1>1, <1>2, <1>3, <1>4, <1>5 DEF x
  <2>2. since' = since
    BY DEF Deliver
  <2>. QED  BY <2>1, <2>2 DEF RTypes
<1>8. \A d \in Clients : Settled(d)' = After(view'[d], chan'[d]) /\ Settled(d) = After(view[d], chan[d])
  BY DEF Settled, After
<1>9. After(x, Tail(w)) = After(view[c], w)
  BY <1>1, <1>3, ViewsClosed, AfterSteps DEF x
<1>. QED  BY <1>6, <1>7, <1>8, <1>9

-----------------------------------------------------------------------------
(***************************************************************************)
(* Objects converge                                                        *)
(***************************************************************************)

ShownInv == \A c \in connected : Settled(c) \in Shown(objects)

BuiltInv == \A c \in connected : Settled(c) \in Built(objects, since[c])

\* The inductive invariant of the composition, as far as objects go.
ObjectInv == WInv /\ IdsAreGiven /\ RTypes /\ ShownInv

\* No more objects at a time than a plugin has records for.
Few == Cardinality(InUse(objects)) <= MaxProxyObjects

LEMMA EmptyViewAgrees ==
    ASSUME WInv
    PROVE  EmptyView \in Shown(objects) /\ EmptyView \in Built(objects, nextObject)
<1>1. \A i \in InUse(objects) : ~(objects[i].id >= nextObject)
  <2>1. \A i \in InUse(objects) : objects[i].id \in Nat /\ objects[i].id < nextObject
    BY DEF WInv, TypeOK, NetIdsAreUnique, InUse, ObjectRecord
  <2>2. nextObject \in Nat
    BY DEF WInv, TypeOK
  <2>. QED  BY <2>1, <2>2
<1>. QED  BY <1>1, EmptyViewTyped DEF Shown, Built

LEMMA WInvUntouched ==
    ASSUME WInv, UNCHANGED <<connected, pos, actors, objects, count, nextObject>>
    PROVE  WInv'
<1>1. TypeOK'
  BY DEF WInv, TypeOK
<1>2. BudgetIsKept'
  BY DEF WInv, BudgetIsKept, ObjectsOf, InUse
<1>3. NetIdsAreUnique'
  BY DEF WInv, NetIdsAreUnique, InUse
<1>4. NoCorpseStays'
  BY DEF WInv, NoCorpseStays
<1>. QED  BY <1>1, <1>2, <1>3, <1>4 DEF WInv

LEMMA ObjectInit == RInit => ObjectInv /\ BuiltInv
<1> SUFFICES ASSUME RInit  PROVE ObjectInv /\ BuiltInv
  OBVIOUS
<1>1. WInv
  BY WorldInit DEF RInit
<1>2. IdsAreGiven
  BY DEF RInit, Init, IdsAreGiven, InUse, NoObject
<1>3. RTypes
  BY EmptySeq, EmptyViewTyped DEF RInit, RTypes
<1>4. ShownInv /\ BuiltInv
  BY DEF RInit, Init, ShownInv, BuiltInv
<1>. QED  BY <1>1, <1>2, <1>3, <1>4 DEF ObjectInv

LEMMA ObjectStep ==
    ASSUME Window = 1, ObjectFits, ObjectInv, RNext
    PROVE  ObjectInv' /\ (BuiltInv /\ Few' => BuiltInv')
<1>0. WInv /\ IdsAreGiven /\ RTypes /\ ShownInv /\ connected \subseteq Clients
  BY DEF ObjectInv, WInv, TypeOK
<1>1. ASSUME NEW c \in Clients, Handles(c)  PROVE ObjectInv' /\ (BuiltInv /\ Few' => BuiltInv')
  <2>1. Step(c) /\ WInv'
    BY <1>0, <1>1, HandlesIsStep, WorldStepKeepsInv
  <2>2. \A d \in Clients : /\ IdsAreGiven' /\ outputs'[d] \in Seq(Msgs)
                           /\ d \in connected' => ObjectsLead(outputs'[d])
    BY <1>0, <2>1, StepLeads
  <2>3. RTypes' /\ \A d \in connected' : Follows(d)
    BY <1>0, <1>1, <2>2, HandlesFollows
  <2>4. connected' \subseteq Clients
    BY <2>1 DEF WInv, TypeOK
  <2>5. ASSUME NEW d \in connected'
        PROVE  /\ Settled(d)' \in Shown(objects')
               /\ BuiltInv /\ Few' => Settled(d)' \in Built(objects', since'[d])
    <3>1. ObjectsLead(outputs'[d]) /\ Follows(d)
      BY <2>2, <2>3, <2>4
    <3>2. CASE d \in connected /\ since'[d] = since[d] /\ Settled(d)' = After(Settled(d), outputs'[d])
      <4>1. Settled(d) \in Shown(objects) /\ (BuiltInv => Settled(d) \in Built(objects, since[d]))
        BY <1>0, <3>2 DEF ShownInv, BuiltInv
      <4>. QED  BY <3>1, <3>2, <4>1, Zenon DEF ObjectsLead, Few
    <3>3. CASE since'[d] = nextObject /\ Settled(d)' = After(EmptyView, outputs'[d])
      <4>1. EmptyView \in Shown(objects) /\ EmptyView \in Built(objects, nextObject)
        BY <1>0, EmptyViewAgrees
      <4>. QED  BY <3>1, <3>3, <4>1, Zenon DEF ObjectsLead, Few
    <3>. QED  BY <3>1, <3>2, <3>3 DEF Follows
  <2>6. ShownInv' /\ (BuiltInv /\ Few' => BuiltInv')
    BY <2>5 DEF ShownInv, BuiltInv
  <2>7. IdsAreGiven'
    BY <1>1, <2>2
  <2>. QED  BY <2>1, <2>3, <2>6, <2>7 DEF ObjectInv
<1>2. ASSUME NEW c \in Clients, Deliver(c)  PROVE ObjectInv' /\ (BuiltInv => BuiltInv')
  <2>1. RTypes' /\ \A d \in Clients : Settled(d)' = Settled(d)
    BY <1>0, <1>2, DeliverFollows
  <2>2. UNCHANGED <<connected, pos, actors, objects, count, nextObject, since>>
    BY <1>2 DEF Deliver, vars
  <2>3. WInv'
    BY <1>0, <2>2, WInvUntouched
  <2>4. IdsAreGiven'
    BY <1>0, <2>2 DEF IdsAreGiven, InUse
  <2>5. ShownInv' /\ (BuiltInv => BuiltInv')
    <3>1. connected' = connected /\ objects' = objects /\ since' = since
      BY <2>2
    <3>2. \A d \in connected : Settled(d)' = Settled(d)
      BY <1>0, <2>1
    <3>. QED  BY <1>0, <3>1, <3>2 DEF ShownInv, BuiltInv
  <2>. QED  BY <2>1, <2>3, <2>4, <2>5 DEF ObjectInv
<1>. QED  BY <1>1, <1>2 DEF RNext, Handles

LEMMA ObjectStutter ==
    ASSUME ObjectInv, UNCHANGED <<vars, netVars>>
    PROVE  ObjectInv' /\ (BuiltInv => BuiltInv')
<1>1. /\ UNCHANGED <<connected, pos, actors, objects, count, nextObject>>
      /\ UNCHANGED <<chan, view, since>>
  BY DEF vars, netVars
<1>2. WInv'
  BY <1>1, WInvUntouched DEF ObjectInv
<1>3. IdsAreGiven' /\ RTypes'
  BY <1>1 DEF ObjectInv, IdsAreGiven, InUse, RTypes
<1>4. \A d : Settled(d)' = Settled(d)
  BY <1>1 DEF Settled
<1>5. ShownInv' /\ (BuiltInv => BuiltInv')
  <2>1. connected' = connected /\ objects' = objects /\ since' = since
    BY <1>1
  <2>. QED  BY <1>4, <2>1 DEF ObjectInv, ShownInv, BuiltInv
<1>. QED  BY <1>2, <1>3, <1>5 DEF ObjectInv

\* The invariant, on a network that keeps order.
THEOREM ObjectInvariant ==
    ASSUME Window = 1, ObjectFits
    PROVE  RSpec => []ObjectInv
<1>1. RInit => ObjectInv
  BY ObjectInit
<1>2. ObjectInv /\ [RNext]_<<vars, netVars>> => ObjectInv'
  BY ObjectStep, ObjectStutter
<1>. QED  BY <1>1, <1>2, PTL DEF RSpec

\* Every object proxy is an object of the service, as the service has it.
ShownAreReal ==
    \A c \in connected :
        \A id \in ProxyObjects(Settled(c)) : \E i \in Named(objects, id) :
            /\ Settled(c).objects[id].place = objects[i].place
            /\ Settled(c).objects[id].moved = objects[i].moved

\* However many objects there are, and however few fit into the 256 records of
\* proxy_runtime.c or the 64 outputs of a replay: no client ends up with an
\* object that the service does not have, or somewhere else.
THEOREM ShownObjectsAreReal ==
    ASSUME Window = 1, ObjectFits
    PROVE  RSpec => []ShownAreReal
<1>1. ObjectInv => ShownAreReal
  BY DEF ObjectInv, ShownInv, Shown, ShownAreReal
<1>. QED  BY <1>1, ObjectInvariant, PTL

\* As long as there are never more objects than a plugin has records for (256
\* in proxy_runtime.c, of the 512 the settlement of service_main.c may have),
\* every client ends up with exactly the service's word on every object it
\* shows, and shows every object built since its process started.
THEOREM ObjectsConverge ==
    ASSUME Window = 1, ObjectFits
    PROVE  RSpec /\ []Few => []ObjectViewsConverge
<1>1. RInit => ObjectInv /\ BuiltInv
  BY ObjectInit
<1>2. ObjectInv /\ BuiltInv /\ [RNext]_<<vars, netVars>> /\ Few' => ObjectInv' /\ BuiltInv'
  BY ObjectStep, ObjectStutter
<1>3. ObjectInv /\ BuiltInv => ObjectViewsConverge
  <2> SUFFICES ASSUME ObjectInv, BuiltInv, NEW c \in connected
               PROVE  /\ \A id \in ProxyObjects(Settled(c)) : \E i \in Named(objects, id) :
                            /\ Settled(c).objects[id].place = objects[i].place
                            /\ Settled(c).objects[id].moved = objects[i].moved
                      /\ \A i \in InUse(objects) :
                            objects[i].id >= since[c] => objects[i].id \in ProxyObjects(Settled(c))
    BY Zenon DEF ObjectViewsConverge
  <2>1. Settled(c) \in Shown(objects) /\ Settled(c) \in Built(objects, since[c])
    BY DEF ObjectInv, ShownInv, BuiltInv
  <2>. QED  BY <2>1, Zenon DEF Shown, Built
<1>. QED  BY <1>1, <1>2, <1>3, PTL DEF RSpec

\* In particular when there cannot be more.
THEOREM FewObjectsConverge ==
    ASSUME Window = 1, ObjectFits, MaxObjects <= MaxProxyObjects
    PROVE  RSpec => []ObjectViewsConverge
<1>1. Few
  <2>1. IsFiniteSet(1 .. MaxObjects) /\ Cardinality(1 .. MaxObjects) = MaxObjects
    BY FS_Interval, WorldAssumption
  <2>2. InUse(objects) \subseteq 1 .. MaxObjects
    BY DEF InUse, ObjectSlots
  <2>3. Cardinality(InUse(objects)) \in Nat /\ Cardinality(InUse(objects)) <= MaxObjects
    BY <2>1, <2>2, FS_Subset, FS_CardinalityType
  <2>. QED  BY <2>3, WorldAssumption, ReplicationAssumption DEF Few
<1>. QED  BY <1>1, ObjectsConverge, PTL

-----------------------------------------------------------------------------
(***************************************************************************)
(* Actors: a view is alive with the slots as when every actor it shows is  *)
(* one of as, with its health and not dead.                                *)
(***************************************************************************)

ShowsActor(v, as, a) ==
    v.actors[a].in_use => /\ as[a].in_use
                          /\ v.actors[a].health = as[a].health
                          /\ ~v.actors[a].is_dead

Alive(as) == {v \in Views : \A a \in Actors : ShowsActor(v, as, a)}

\* The same, but for actor t, of which a fight is being told.
AliveBut(as, t) == {v \in Views : \A a \in Actors : a # t => ShowsActor(v, as, a)}

MsgsAbout(t) == {m \in ActorMsgs : m.id = t}

LEMMA ObjectMsgsKeepAlive ==
    ASSUME NEW as
    PROVE  Closed(Alive(as), ObjectMsgs)
<1> SUFFICES ASSUME NEW v \in Alive(as), NEW m \in ObjectMsgs
             PROVE  plugin_apply_packet(v, m) \in Alive(as)
  BY DEF Closed
<1> DEFINE u == plugin_apply_packet(v, m)
<1>1. v \in Views
  BY DEF Alive
<1>2. u \in Views /\ u.actors = v.actors
  BY <1>1, ApplyObjectMsg
<1> HIDE DEF u
<1>3. \A a \in Actors : ShowsActor(v, as, a) => ShowsActor(u, as, a)
  BY <1>2 DEF ShowsActor
<1>4. u \in Alive(as)
  BY <1>2, <1>3 DEF Alive
<1>. QED  BY <1>4 DEF u

LEMMA AboutKeepsOthers ==
    ASSUME NEW as, NEW t
    PROVE  Closed(AliveBut(as, t), MsgsAbout(t))
<1> SUFFICES ASSUME NEW v \in AliveBut(as, t), NEW m \in MsgsAbout(t)
             PROVE  plugin_apply_packet(v, m) \in AliveBut(as, t)
  BY DEF Closed
<1> DEFINE u == plugin_apply_packet(v, m)
<1>1. v \in Views /\ m \in ActorMsgs /\ m.id = t
  BY DEF AliveBut, MsgsAbout
<1>2. u \in Views /\ \A b \in Actors : b # t => u.actors[b] = v.actors[b]
  BY <1>1, ApplyActorMsg
<1> HIDE DEF u
<1>3. \A a \in Actors : a # t /\ ShowsActor(v, as, a) => ShowsActor(u, as, a)
  BY <1>2 DEF ShowsActor
<1>4. u \in AliveBut(as, t)
  BY <1>2, <1>3 DEF AliveBut
<1>. QED  BY <1>4 DEF u

\* Agreement but for t does not depend on t's slot.
LEMMA OthersAgree ==
    ASSUME NEW as, NEW bs, NEW t, \A a \in Actors : a # t => bs[a] = as[a]
    PROVE  Alive(as) \subseteq AliveBut(bs, t)
<1>1. ASSUME NEW v \in Alive(as), NEW a \in Actors, a # t  PROVE ShowsActor(v, bs, a)
  <2>1. ShowsActor(v, as, a)
    BY DEF Alive
  <2>2. bs[a] = as[a]
    BY <1>1
  <2>. QED  BY <2>1, <2>2 DEF ShowsActor
<1>2. Alive(as) \subseteq Views
  BY DEF Alive
<1>. QED  BY <1>1, <1>2 DEF AliveBut

\* Once the last word about t is right, so is the view.
LEMMA LastWord ==
    ASSUME NEW as, NEW t \in Actors, NEW v \in AliveBut(as, t), NEW x \in ProxyRecord,
           x.in_use => as[t].in_use /\ x.health = as[t].health /\ ~x.is_dead
    PROVE  SetActor(v, t, x) \in Alive(as)
<1> DEFINE u == SetActor(v, t, x)
<1>1. v \in Views
  BY DEF AliveBut
<1>2. u \in Views /\ u.actors[t] = x /\ \A b \in Actors : b # t => u.actors[b] = v.actors[b]
  BY <1>1, SetActorFields
<1> HIDE DEF u
<1>3. ShowsActor(u, as, t)
  BY <1>2 DEF ShowsActor
<1>4. \A a \in Actors : a # t => ShowsActor(u, as, a)
  BY <1>2 DEF ShowsActor, AliveBut
<1>5. u \in Alive(as)
  BY <1>2, <1>3, <1>4 DEF Alive
<1>. QED  BY <1>5 DEF u

\* MSG_ACTOR_DESPAWN of an actor: whatever was shown of it.
LEMMA DespawnAgrees ==
    ASSUME NEW as, NEW t \in Actors, NEW v \in AliveBut(as, t)
    PROVE  plugin_apply_packet(v, ActorDespawn(t)) \in Alive(as)
<1>1. NoProxy \in ProxyRecord /\ ~NoProxy.in_use
  BY DEF NoProxy, ProxyRecord, Full
<1>2. v \in Views
  BY DEF AliveBut
<1>3. NoActor \in ActorRecord
  BY DEF NoActor, ActorRecord, Full
<1>4. ActorDespawn(t) \in ActorMsgs /\ ActorDespawn(t).kind = "actor_despawn" /\ ActorDespawn(t).id = t
  BY <1>3, ActorMsgFields
<1>5. plugin_apply_packet(v, ActorDespawn(t)) = SetActor(v, t, NoProxy)
  BY <1>2, <1>4, ApplySpawn
<1>. QED  BY <1>1, <1>5, LastWord

\* MSG_ACTOR_STATE of a live actor, to a view that does not take it for dead
\* or learns that it has health.
LEMMA StateAgrees ==
    ASSUME NEW as \in [Actors -> ActorRecord], NEW t \in Actors, NEW v \in AliveBut(as, t),
           as[t].in_use,
           as[t].health # 0 \/ ~v.actors[t].is_dead
    PROVE  plugin_apply_packet(v, ActorState(t, as[t])) \in Alive(as)
<1> DEFINE m == ActorState(t, as[t])
<1>1. v \in Views
  BY DEF AliveBut
<1>2. m \in ActorMsgs /\ m.kind = "actor_state" /\ m.id = t /\ m.health = as[t].health
  <2>1. as[t] \in ActorRecord
    OBVIOUS
  <2>2. \A q \in ActorRecord :
          /\ ActorState(t, q) \in ActorMsgs /\ ActorState(t, q).kind = "actor_state"
          /\ ActorState(t, q).id = t /\ ActorState(t, q).health = q.health
    BY ActorMsgFields
  <2>. QED  BY <2>1, <2>2, Zenon
<1> HIDE DEF m
<1>3. PICK x \in ProxyRecord :
              /\ plugin_apply_packet(v, m) = SetActor(v, t, x)
              /\ x.in_use /\ x.health = as[t].health
              /\ x.is_dead => v.actors[t].in_use /\ v.actors[t].is_dead /\ as[t].health = 0
  BY <1>1, <1>2, ApplyState
<1>4. SetActor(v, t, x) \in Alive(as)
  BY <1>3, LastWord
<1>. QED  BY <1>3, <1>4 DEF m

\* Two datagrams.
LEMMA AfterTwo ==
    ASSUME NEW v \in Views, NEW m \in Msgs, NEW n \in Msgs
    PROVE  After(v, <<m, n>>) = plugin_apply_packet(plugin_apply_packet(v, m), n)
<1>1. <<m>> \in Seq(Msgs) /\ Append(<<m>>, n) = <<m, n>>
  <2>1. <<m>> \in Seq(Msgs)
    OBVIOUS
  <2>2. <<m, n>> \in Seq(Msgs)
    OBVIOUS
  <2>3. Append(<<m>>, n) = <<m, n>>
    <3>1. Append(<<m>>, n) \in Seq(Msgs) /\ Len(Append(<<m>>, n)) = 2 /\ Len(<<m, n>>) = 2
      BY <2>1
    <3>2. \A i \in 1 .. 2 : Append(<<m>>, n)[i] = <<m, n>>[i]
      BY <2>1
    <3>. QED  BY <2>2, <3>1, <3>2, SeqEqual
  <2>. QED  BY <2>1, <2>3
<1>2. After(v, <<m>>) = plugin_apply_packet(v, m)
  BY AfterOne
<1>3. \A w \in Seq(Msgs) : After(v, Append(w, n)) = plugin_apply_packet(After(v, w), n)
  BY ViewsClosed, AfterSteps
<1>. QED  BY <1>1, <1>2, <1>3, Zenon

\* The two datagrams of the replay about a live actor.
LEMMA BlockAgrees ==
    ASSUME NEW as \in [Actors -> ActorRecord], NEW a \in Actors, as[a].in_use, NEW v \in Alive(as)
    PROVE  After(v, <<ActorSpawn(a), ActorState(a, as[a])>>) \in Alive(as)
<1> DEFINE m == ActorSpawn(a)
           n == ActorState(a, as[a])
           x == [in_use |-> TRUE, health |-> Full, is_dead |-> FALSE]
           u == SetActor(v, a, x)
<1>1. v \in Views
  BY DEF Alive
<1>2. m \in ActorMsgs /\ m.kind = "actor_spawn" /\ m.id = a /\ n \in ActorMsgs
  BY ActorMsgFields
<1>3. x \in ProxyRecord /\ x.is_dead = FALSE
  BY DEF ProxyRecord, Full
<1> HIDE DEF m, n
<1>4. plugin_apply_packet(v, m) = u
  BY <1>1, <1>2, ApplySpawn
<1> HIDE DEF x
<1>5. u.actors[a].is_dead = FALSE
  BY <1>1, <1>3, SetActorFields
<1> HIDE DEF u
<1>6. u \in AliveBut(as, a)
  <2>1. v \in AliveBut(as, a)
    BY OthersAgree
  <2>2. m \in MsgsAbout(a)
    BY <1>2 DEF MsgsAbout
  <2>3. plugin_apply_packet(v, m) \in AliveBut(as, a)
    BY <2>1, <2>2, AboutKeepsOthers DEF Closed
  <2>. QED  BY <1>4, <2>3
<1>7. plugin_apply_packet(u, n) \in Alive(as)
  BY <1>5, <1>6, StateAgrees DEF n
<1>8. m \in Msgs /\ n \in Msgs
  BY <1>2 DEF Msgs
<1>9. After(v, <<m, n>>) = plugin_apply_packet(u, n)
  BY <1>1, <1>4, <1>8, AfterTwo
<1>10. After(v, <<m, n>>) \in Alive(as)
  BY <1>7, <1>9
<1>. QED  BY <1>10 DEF m, n

-----------------------------------------------------------------------------
(***************************************************************************)
(* What the outputs of an iteration do to a view that is alive             *)
(***************************************************************************)

\* The welcome, the others' states, and two datagrams for every hostile: what
\* must fit if no replay is to be cut between a spawn and its state.
ReplayFits == 4 + Cardinality(Clients) + 2 * Cardinality(Actors) <= MaxOutputs

ActorsLead(w) == \A v \in Alive(actors) : After(v, w) \in Alive(actors')

\* The blocks of the replay that are about actors.
LEMMA ActorBlocksAgree ==
    ASSUME NEW as \in [Actors -> ActorRecord], NEW p
    PROVE  /\ FlattenSeq(ActorBlocks(as, p)) \in Seq(ActorMsgs)
           /\ Len(FlattenSeq(ActorBlocks(as, p))) <= 2 * Cardinality(Actors)
           /\ \A v \in Alive(as) : After(v, FlattenSeq(ActorBlocks(as, p))) \in Alive(as)
<1> DEFINE s == ActorBlocks(as, p)
           n == Cardinality(Actors)
<1>1. /\ s \in Seq(Seq(ActorMsgs)) /\ Len(s) = n /\ n \in Nat
      /\ \A k \in 1 .. n :
            \/ s[k] = <<>>
            \/ \E a \in Actors : as[a].in_use /\ s[k] = <<ActorSpawn(a), ActorState(a, as[a])>>
  BY BlocksOfActors
<1> HIDE DEF s, n
<1>2. PICK h \in [0 .. n -> Seq(ActorMsgs)] : IsFlattened(s, h) /\ FlattenSeq(s) = h[n]
  BY <1>1, FlattenSteps
<1>3. h[0] = <<>> /\ \A k \in 1 .. n : h[k] = h[k - 1] \o s[k]
  BY <1>1, <1>2 DEF IsFlattened
<1> DEFINE Good(w) == \A v \in Alive(as) : After(v, w) \in Alive(as)
           T == {k \in 0 .. n : Len(h[k]) <= 2 * k /\ Good(h[k])}
<1>4. \A v \in Alive(as) : v \in Views /\ After(v, <<>>) = v
  <2>1. \A v \in Alive(as) : v \in Views
    BY DEF Alive
  <2>2. <<>> \in Seq(Msgs)
    BY EmptySeq
  <2>3. \A v \in Views : After(v, <<>>) = v
    <3>1. \A v \in Views : \A w \in Seq(Msgs) : After(v, <<>>) = v
      BY ViewsClosed, AfterSteps
    <3>. QED  BY <2>2, <3>1, Zenon
  <2>. QED  BY <2>1, <2>3
<1> HIDE DEF Good
<1>5. 0 \in T
  <2>1. Good(h[0])
    BY <1>3, <1>4, Zenon DEF Good
  <2>2. Len(h[0]) = 0
    BY <1>3
  <2>. QED  BY <1>1, <2>1, <2>2
<1>6. ASSUME NEW k \in 1 .. n, k - 1 \in T  PROVE k \in T
  <2>1. /\ k - 1 \in 0 .. n /\ Len(h[k - 1]) <= 2 * (k - 1) /\ Good(h[k - 1])
        /\ h[k - 1] \in Seq(ActorMsgs) /\ s[k] \in Seq(ActorMsgs)
        /\ h[k] = h[k - 1] \o s[k]
    <3>1. k - 1 \in 0 .. n /\ k \in 0 .. n
      BY <1>1
    <3>2. Len(h[k - 1]) <= 2 * (k - 1) /\ Good(h[k - 1])
      BY <1>6
    <3>3. h[k - 1] \in Seq(ActorMsgs) /\ h[k] = h[k - 1] \o s[k]
      BY <1>3, <3>1
    <3>4. s[k] \in Seq(ActorMsgs)
      BY <1>1
    <3>. QED  BY <3>1, <3>2, <3>3, <3>4
  <2>2. Len(s[k]) <= 2 /\ Good(s[k])
    <3>1. CASE s[k] = <<>>
      <4>1. Good(<<>>)
        BY <1>4, Zenon DEF Good
      <4>. QED  BY <3>1, <4>1
    <3>2. ASSUME NEW a \in Actors, as[a].in_use, s[k] = <<ActorSpawn(a), ActorState(a, as[a])>>
          PROVE  Len(s[k]) <= 2 /\ Good(s[k])
      <4>1. Good(<<ActorSpawn(a), ActorState(a, as[a])>>)
        BY <3>2, BlockAgrees DEF Good
      <4> DEFINE x == ActorSpawn(a)
                 y == ActorState(a, as[a])
      <4> HIDE DEF x, y
      <4>2. Len(<<x, y>>) = 2
        OBVIOUS
      <4>3. s[k] = <<x, y>> /\ Good(<<x, y>>)
        BY <3>2, <4>1 DEF x, y
      <4>. QED  BY <4>2, <4>3
    <3>. QED  BY <1>1, <3>1, <3>2
  <2>3. Good(h[k - 1] \o s[k])
    <3> SUFFICES ASSUME NEW v \in Alive(as)  PROVE After(v, h[k - 1] \o s[k]) \in Alive(as)
      BY DEF Good
    <3>1. v \in Views /\ h[k - 1] \in Seq(Msgs) /\ s[k] \in Seq(Msgs)
      <4>1. ActorMsgs \subseteq Msgs
        BY DEF Msgs
      <4>2. \A w \in Seq(ActorMsgs) : w \in Seq(Msgs)
        BY <4>1
      <4>. QED  BY <1>4, <2>1, <4>2
    <3>2. After(v, h[k - 1] \o s[k]) = After(After(v, h[k - 1]), s[k])
      BY <3>1, ViewsClosed, AfterConcat
    <3>3. After(v, h[k - 1]) \in Alive(as)
      BY <2>1 DEF Good
    <3>4. After(After(v, h[k - 1]), s[k]) \in Alive(as)
      BY <2>2, <3>3 DEF Good
    <3>. QED  BY <3>2, <3>4
  <2>4. Len(h[k]) = Len(h[k - 1]) + Len(s[k]) /\ Len(h[k - 1]) \in Nat /\ Len(s[k]) \in Nat
    BY <2>1
  <2>5. Len(h[k]) <= 2 * k
    <3>1. k \in Nat
      BY <1>1
    <3> DEFINE x == Len(h[k - 1])
               y == Len(s[k])
    <3>2. x <= 2 * (k - 1) /\ y <= 2 /\ x \in Nat /\ y \in Nat /\ Len(h[k]) = x + y
      BY <2>1, <2>2, <2>4, Zenon
    <3> HIDE DEF x, y
    <3>. QED  BY <3>1, <3>2
  <2>6. k \in 0 .. n /\ Good(h[k])
    BY <1>1, <2>1, <2>3
  <2>. QED  BY <2>5, <2>6, Zenon
<1> HIDE DEF T
<1>7. \A k \in 0 .. n : k \in T
  BY <1>1, <1>5, <1>6, IntervalInduction
<1>8. n \in T
  BY <1>1, <1>7
<1>9. Len(h[n]) <= 2 * n /\ Good(h[n]) /\ h[n] \in Seq(ActorMsgs)
  BY <1>1, <1>8 DEF T
<1>. QED  BY <1>2, <1>9 DEF s, n, Good

\* To one player, at least as much of a list is sent as there is room for.
LEMMA FitsAlone ==
    ASSUME NEW c \in Clients, NEW n \in Nat, NEW base \in Nat, NEW l \in 0 .. n,
           base + l <= MaxOutputs
    PROVE  Fits({c}, c, n, base) \in l .. n
<1> DEFINE rank == Cardinality({d \in {c} : d <= c})
           one == Cardinality({c})
           reach == {k \in 1 .. n : base + (k - 1) * one + rank <= MaxOutputs}
<1>1. one = 1
  BY FS_Singleton
<1>2. rank = 1
  <2>1. c \in Nat
    BY WorldAssumption
  <2>2. {d \in {c} : d <= c} = {c}
    BY <2>1
  <2>. QED  BY <2>2, FS_Singleton
<1>3. Fits({c}, c, n, base) = Cardinality(reach)
  BY DEF Fits
<1> HIDE DEF rank, one
<1>4. 1 .. l \subseteq reach
  <2> SUFFICES ASSUME NEW k \in 1 .. l  PROVE k \in reach
    OBVIOUS
  <2>1. k \in 1 .. n
    OBVIOUS
  <2>2. base + (k - 1) * one + rank = base + k
    BY <1>1, <1>2
  <2>3. base + k <= MaxOutputs
    BY WorldAssumption
  <2>. QED  BY <2>1, <2>2, <2>3
<1>5. reach \subseteq 1 .. n
  OBVIOUS
<1> HIDE DEF reach
<1>6. IsFiniteSet(1 .. n) /\ Cardinality(1 .. n) = n /\ Cardinality(1 .. l) = l
  BY FS_Interval
<1>7. IsFiniteSet(reach) /\ Cardinality(reach) <= n
  BY <1>5, <1>6, FS_Subset
<1>8. l <= Cardinality(reach)
  BY <1>4, <1>6, <1>7, FS_Subset
<1>9. Cardinality(reach) \in Nat
  BY <1>7, FS_CardinalityType
<1>. QED  BY <1>3, <1>7, <1>8, <1>9

\* As much of the replay as fits, when the part about actors does.
LEMMA ReplayAgrees ==
    ASSUME NEW as \in [Actors -> ActorRecord], NEW os, WellNamed(os), NEW p, NEW c \in Clients,
           NEW base \in Nat, base + 2 * Cardinality(Actors) <= MaxOutputs, NEW v \in Alive(as)
    PROVE  After(v, Broadcast({c}, ReplayOf(as, os, p), base)[c]) \in Alive(as)
<1> DEFINE x == FlattenSeq(ActorBlocks(as, p))
           y == FlattenSeq(ObjectBlocks(os, p))
           f == Fits({c}, c, Len(x \o y), base)
           z == SubSeq(y, 1, f - Len(x))
<1>1. ReplayOf(as, os, p) = x \o y
  BY ReplayHasBlocks
<1>2. x \in Seq(ActorMsgs) /\ Len(x) <= 2 * Cardinality(Actors) /\ After(v, x) \in Alive(as)
  BY ActorBlocksAgree
<1>3. y \in Seq(ObjectMsgs)
  <2>1. y \in Seq(TrueObjectMsgs(os))
    BY BlocksOfObjects, FlattenTyped
  <2>2. \A i \in InUse(os) : os[i] \in ObjectRecord /\ os[i].id \in NetIds
    BY DEF WellNamed, InUse
  <2>3. TrueObjectMsgs(os) \subseteq ObjectMsgs
    BY <2>2, ObjectMsgFields DEF TrueObjectMsgs
  <2> HIDE DEF y
  <2>. QED  BY <2>1, <2>3
<1>4. Broadcast({c}, x \o y, base)[c] = SubSeq(x \o y, 1, f)
  BY DEF Broadcast
<1> HIDE DEF x, y
<1>5. x \in Seq(Msgs) /\ y \in Seq(Msgs)
  BY <1>2, <1>3 DEF Msgs
<1>6. x \o y \in Seq(Msgs) /\ Len(x \o y) = Len(x) + Len(y) /\ Len(x) \in Nat /\ Len(y) \in Nat
  BY <1>5
<1>7. f \in Len(x) .. (Len(x) + Len(y))
  <2>1. Cardinality(Actors) \in Nat
    BY FS_CardinalityType, WorldAssumption
  <2>2. base + Len(x) <= MaxOutputs
    BY <1>2, <1>6, <2>1, WorldAssumption
  <2>3. Len(x \o y) \in Nat /\ Len(x) \in 0 .. Len(x \o y)
    BY <1>6
  <2>4. f \in Len(x) .. Len(x \o y)
    BY <2>2, <2>3, FitsAlone
  <2>. QED  BY <1>6, <2>4
<1> HIDE DEF f
<1>8. f - Len(x) \in 0 .. Len(y)
  BY <1>6, <1>7
<1>9. z \in Seq(ObjectMsgs) /\ Len(z) = f - Len(x) /\ \A i \in 1 .. Len(z) : z[i] = y[i]
  <2>1. \A i \in 1 .. (f - Len(x)) : y[i] \in ObjectMsgs
    BY <1>3, <1>8
  <2>. QED  BY <1>3, <1>8, <2>1, SubSeqProperties
<1>10. SubSeq(x \o y, 1, f) = x \o z
  <2> DEFINE u == SubSeq(x \o y, 1, f)
  <2>1. f \in 0 .. Len(x \o y)
    BY <1>6, <1>7
  <2>2. u \in Seq(Msgs) /\ Len(u) = f /\ \A i \in 1 .. f : u[i] = (x \o y)[i]
    <3>1. \A i \in 1 .. f : (x \o y)[i] \in Msgs
      BY <1>6, <2>1
    <3>. QED  BY <1>6, <2>1, <3>1, SubSeqProperties
  <2> HIDE DEF u, z
  <2>3. z \in Seq(Msgs) /\ x \o z \in Seq(Msgs) /\ Len(x \o z) = f
    <3>1. z \in Seq(Msgs)
      BY <1>9 DEF Msgs
    <3>. QED  BY <1>5, <1>6, <1>7, <1>9, <3>1
  <2>4. ASSUME NEW i \in 1 .. f  PROVE u[i] = (x \o z)[i]
    <3>1. u[i] = IF i <= Len(x) THEN x[i] ELSE y[i - Len(x)]
      BY <1>5, <1>6, <1>7, <2>2
    <3>2. (x \o z)[i] = IF i <= Len(x) THEN x[i] ELSE z[i - Len(x)]
      BY <1>5, <1>6, <1>7, <2>3, <1>9
    <3>3. i > Len(x) => i - Len(x) \in 1 .. Len(z)
      BY <1>6, <1>7, <1>9
    <3>4. i \in Nat
      BY <1>7
    <3>. QED  BY <1>6, <1>9, <3>1, <3>2, <3>3, <3>4
  <2>5. u = x \o z
    BY <2>2, <2>3, <2>4, SeqEqual
  <2>. QED  BY <2>5 DEF u
<1> HIDE DEF z
<1>11. After(v, x \o z) = After(After(v, x), z)
  <2>1. v \in Views
    BY DEF Alive
  <2>2. z \in Seq(Msgs)
    BY <1>9 DEF Msgs
  <2>. QED  BY <1>5, <2>1, <2>2, ViewsClosed, AfterConcat
<1>12. After(After(v, x), z) \in Alive(as)
  BY <1>2, <1>9, ObjectMsgsKeepAlive, AfterSteps
<1>13. Broadcast({c}, x \o y, base)[c] = x \o z
  BY <1>4, <1>10
<1>. QED  BY <1>1, <1>11, <1>12, <1>13

\* An iteration that leaves the actors alone and says nothing.
LEMMA NothingLeads ==
    ASSUME UNCHANGED actors
    PROVE  ActorsLead(<<>>)
<1>1. \A v \in Views : \A w \in Seq(Msgs) : After(v, <<>>) = v
  BY ViewsClosed, AfterSteps
<1>2. <<>> \in Seq(Msgs)
  BY EmptySeq
<1>3. \A v \in Alive(actors) : v \in Views
  BY DEF Alive
<1>4. \A v \in Alive(actors) : After(v, <<>>) = v
  BY <1>1, <1>2, <1>3, Zenon
<1>5. actors' = actors
  OBVIOUS
<1>. QED  BY <1>4, <1>5, Zenon DEF ActorsLead

\* MSG_HELLO.
LEMMA HelloTellsActors ==
    ASSUME WInv, IdsAreGiven, ReplayFits, NEW c \in Clients, Hello(c), NEW d \in Clients
    PROVE  ActorsLead(outputs'[d])
<1> DEFINE cs == connected \cup {c}
           U == ActorMsgs \cup TrueObjectMsgs(objects)
<1>1. /\ connected \in SUBSET Clients /\ actors \in [Actors -> ActorRecord]
      /\ \A a \in Actors : actors[a].in_use => ~actors[a].pending /\ ~actors[a].dead
  BY DEF WInv, TypeOK, NoCorpseStays
<1>2. PICK p : tl_tick(actors, cs, HelloReply(cs, c, ReplayOf(actors, objects, p)),
                       HelloBase(cs) + Len(ReplayOf(actors, objects, p)))
  BY DEF Hello
<1> DEFINE w == ReplayOf(actors, objects, p)
           out == HelloReply(cs, c, w)
<1>3. cs \in SUBSET Clients /\ c \in cs /\ {c} \in SUBSET Clients
  BY <1>1
<1>4. w \in Seq(U)
  BY <1>1, ReplayTyped
<1> HIDE DEF cs, w
<1>5. HelloBase(cs) \in Nat /\ HelloBase(cs) + Len(w) \in Nat
  BY <1>3, <1>4, HelloBaseIsNat
<1>6. out[d] \in Seq(U) /\ (d # c => out[d] = <<>>)
  BY <1>3, <1>4, <1>5, BroadcastTyped DEF HelloReply
<1>7. tl_tick(actors, cs, out, HelloBase(cs) + Len(w))
  BY <1>2 DEF w
<1> HIDE DEF out
<1>8. actors' = actors /\ outputs'[d] = out[d]
  BY <1>1, <1>3, <1>5, <1>6, <1>7, QuietTickSays
<1>9. CASE d # c
  BY <1>6, <1>8, <1>9, NothingLeads
<1>10. CASE d = c
  <2>1. HelloBase(cs) + 2 * Cardinality(Actors) <= MaxOutputs
    <3>1. HelloBase(cs) <= 4 + Cardinality(Clients) /\ Cardinality(Clients) \in Nat
      BY <1>3, HelloBaseIsNat
    <3>2. Cardinality(Actors) \in Nat
      BY FS_CardinalityType, WorldAssumption
    <3>. QED  BY <1>5, <3>1, <3>2, WorldAssumption DEF ReplayFits
  <2>2. WellNamed(objects)
    BY SlotsAreNamed
  <2>3. \A v \in Alive(actors) : After(v, Broadcast({c}, w, HelloBase(cs))[c]) \in Alive(actors)
    BY <1>1, <1>5, <2>1, <2>2, ReplayAgrees DEF w
  <2>4. outputs'[d] = Broadcast({c}, w, HelloBase(cs))[c]
    BY <1>8, <1>10 DEF out, HelloReply
  <2>. QED  BY <1>8, <2>3, <2>4, Zenon DEF ActorsLead
<1>. QED  BY <1>9, <1>10

\* Two broadcasts that fit reach everybody.
LEMMA BroadcastTwo ==
    ASSUME NEW m, NEW n, NEW cs \in SUBSET Clients, NEW c \in cs, 2 * Cardinality(cs) <= MaxOutputs
    PROVE  Broadcast(cs, <<m, n>>, 0)[c] = <<m, n>>
<1> DEFINE card == Cardinality(cs)
           rank == Cardinality({d \in cs : d <= c})
           reach == {k \in 1 .. 2 : 0 + (k - 1) * card + rank <= MaxOutputs}
<1>1. IsFiniteSet(cs) /\ card \in Nat
  BY FS_Subset, FS_CardinalityType, WorldAssumption
<1>2. rank \in Nat /\ rank <= card
  BY <1>1, FS_Subset, FS_CardinalityType
<1>3. <<m, n>> \in Seq({m, n}) /\ Len(<<m, n>>) = 2
  OBVIOUS
<1>4. Fits(cs, c, 2, 0) = Cardinality(reach)
  BY DEF Fits
<1>5. 2 * card <= MaxOutputs
  OBVIOUS
<1> HIDE DEF rank, card
<1>6. reach = 1 .. 2
  <2>1. (1 - 1) * card = 0 /\ (2 - 1) * card = card
    BY <1>1
  <2>2. 0 + (1 - 1) * card + rank <= MaxOutputs /\ 0 + (2 - 1) * card + rank <= MaxOutputs
    BY <1>1, <1>2, <1>5, <2>1, WorldAssumption
  <2>3. \A k \in 1 .. 2 : k = 1 \/ k = 2
    OBVIOUS
  <2>4. \A k \in 1 .. 2 : 0 + (k - 1) * card + rank <= MaxOutputs
    BY <2>2, <2>3, Zenon
  <2>. QED  BY <2>4, Zenon
<1> HIDE DEF reach
<1>7. Cardinality(reach) = 2
  <2>1. \A k \in Nat : Cardinality(1 .. k) = k
    BY FS_Interval
  <2>. QED  BY <1>6, <2>1
<1>8. SubSeq(<<m, n>>, 1, 2) = <<m, n>>
  BY <1>3, SubSeqFull
<1>9. Broadcast(cs, <<m, n>>, 0)[c] = SubSeq(<<m, n>>, 1, Fits(cs, c, Len(<<m, n>>), 0))
  BY DEF Broadcast
<1>. QED  BY <1>3, <1>4, <1>7, <1>8, <1>9, Zenon

\* A tick that finds the corpse t takes it, and leaves the others alone.
LEMMA TickKills ==
    ASSUME NEW as \in [Actors -> ActorRecord], NEW t \in Actors,
           \A a \in Actors : as[a].in_use => ~as[a].pending /\ (as[a].dead => a = t),
           as[t].in_use, as[t].dead, NEW cs, NEW out, NEW base,
           tl_tick(as, cs, out, base)
    PROVE  /\ ~actors'[t].in_use
           /\ \A a \in Actors : a # t => actors'[a] = as[a]
<1> DEFINE ts == ac_tick(as)
           gone == Despawned(ts)
<1>1. actors' = [a \in Actors |-> IF a \in gone THEN NoActor ELSE ts[a]]
  BY DEF tl_tick
<1>2. gone \subseteq {t}
  BY TickDooms DEF Despawned
<1>3. NoCorpseStays'
  BY TickClears
<1>4. ts[t].dead
  <2>1. as[t] \in ActorRecord
    OBVIOUS
  <2>2. ts[t] = [as[t] EXCEPT !.pending = TRUE]
    BY DEF ac_tick
  <2> HIDE DEF ts
  <2>. QED  BY <2>1, <2>2 DEF ActorRecord
<1>5. ASSUME NEW a \in Actors, a # t  PROVE ts[a] = as[a]
  BY <1>5 DEF ac_tick
<1>6. ~NoActor.in_use
  BY DEF NoActor
<1> HIDE DEF ts, gone
<1>7. \A a \in Actors : a # t => actors'[a] = as[a]
  BY <1>1, <1>2, <1>5
<1>8. ~actors'[t].in_use
  BY <1>1, <1>3, <1>4, <1>6 DEF NoCorpseStays
<1>. QED  BY <1>7, <1>8

LEMMA HitKills ==
    ASSUME NEW q \in ActorRecord
    PROVE  Hit(q).dead <=> Hit(q).health = 0
<1> DEFINE h == IF q.health > 0 THEN q.health - 1 ELSE 0
<1>1. Hit(q) = [q EXCEPT !.health = h, !.dead = (h = 0)]
  BY DEF Hit
<1> HIDE DEF h
<1>. QED  BY <1>1 DEF ActorRecord

\* A shot that leaves t alive: damage, and the state that goes with it.
LEMMA WoundAgrees ==
    ASSUME NEW as \in [Actors -> ActorRecord], NEW t \in Actors, NEW q \in ActorRecord,
           q.in_use, q.health # 0, NEW v \in Alive(as)
    PROVE  After(v, <<Damage(t, q), ActorState(t, q)>>) \in Alive([as EXCEPT ![t] = q])
<1> DEFINE bs == [as EXCEPT ![t] = q]
           m == Damage(t, q)
           n == ActorState(t, q)
           u == plugin_apply_packet(v, m)
<1>1. bs \in [Actors -> ActorRecord] /\ bs[t] = q /\ \A a \in Actors : a # t => bs[a] = as[a]
  OBVIOUS
<1>2. m \in ActorMsgs /\ m.id = t /\ n \in ActorMsgs
  BY ActorMsgFields
<1> HIDE DEF bs, m
<1>3. v \in AliveBut(bs, t)
  BY <1>1, OthersAgree
<1>4. u \in AliveBut(bs, t)
  BY <1>2, <1>3, AboutKeepsOthers DEF Closed, MsgsAbout
<1>5. plugin_apply_packet(u, ActorState(t, bs[t])) \in Alive(bs)
  <2>1. bs[t].in_use /\ bs[t].health # 0
    BY <1>1
  <2> HIDE DEF u
  <2>. QED  BY <1>1, <1>4, <2>1, StateAgrees
<1>6. v \in Views /\ m \in Msgs /\ n \in Msgs
  BY <1>2 DEF Alive, Msgs
<1> HIDE DEF n
<1>7. After(v, <<m, n>>) = plugin_apply_packet(u, n)
  BY <1>6, AfterTwo
<1>8. After(v, <<m, n>>) \in Alive(bs)
  BY <1>1, <1>5, <1>7 DEF n
<1>. QED  BY <1>8 DEF m, n, bs

\* A shot that kills t: whatever is said of it, the last word is the despawn.
LEMMA KillAgrees ==
    ASSUME NEW as, NEW bs, NEW t \in Actors, \A a \in Actors : a # t => bs[a] = as[a],
           NEW w \in Seq(MsgsAbout(t)), NEW v \in Alive(as)
    PROVE  After(v, w \o <<ActorDespawn(t)>>) \in Alive(bs)
<1> DEFINE m == ActorDespawn(t)
<1>1. After(v, w) \in AliveBut(bs, t)
  <2>1. v \in AliveBut(bs, t)
    BY OthersAgree
  <2>. QED  BY <2>1, AboutKeepsOthers, AfterSteps
<1>2. plugin_apply_packet(After(v, w), m) \in Alive(bs)
  BY <1>1, DespawnAgrees
<1>3. m \in Msgs
  <2>1. NoActor \in ActorRecord
    BY DEF NoActor, ActorRecord, Full
  <2>. QED  BY <2>1, ActorMsgFields DEF Msgs
<1>4. v \in Views /\ After(v, w) \in Views
  BY <1>1 DEF Alive, AliveBut
<1>5. w \in Seq(Msgs)
  <2>1. MsgsAbout(t) \subseteq Msgs
    BY DEF MsgsAbout, Msgs
  <2>. QED  BY <2>1
<1> HIDE DEF m
<1>6. <<m>> \in Seq(Msgs)
  BY <1>3
<1>7. After(v, w \o <<m>>) = After(After(v, w), <<m>>)
  <2>1. \A x \in Seq(Msgs) : After(v, w \o x) = After(After(v, w), x)
    BY <1>4, <1>5, ViewsClosed, AfterConcat
  <2>. QED  BY <1>6, <2>1, Zenon
<1>8. After(After(v, w), <<m>>) = plugin_apply_packet(After(v, w), m)
  BY <1>3, <1>4, AfterOne
<1>9. After(v, w \o <<m>>) \in Alive(bs)
  BY <1>2, <1>7, <1>8
<1>. QED  BY <1>9 DEF m

\* MSG_FIRE_INTENT.
LEMMA FireTellsActors ==
    ASSUME WInv, CombatFits, NEW c \in Clients, NEW t \in Actors, ac_handle_fire_intent(c, t),
           NEW d \in connected
    PROVE  ActorsLead(outputs'[d])
<1>1. PICK q \in ActorRecord, msgs \in Seq(ActorMsgs) :
              /\ q = Hit(actors[t]) /\ q.in_use /\ ~q.pending
              /\ actors[t].in_use /\ ~actors[t].dead
              /\ msgs = <<Damage(t, q), ActorState(t, q)>> \o (IF q.dead THEN <<Death(t)>> ELSE <<>>)
              /\ Len(msgs) = IF q.dead THEN 3 ELSE 2
              /\ tl_tick([actors EXCEPT ![t] = q], connected, Broadcast(connected, msgs, 0),
                         Len(msgs) * Cardinality(connected))
              /\ [actors EXCEPT ![t] = q] \in [Actors -> ActorRecord]
              /\ \A a \in Actors : [actors EXCEPT ![t] = q][a].in_use =>
                    /\ ~[actors EXCEPT ![t] = q][a].pending
                    /\ [actors EXCEPT ![t] = q][a].dead => a = t
  BY FireSays, Zenon
<1> DEFINE as == [actors EXCEPT ![t] = q]
           card == Cardinality(connected)
           out == Broadcast(connected, msgs, 0)
           base == Len(msgs) * card
<1>2. connected \in SUBSET Clients /\ d \in Clients /\ actors \in [Actors -> ActorRecord]
  BY DEF WInv, TypeOK
<1>3. card \in Nat /\ 4 * card <= MaxOutputs
  <2>1. card \in Nat /\ Cardinality(Clients) \in Nat /\ card <= Cardinality(Clients)
    BY <1>2, FS_Subset, FS_CardinalityType, WorldAssumption
  <2> HIDE DEF card
  <2>. QED  BY <2>1, WorldAssumption DEF CombatFits
<1>4. /\ as \in [Actors -> ActorRecord]
      /\ \A a \in Actors : as[a].in_use => ~as[a].pending /\ (as[a].dead => a = t)
      /\ tl_tick(as, connected, out, base)
  BY <1>1, Zenon
<1>5. as[t] = q /\ \A a \in Actors : a # t => as[a] = actors[a]
  BY <1>2
<1>6. q.dead <=> q.health = 0
  BY <1>1, <1>2, HitKills
<1>7. CASE ~q.dead
  <2> DEFINE m == Damage(t, q)
             n == ActorState(t, q)
  <2>1. msgs = <<m, n>>
    <3>1. msgs = <<m, n>> \o <<>>
      BY <1>1, <1>7
    <3> HIDE DEF m, n
    <3>2. <<m, n>> \o <<>> = <<m, n>>
      OBVIOUS
    <3>. QED  BY <3>1, <3>2
  <2>2. out[d] = <<m, n>>
    <3>1. 2 * Cardinality(connected) <= MaxOutputs
      BY <1>3, WorldAssumption
    <3> HIDE DEF m, n
    <3>. QED  BY <1>2, <2>1, <3>1, BroadcastTwo
  <2>3. out[d] \in Seq(ActorMsgs)
    BY <1>2, BroadcastTyped
  <2>4. \A a \in Actors : as[a].in_use => ~as[a].pending /\ ~as[a].dead
    <3> HIDE DEF as
    <3>. QED  BY <1>4, <1>5, <1>7
  <2>5. base \in Nat
    BY <1>3
  <2>6. actors' = as /\ outputs'[d] = out[d]
    <3> HIDE DEF as, out, base
    <3>. QED  BY <1>2, <1>4, <2>3, <2>4, <2>5, QuietTickSays
  <2>7. \A v \in Alive(actors) : After(v, <<m, n>>) \in Alive(as)
    BY <1>1, <1>2, <1>6, <1>7, WoundAgrees
  <2> HIDE DEF as, m, n, out
  <2>. QED  BY <2>2, <2>6, <2>7, Zenon DEF ActorsLead
<1>8. CASE q.dead
  <2>1. ~actors'[t].in_use /\ \A a \in Actors : a # t => actors'[a] = as[a]
    <3>1. q.in_use /\ q.dead
      BY <1>1, <1>8
    <3> HIDE DEF as, out, base
    <3>2. as[t].in_use /\ as[t].dead
      BY <1>5, <3>1
    <3>. QED  BY <1>4, <3>2, TickKills
  <2>2. base \in Nat /\ base + Cardinality(connected) <= MaxOutputs
    <3>1. Len(msgs) = 3
      BY <1>1, <1>8
    <3>. QED  BY <1>3, <3>1, WorldAssumption
  <2>3. outputs'[d] = out[d] \o <<ActorDespawn(t)>>
    <3> HIDE DEF as, out, base
    <3>1. as[t].in_use
      BY <1>1, <1>5
    <3>. QED  BY <1>2, <1>4, <2>1, <2>2, <3>1, TickSays
  <2>4. out[d] \in Seq(MsgsAbout(t))
    <3> DEFINE m == Damage(t, q)
               n == ActorState(t, q)
               k == Death(t)
               A == MsgsAbout(t)
    <3>1. m \in A /\ n \in A /\ k \in A
      BY ActorMsgFields DEF MsgsAbout
    <3>2. msgs = <<m, n>> \o <<k>>
      BY <1>1, <1>8
    <3> HIDE DEF m, n, k, A
    <3>3. msgs \in Seq(A)
      BY <3>1, <3>2
    <3>. QED  BY <1>2, <3>3, BroadcastTyped DEF A
  <2>5. \A a \in Actors : a # t => actors'[a] = actors[a]
    BY <1>5, <2>1
  <2> HIDE DEF out
  <2>6. \A v \in Alive(actors) : After(v, out[d] \o <<ActorDespawn(t)>>) \in Alive(actors')
    BY <2>4, <2>5, KillAgrees
  <2>. QED  BY <2>3, <2>6, Zenon DEF ActorsLead
<1>. QED  BY <1>7, <1>8

\* An iteration that leaves the actors alone and says one thing of an object.
LEMMA ObjectNewsLeads ==
    ASSUME UNCHANGED actors, NEW m, NEW w, w = <<m>> \/ w = <<>>, w \in Seq(Msgs),
           m.kind \in {"object_spawn", "object_update", "object_despawn"}
    PROVE  ActorsLead(w)
<1>1. CASE w = <<>>
  BY <1>1, NothingLeads
<1>2. CASE w = <<m>>
  <2>1. m \in Msgs
    BY <1>2
  <2>2. m \in ObjectMsgs
    BY <2>1 DEF Msgs, ActorMsgs
  <2>3. w \in Seq(ObjectMsgs)
    BY <1>2, <2>2
  <2>4. \A v \in Alive(actors) : After(v, w) \in Alive(actors)
    BY <2>3, ObjectMsgsKeepAlive, AfterSteps
  <2>. QED  BY <2>4, Zenon DEF ActorsLead
<1>. QED  BY <1>1, <1>2

LEMMA SilenceTellsActors ==
    ASSUME WInv, NEW cs \in SUBSET Clients, NEW base \in Nat,
           tl_tick(actors, cs, Silence, base), NEW d \in Clients
    PROVE  ActorsLead(outputs'[d])
<1>1. /\ actors \in [Actors -> ActorRecord]
      /\ \A a \in Actors : actors[a].in_use => ~actors[a].pending /\ ~actors[a].dead
  BY DEF WInv, TypeOK, NoCorpseStays
<1>2. Silence[d] \in Seq(Msgs) /\ Silence[d] = <<>>
  BY EmptySeq DEF Silence
<1>3. actors' = actors /\ outputs'[d] = <<>>
  BY <1>1, <1>2, QuietTickSays
<1>. QED  BY <1>3, NothingLeads

\* Build, move and scrap.
LEMMA ObjectTickTellsActors ==
    ASSUME WInv, ObjectFits, NEW m, NEW base \in Nat, NEW b2 \in Nat,
           connected' = connected, base <= 1,
           tl_tick(actors, connected, Broadcast(connected, <<m>>, base), b2),
           m.kind \in {"object_spawn", "object_update", "object_despawn"},
           NEW d \in Clients, outputs'[d] \in Seq(Msgs)
    PROVE  ActorsLead(outputs'[d])
<1>1. /\ connected \in SUBSET Clients /\ actors \in [Actors -> ActorRecord]
      /\ \A a \in Actors : actors[a].in_use => ~actors[a].pending /\ ~actors[a].dead
  BY DEF WInv, TypeOK, NoCorpseStays
<1>2. actors' = actors
  BY <1>1, QuietTickSays
<1>3. outputs'[d] = <<m>> \/ outputs'[d] = <<>>
  BY ObjectTick
<1>. QED  BY <1>2, <1>3, ObjectNewsLeads

\* Every iteration: what it sends to whoever is connected leads from agreement
\* about the actors as they were to agreement about the actors as they are.
LEMMA StepTellsActors ==
    ASSUME WInv, IdsAreGiven, ObjectFits, CombatFits, ReplayFits, NEW c \in Clients, Step(c),
           NEW d \in Clients, d \in connected'
    PROVE  ActorsLead(outputs'[d])
<1>1. outputs'[d] \in Seq(Msgs) /\ connected \in SUBSET Clients
  BY StepLeads DEF WInv, TypeOK
<1>2. Cardinality(connected) \in Nat /\ 1 + Cardinality(connected) \in Nat
  <2>1. IsFiniteSet(connected)
    BY <1>1, FS_Subset, WorldAssumption
  <2>. QED  BY <2>1, FS_CardinalityType
<1> DEFINE Goal == ActorsLead(outputs'[d])
<1>3. CASE Hello(c)
  BY <1>3, HelloTellsActors
<1>4. CASE Disconnect(c)
  <2>1. tl_tick(actors, connected \ {c}, Silence, Cardinality(connected))
        /\ connected \ {c} \in SUBSET Clients
    BY <1>1, <1>4 DEF Disconnect
  <2>. QED  BY <1>2, <2>1, SilenceTellsActors
<1>5. ASSUME NEW p \in Places, PlayerState(c, p)  PROVE Goal
  <2>1. tl_tick(actors, connected, Silence, Cardinality(connected))
    BY <1>5 DEF PlayerState
  <2>. QED  BY <1>1, <1>2, <2>1, SilenceTellsActors
<1>6. ASSUME NEW t \in Actors, ac_handle_fire_intent(c, t)  PROVE Goal
  <2>1. d \in connected
    BY <1>6 DEF ac_handle_fire_intent
  <2>. QED  BY <1>6, <2>1, FireTellsActors
<1>7. ASSUME NEW s \in Settlements, NEW p \in Places, BuildWithoutRoom(c, s, p)  PROVE Goal
  <2>1. tl_tick(actors, connected, Silence, 1)
    BY <1>7 DEF BuildWithoutRoom
  <2>. QED  BY <1>1, <2>1, SilenceTellsActors
<1>8. CASE TickOnly(c)
  <2>1. PICK base \in {0, 1, Cardinality(connected)} : tl_tick(actors, connected, Silence, base)
    BY <1>8 DEF TickOnly
  <2>2. base \in Nat
    BY <1>2
  <2>. QED  BY <1>1, <2>1, <2>2, SilenceTellsActors
<1>9. ASSUME NEW s \in Settlements, NEW p \in Places, ac_handle_build_request(c, s, p)  PROVE Goal
  <2> DEFINE m == ObjectSpawn(objects'[find_object(objects', nextObject)])
  <2>1. tl_tick(actors, connected, Broadcast(connected, <<m>>, 1), 1 + Cardinality(connected))
        /\ connected' = connected
    BY <1>9 DEF ac_handle_build_request
  <2>2. m.kind = "object_spawn"
    BY DEF ObjectSpawn
  <2> HIDE DEF m
  <2>. QED  BY <1>1, <1>2, <2>1, <2>2, ObjectTickTellsActors
<1>10. ASSUME NEW id \in NetIds, NEW p \in Places, ac_handle_object_move(c, id, p)  PROVE Goal
  <2> DEFINE m == ObjectUpdate(objects'[find_object(objects, id)])
  <2>1. tl_tick(actors, connected, Broadcast(connected, <<m>>, 0), Cardinality(connected))
        /\ connected' = connected
    BY <1>10 DEF ac_handle_object_move
  <2>2. m.kind = "object_update"
    BY DEF ObjectUpdate
  <2> HIDE DEF m
  <2>. QED  BY <1>1, <1>2, <2>1, <2>2, ObjectTickTellsActors
<1>11. ASSUME NEW id \in NetIds, ac_handle_object_scrap(c, id)  PROVE Goal
  <2> DEFINE m == ObjectDespawn(id)
  <2>1. tl_tick(actors, connected, Broadcast(connected, <<m>>, 0), Cardinality(connected))
        /\ connected' = connected
    BY <1>11 DEF ac_handle_object_scrap
  <2>2. m.kind = "object_despawn"
    BY DEF ObjectDespawn
  <2> HIDE DEF m
  <2>. QED  BY <1>1, <1>2, <2>1, <2>2, ObjectTickTellsActors
<1>12. Goal
  BY <1>3, <1>4, <1>5, <1>6, <1>7, <1>8, <1>9, <1>10, <1>11, Zenon DEF Step, NetIds
<1>. QED  BY <1>12

-----------------------------------------------------------------------------
(***************************************************************************)
(* Actors in the composition                                               *)
(***************************************************************************)

AliveInv == \A c \in connected : Settled(c) \in Alive(actors)

LEMMA AliveStep ==
    ASSUME Window = 1, ObjectFits, CombatFits, ReplayFits, ObjectInv, AliveInv, RNext
    PROVE  AliveInv'
<1>0. WInv /\ IdsAreGiven /\ RTypes /\ connected \subseteq Clients
  BY DEF ObjectInv, WInv, TypeOK
<1>1. ASSUME NEW c \in Clients, Handles(c)  PROVE AliveInv'
  <2>1. Step(c) /\ connected' \subseteq Clients
    BY <1>0, <1>1, HandlesIsStep, WorldStepKeepsInv DEF WInv, TypeOK
  <2>2. \A d \in Clients : outputs'[d] \in Seq(Msgs)
    BY <1>0, <2>1, StepLeads
  <2>3. \A d \in connected' : Follows(d)
    BY <1>0, <1>1, <2>2, HandlesFollows
  <2>4. ASSUME NEW d \in connected'  PROVE Settled(d)' \in Alive(actors')
    <3>1. ActorsLead(outputs'[d]) /\ Follows(d)
      BY <1>0, <2>1, <2>3, StepTellsActors
    <3>2. CASE d \in connected /\ Settled(d)' = After(Settled(d), outputs'[d])
      <4>1. Settled(d) \in Alive(actors)
        BY <3>2 DEF AliveInv
      <4>. QED  BY <3>1, <3>2, <4>1, Zenon DEF ActorsLead
    <3>3. CASE Settled(d)' = After(EmptyView, outputs'[d])
      <4>1. EmptyView \in Alive(actors)
        BY EmptyViewTyped DEF Alive, ShowsActor
      <4>. QED  BY <3>1, <3>3, <4>1, Zenon DEF ActorsLead
    <3>. QED  BY <3>1, <3>2, <3>3 DEF Follows
  <2>. QED  BY <2>4 DEF AliveInv
<1>2. ASSUME NEW c \in Clients, Deliver(c)  PROVE AliveInv'
  <2>1. \A d \in Clients : Settled(d)' = Settled(d)
    BY <1>0, <1>2, DeliverFollows
  <2>2. connected' = connected /\ actors' = actors
    BY <1>2 DEF Deliver, vars
  <2>3. \A d \in connected : Settled(d)' = Settled(d)
    BY <1>0, <2>1
  <2>. QED  BY <2>2, <2>3 DEF AliveInv
<1>. QED  BY <1>1, <1>2 DEF RNext, Handles

\* Whatever mix of spawns, states, damage and deaths the fights, late joins and
\* repeated HELLOs produce, a client ends up with live actors at the service's
\* health, provided that the outputs of one iteration fit: those of a kill
\* (CombatFits), of a build (ObjectFits) and of a replay about the hostiles
\* (ReplayFits).
THEOREM ActorsConverge ==
    ASSUME Window = 1, ObjectFits, CombatFits, ReplayFits
    PROVE  RSpec => []ActorViewsConverge
<1>1. RInit => ObjectInv /\ AliveInv
  BY ObjectInit DEF RInit, Init, AliveInv
<1>2. ObjectInv /\ AliveInv /\ [RNext]_<<vars, netVars>> => ObjectInv' /\ AliveInv'
  <2> SUFFICES ASSUME ObjectInv, AliveInv, [RNext]_<<vars, netVars>>  PROVE ObjectInv' /\ AliveInv'
    OBVIOUS
  <2>1. CASE RNext
    BY <2>1, ObjectStep, AliveStep
  <2>2. CASE UNCHANGED <<vars, netVars>>
    <3>1. ObjectInv'
      BY <2>2, ObjectStutter
    <3>2. connected' = connected /\ actors' = actors /\ chan' = chan /\ view' = view
      BY <2>2 DEF vars, netVars
    <3>3. \A d : Settled(d)' = Settled(d)
      BY <3>2 DEF Settled
    <3>4. AliveInv'
      BY <3>2, <3>3 DEF AliveInv
    <3>. QED  BY <3>1, <3>4
  <2>. QED  BY <2>1, <2>2
<1>3. AliveInv => ActorViewsConverge
  BY DEF AliveInv, Alive, ShowsActor, ActorViewsConverge
<1>. QED  BY <1>1, <1>2, <1>3, PTL DEF RSpec

=============================================================================
