----------------------------- MODULE SeedProofs -----------------------------
(***************************************************************************)
(* Proofs about the seeding, for every number of instances, of tractates   *)
(* and of kills.                                                           *)
(***************************************************************************)
EXTENDS Seed, TLAPS

Seeded ==
    /\ tractates \in SUBSET Slugs
    /\ shop_item \in BOOLEAN
    /\ pc \in [Instances ->
                 {"down", "tractates", "mishnayot", "item", "commit", "serving"}]
    /\ existing \in [Instances -> SUBSET Slugs]
    /\ position \in [Instances -> Nat]
    /\ pending \in [Instances -> SUBSET Slugs]

\* The payload that an instance has passed is in the table.
Covered(i) == \A k \in 1..Len(Payload) : k < position[i] => Payload[k] \in tractates

\* What the place of an instance says of the tables.
PlaceInv(i) ==
    /\ position[i] >= 1
    /\ existing[i] \subseteq tractates
    /\ Covered(i)
    /\ pc[i] = "mishnayot" =>
          position[i] <= Len(Payload) /\ pending[i] = {Slug(i)}
    /\ pc[i] # "mishnayot" => pending[i] = {}
    /\ pc[i] \in {"item", "commit", "serving"} => position[i] > Len(Payload)
    /\ pc[i] = "serving" => shop_item

SeedInv == Seeded /\ NoHalfTractate /\ \A i \in Instances : PlaceInv(i)

\* The tables only grow.
Grows == tractates \subseteq tractates' /\ (shop_item => shop_item')

LEMMA PayloadTypes ==
    /\ Len(Payload) \in Nat
    /\ \A k \in 1..Len(Payload) : Payload[k] \in Slugs
    /\ \A slug \in Slugs : \E k \in 1..Len(Payload) : slug = Payload[k]
  <1>1. Payload \in Seq(Slugs)
    BY PayloadAssumption DEF Slugs
  <1>2. Len(Payload) \in Nat /\ DOMAIN Payload = 1..Len(Payload)
    BY <1>1
  <1>3. Slugs = {Payload[k] : k \in 1..Len(Payload)}
    BY <1>2 DEF Slugs, ToSet
  <1> QED
    BY <1>2, <1>3

LEMMA SeedInitial == Init => SeedInv
  <1> SUFFICES ASSUME Init PROVE SeedInv
    OBVIOUS
  <1>1. Seeded /\ NoHalfTractate
    BY DEF Init, Seeded, NoHalfTractate
  <1>2. ASSUME NEW i \in Instances PROVE PlaceInv(i)
    <2>1. pc[i] = "down" /\ position[i] = 1 /\ existing[i] = {} /\ pending[i] = {}
      BY DEF Init
    <2>2. Covered(i)
      BY <2>1, PayloadTypes DEF Covered
    <2> QED
      BY <2>1, <2>2 DEF PlaceInv
  <1> QED
    BY <1>1, <1>2 DEF SeedInv

\* An instance that a step of another leaves alone keeps its place.
LEMMA OthersKeepPlace ==
    ASSUME NEW i \in Instances, PlaceInv(i), Grows,
           pc'[i] = pc[i], existing'[i] = existing[i],
           position'[i] = position[i], pending'[i] = pending[i]
    PROVE  PlaceInv(i)'
  BY DEF PlaceInv, Covered, Slug, Grows

\* A process that goes down has nothing pending, and claims nothing.
LEMMA DownKeeps ==
    ASSUME SeedInv, NEW i \in Instances, Down(i)
    PROVE  SeedInv'
  <1> USE DEF SeedInv, Down, tables
  <1>1. Seeded' /\ NoHalfTractate' /\ Grows
    BY DEF Seeded, NoHalfTractate, Grows
  <1>2. ASSUME NEW j \in Instances PROVE PlaceInv(j)'
    <2>1. CASE j = i
      BY <2>1 DEF PlaceInv, Covered, Slug, Seeded
    <2>2. CASE j # i
      BY <1>1, <2>2, OthersKeepPlace DEF Seeded
    <2> QED
      BY <2>1, <2>2
  <1> QED
    BY <1>1, <1>2

LEMMA SeedStep == SeedInv /\ [Next]_vars => SeedInv'
  <1> SUFFICES ASSUME SeedInv, [Next]_vars PROVE SeedInv'
    OBVIOUS
  <1> USE PayloadTypes
  <1>1. ASSUME NEW i \in Instances, Boot(i) PROVE SeedInv'
    <2>1. Seeded' /\ NoHalfTractate' /\ Grows
      BY <1>1 DEF SeedInv, Boot, tables, Seeded, NoHalfTractate, Grows
    <2>2. PlaceInv(i)'
      BY <1>1 DEF SeedInv, Boot, tables, Seeded, PlaceInv, Covered
    <2>3. ASSUME NEW j \in Instances, j # i PROVE PlaceInv(j)'
      BY <1>1, <2>1, <2>3, OthersKeepPlace DEF SeedInv, Boot, tables, Seeded
    <2> QED
      BY <2>1, <2>2, <2>3 DEF SeedInv
  <1>2. ASSUME NEW i \in Instances, Skip(i) PROVE SeedInv'
    <2>1. Seeded' /\ NoHalfTractate' /\ Grows
      BY <1>2 DEF SeedInv, Skip, tables, Seeded, NoHalfTractate, Grows
    <2>2. Covered(i)'
      BY <1>2 DEF SeedInv, Skip, tables, Seeded, PlaceInv, Covered, Slug
    <2>3. PlaceInv(i)'
      BY <1>2, <2>2 DEF SeedInv, Skip, tables, Seeded, PlaceInv
    <2>4. ASSUME NEW j \in Instances, j # i PROVE PlaceInv(j)'
      BY <1>2, <2>1, <2>4, OthersKeepPlace DEF SeedInv, Skip, tables, Seeded
    <2> QED
      BY <2>1, <2>3, <2>4 DEF SeedInv
  <1>3. ASSUME NEW i \in Instances, InsertTractate(i) PROVE SeedInv'
    <2>1. Slug(i) \in Slugs
      BY <1>3 DEF SeedInv, InsertTractate, Seeded, PlaceInv, Slug
    <2>2. Seeded' /\ NoHalfTractate' /\ Grows
      BY <1>3, <2>1
         DEF SeedInv, InsertTractate, tables, Seeded, NoHalfTractate, Grows
    <2>3. PlaceInv(i)'
      BY <1>3 DEF SeedInv, InsertTractate, tables, Seeded, PlaceInv, Covered, Slug
    <2>4. ASSUME NEW j \in Instances, j # i PROVE PlaceInv(j)'
      BY <1>3, <2>2, <2>4, OthersKeepPlace
         DEF SeedInv, InsertTractate, tables, Seeded
    <2> QED
      BY <2>2, <2>3, <2>4 DEF SeedInv
  <1>4. ASSUME NEW i \in Instances, Conflict(i) PROVE SeedInv'
    BY <1>4, DownKeeps DEF Conflict
  <1>5. ASSUME NEW i \in Instances, InsertMishnayot(i) PROVE SeedInv'
    <2>1. Seeded' /\ NoHalfTractate' /\ Grows
      BY <1>5 DEF SeedInv, InsertMishnayot, CommitPending, Seeded,
                  NoHalfTractate, Grows
    <2>2. Covered(i)'
      BY <1>5 DEF SeedInv, InsertMishnayot, CommitPending, Seeded, PlaceInv,
                  Covered, Slug
    <2>3. PlaceInv(i)'
      BY <1>5, <2>2 DEF SeedInv, InsertMishnayot, CommitPending, Seeded, PlaceInv
    <2>4. ASSUME NEW j \in Instances, j # i PROVE PlaceInv(j)'
      BY <1>5, <2>1, <2>4, OthersKeepPlace
         DEF SeedInv, InsertMishnayot, CommitPending, Seeded
    <2> QED
      BY <2>1, <2>3, <2>4 DEF SeedInv
  <1>6. ASSUME NEW i \in Instances, LookUpItem(i) PROVE SeedInv'
    <2>1. Seeded' /\ NoHalfTractate' /\ Grows
      BY <1>6 DEF SeedInv, LookUpItem, tables, locals, Seeded, NoHalfTractate,
                  Grows
    <2>2. PlaceInv(i)'
      BY <1>6 DEF SeedInv, LookUpItem, tables, locals, Seeded, PlaceInv, Covered
    <2>3. ASSUME NEW j \in Instances, j # i PROVE PlaceInv(j)'
      BY <1>6, <2>1, <2>3, OthersKeepPlace
         DEF SeedInv, LookUpItem, tables, locals, Seeded
    <2> QED
      BY <2>1, <2>2, <2>3 DEF SeedInv
  <1>7. ASSUME NEW i \in Instances, FinalCommit(i) PROVE SeedInv'
    <2>1. CASE Down(i)
      BY <2>1, DownKeeps
    <2>2. CASE /\ pc[i] = "commit" \/ (pc[i] = "item" /\ ~shop_item)
               /\ CommitPending(i)
               /\ shop_item' = TRUE
               /\ pc' = [pc EXCEPT ![i] = "serving"]
               /\ UNCHANGED <<existing, position, added, faults>>
      <3>1. Seeded' /\ NoHalfTractate' /\ Grows
        BY <2>2 DEF SeedInv, CommitPending, Seeded, NoHalfTractate, Grows
      <3>2. PlaceInv(i)'
        BY <2>2 DEF SeedInv, CommitPending, Seeded, PlaceInv, Covered
      <3>3. ASSUME NEW j \in Instances, j # i PROVE PlaceInv(j)'
        BY <2>2, <3>1, <3>3, OthersKeepPlace DEF SeedInv, CommitPending, Seeded
      <3> QED
        BY <3>1, <3>2, <3>3 DEF SeedInv
    <2> QED
      BY <1>7, <2>1, <2>2 DEF FinalCommit
  <1>8. ASSUME NEW i \in Instances, Kill(i) PROVE SeedInv'
    BY <1>8, DownKeeps DEF Kill
  <1>9. ASSUME NEW i \in Instances, Stop(i) PROVE SeedInv'
    BY <1>9, DownKeeps DEF Stop
  <1>10. CASE UNCHANGED vars
    BY <1>10 DEF SeedInv, vars, tables, locals, Seeded, NoHalfTractate, PlaceInv,
                 Covered, Slug
  <1> QED
    BY <1>1, <1>2, <1>3, <1>4, <1>5, <1>6, <1>7, <1>8, <1>9, <1>10
       DEF Next, Seeding

LEMMA InvServesAll == SeedInv => ServesAll
  <1> SUFFICES ASSUME SeedInv, NEW i \in Instances, pc[i] = "serving"
               PROVE  mishnayot = Slugs /\ shop_item
    BY DEF ServesAll
  <1>1. \A k \in 1..Len(Payload) : Payload[k] \in tractates
    BY PayloadTypes DEF SeedInv, PlaceInv, Covered, Seeded
  <1>2. Slugs = tractates
    BY <1>1, PayloadTypes DEF SeedInv, Seeded
  <1> QED
    BY <1>2 DEF SeedInv, PlaceInv, NoHalfTractate

LEMMA SeedInvariant == Spec => []SeedInv
  <1> QED
    BY SeedInitial, SeedStep, PTL DEF Spec

\* Whenever a boot is killed, and however many boots overlap, a tractate is
\* committed with its mishnayot or not at all (seed.py, seed_tractates).
THEOREM TractatesComplete == Spec => []NoHalfTractate
  <1>1. SeedInv => NoHalfTractate
    BY DEF SeedInv
  <1> QED
    BY <1>1, SeedInvariant, PTL

\* An instance that serves finds every tractate of the payload and the shop
\* item, whatever other instances did while it was seeding.  The invariant
\* behind it: what an instance has passed in the payload is committed.
THEOREM ServingFindsAll == Spec => []ServesAll
  <1> QED
    BY SeedInvariant, InvServesAll, PTL

=============================================================================
