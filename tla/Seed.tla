-------------------------------- MODULE Seed --------------------------------
(***************************************************************************)
(* The seeding of the reference data, app/db/seed.py, that every instance  *)
(* runs before it serves (Dockerfile): tractates with their mishnayot, one *)
(* transaction each, then the item of the shop.  Instances boot at the     *)
(* same time, are killed while they seed, and boot again.  PostgreSQL: an  *)
(* insert of a slug that another transaction has inserted waits for it,    *)
(* and raises when it committed.                                           *)
(***************************************************************************)
EXTENDS Naturals, FiniteSets, SequencesExt

CONSTANTS Instances,
          Payload,    \* the slugs of tractates.json, in order
          Patience,   \* tractates a boot has time to add before it is killed
          MaxFaults   \* bound: kills that come earlier

ASSUME PayloadAssumption ==
    Payload \in Seq(ToSet(Payload)) /\ IsInjective(Payload)
ASSUME PatienceAssumption == Patience \in Nat \ {0}
ASSUME SeedFaultsAssumption == MaxFaults \in Nat

Slugs == ToSet(Payload)

VARIABLES
    tractates, \* committed slugs
    mishnayot, \* slugs whose mishnayot are committed
    shop_item, \* whether the streak freeze is committed
    pc,        \* of each instance
    existing,  \* the slugs it read when it booted
    position,  \* its place in the payload
    pending,   \* slugs its transaction has inserted
    added,     \* tractates this boot has added
    faults

tables == <<tractates, mishnayot, shop_item>>
locals == <<existing, position, pending, added>>
vars == <<tables, pc, locals, faults>>

Init ==
    /\ tractates = {} /\ mishnayot = {} /\ shop_item = FALSE
    /\ pc = [i \in Instances |-> "down"]
    /\ existing = [i \in Instances |-> {}]
    /\ position = [i \in Instances |-> 1]
    /\ pending = [i \in Instances |-> {}]
    /\ added = [i \in Instances |-> 0]
    /\ faults = 0

Slug(i) == Payload[position[i]]

\* The process and its transaction are gone.
Down(i) ==
    /\ pc' = [pc EXCEPT ![i] = "down"]
    /\ pending' = [pending EXCEPT ![i] = {}]
    /\ UNCHANGED <<tables, existing, position, added>>

Boot(i) ==
    /\ pc[i] = "down"
    /\ pc' = [pc EXCEPT ![i] = "tractates"]
    /\ existing' = [existing EXCEPT ![i] = tractates]
    /\ position' = [position EXCEPT ![i] = 1]
    /\ added' = [added EXCEPT ![i] = 0]
    /\ UNCHANGED <<tables, pending, faults>>

\* Already there when this instance booted.
Skip(i) ==
    /\ pc[i] = "tractates"
    /\ position[i] <= Len(Payload)
    /\ Slug(i) \in existing[i]
    /\ position' = [position EXCEPT ![i] = @ + 1]
    /\ UNCHANGED <<tables, pc, existing, pending, added, faults>>

\* Another instance has inserted the slug and not committed yet.
Held(i, slug) == \E j \in Instances \ {i} : slug \in pending[j]

\* Fault: the tractate is committed before its mishnayot.
InsertCommits(i) ==
    /\ pc[i] = "tractates"
    /\ position[i] <= Len(Payload)
    /\ Slug(i) \notin existing[i] \cup tractates
    /\ ~Held(i, Slug(i))
    /\ tractates' = tractates \cup {Slug(i)}
    /\ pending' = [pending EXCEPT ![i] = {Slug(i)}]
    /\ pc' = [pc EXCEPT ![i] = "mishnayot"]
    /\ UNCHANGED <<mishnayot, shop_item, existing, position, added, faults>>

\* Fault: a slug that another instance is inserting is left to it.
InsertOrLeaveToOther(i) ==
    /\ pc[i] = "tractates"
    /\ position[i] <= Len(Payload)
    /\ Slug(i) \notin existing[i] \cup tractates
    /\ IF Held(i, Slug(i))
       THEN /\ position' = [position EXCEPT ![i] = @ + 1]
            /\ UNCHANGED <<pc, pending>>
       ELSE /\ pending' = [pending EXCEPT ![i] = @ \cup {Slug(i)}]
            /\ pc' = [pc EXCEPT ![i] = "mishnayot"]
            /\ UNCHANGED position
    /\ UNCHANGED <<tables, existing, added, faults>>

\* The flush of the tractate.
InsertTractate(i) ==
    /\ pc[i] = "tractates"
    /\ position[i] <= Len(Payload)
    /\ Slug(i) \notin existing[i] \cup tractates
    /\ ~Held(i, Slug(i))
    /\ pending' = [pending EXCEPT ![i] = @ \cup {Slug(i)}]
    /\ pc' = [pc EXCEPT ![i] = "mishnayot"]
    /\ UNCHANGED <<tables, existing, position, added, faults>>

\* The slug appeared since this instance read the table: the insert violates
\* its constraint, the seeding raises and the instance does not come up.
Conflict(i) ==
    /\ pc[i] = "tractates"
    /\ position[i] <= Len(Payload)
    /\ Slug(i) \in tractates \ existing[i]
    /\ Down(i)
    /\ UNCHANGED faults

\* Fault: one commit at the end, for all of them.
InsertMishnayotOnly(i) ==
    /\ pc[i] = "mishnayot"
    /\ position' = [position EXCEPT ![i] = @ + 1]
    /\ added' = [added EXCEPT ![i] = @ + 1]
    /\ pc' = [pc EXCEPT ![i] = "tractates"]
    /\ UNCHANGED <<tables, existing, pending, faults>>

\* Commit whatever the transaction of the instance has inserted.
CommitPending(i) ==
    /\ tractates' = tractates \cup pending[i]
    /\ mishnayot' = mishnayot \cup pending[i]
    /\ pending' = [pending EXCEPT ![i] = {}]

\* The mishnayot in one insert, and the commit of both.
InsertMishnayot(i) ==
    /\ pc[i] = "mishnayot"
    /\ CommitPending(i)
    /\ position' = [position EXCEPT ![i] = @ + 1]
    /\ added' = [added EXCEPT ![i] = @ + 1]
    /\ pc' = [pc EXCEPT ![i] = "tractates"]
    /\ UNCHANGED <<shop_item, existing, faults>>

\* seed_shop looks the item up; when it is there nothing is left to do.
LookUpItem(i) ==
    /\ pc[i] = "tractates"
    /\ position[i] > Len(Payload)
    /\ pc' = [pc EXCEPT ![i] = IF shop_item THEN "commit" ELSE "item"]
    /\ UNCHANGED <<tables, locals, faults>>

\* The final commit; it raises when another instance added the item meanwhile.
FinalCommit(i) ==
    \/ /\ pc[i] = "commit" \/ (pc[i] = "item" /\ ~shop_item)
       /\ CommitPending(i)
       /\ shop_item' = TRUE
       /\ pc' = [pc EXCEPT ![i] = "serving"]
       /\ UNCHANGED <<existing, position, added, faults>>
    \/ /\ pc[i] = "item" /\ shop_item
       /\ Down(i)
       /\ UNCHANGED faults

\* The platform kills a boot that takes too long, at any point of it.
Kill(i) ==
    /\ pc[i] \notin {"down", "serving"}
    /\ IF added[i] >= Patience
       THEN UNCHANGED faults
       ELSE faults < MaxFaults /\ faults' = faults + 1
    /\ Down(i)

\* A serving instance is stopped, or deployed anew.
Stop(i) == pc[i] = "serving" /\ Down(i) /\ UNCHANGED faults

Seeding(i) ==
    \/ Boot(i) \/ Skip(i) \/ InsertTractate(i) \/ Conflict(i)
    \/ InsertMishnayot(i) \/ LookUpItem(i) \/ FinalCommit(i)

Next == \E i \in Instances : Seeding(i) \/ Kill(i) \/ Stop(i)

\* The platform boots an instance that is down, and a process that is up runs.
Spec == Init /\ [][Next]_vars /\ \A i \in Instances : WF_vars(Seeding(i))

-----------------------------------------------------------------------------
\* No boot can skip half a tractate: what is committed has its mishnayot, at
\* every point an instance can be killed at (seed.py: resumes by the slugs).
NoHalfTractate == mishnayot = tractates

\* An instance that serves finds all tractates and the item, also when it left
\* some to another instance that is still seeding.
ServesAll ==
    \A i \in Instances :
        pc[i] = "serving" => mishnayot = Slugs /\ shop_item

\* However often boots are killed, as long as each has the time for one
\* tractate, an instance that is down comes to serve (seed.py: one big
\* transaction starts from nothing, forever; every restart resumes).
EveryBootResumes ==
    \A i \in Instances : pc[i] = "down" ~> pc[i] = "serving"

=============================================================================
