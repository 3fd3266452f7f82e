---------------------- MODULE XeMemorySubmissionProofs ----------------------
(***************************************************************************)
(* Queue, bridge and memory manager together, for every instance: the use  *)
(* counters are exact, DMA only meets mapped and pinned memory, and the    *)
(* composition implements the ownership contract.  The invariants of the   *)
(* parts are reused; what they do not know of each other is that every     *)
(* hold of a job resolves to the record it was taken on (HoldsResolve).    *)
(*                                                                         *)
(* First, what an implementation of the contract gains: the device never   *)
(* reaches memory that was given back.                                     *)
(***************************************************************************)
EXTENDS DmaOwnership, XeMemorySubmission, XeMemoryProofs, XeSubmissionProofs,
        FiniteSetTheorems

\* The inductive invariant: accesses are by known work, to owned memory.
OwnershipInv == owned \subseteq Memory /\ access \subseteq Work \X owned

\* One step of the contract keeps accesses inside owned memory.
LEMMA OwnershipStep == OwnershipInv /\ [Next]_ownershipVars => OwnershipInv'
<1> SUFFICES ASSUME OwnershipInv, [Next]_ownershipVars PROVE OwnershipInv'
  OBVIOUS
<1>1. CASE Release
  BY <1>1 DEF OwnershipInv, Release
<1>2. ASSUME NEW m \in Memory, Acquire(m) PROVE OwnershipInv'
  BY <1>2 DEF OwnershipInv, Acquire
<1>3. ASSUME NEW w \in Work, Start(w) PROVE OwnershipInv'
  <2>1. access' \subseteq access \cup ({w} \X owned)
    BY <1>3 DEF Start
  <2>2. QED BY <1>3, <2>1 DEF OwnershipInv, Start
<1>4. CASE UNCHANGED ownershipVars
  BY <1>4 DEF OwnershipInv, ownershipVars
<1>5. QED BY <1>1, <1>2, <1>3, <1>4 DEF Next

\* Every behaviour of the contract, and so of the queues that implement it,
\* keeps the device inside memory the host still owns.
THEOREM OwnershipIsSafe == Spec => []AccessIsOwned
<1>1. Init => OwnershipInv
  BY DEF Init, OwnershipInv
<1>2. OwnershipInv => AccessIsOwned
  BY DEF OwnershipInv, AccessIsOwned
<1>3. QED BY <1>1, <1>2, OwnershipStep, PTL DEF Spec

-----------------------------------------------------------------------------
InUse == {"Bound", "Retiring"}

\* A held job names each record once, and each is still that allocation.
HoldsResolve ==
    \A j \in JobIds : jobs[j].held =>
        /\ DistinctIds(jobs[j].res)
        /\ \A r \in jobs[j].res : r \in Handle /\ Resolve(r, InUse)

BridgeInv ==
    /\ VmInv /\ QueueInv
    /\ activeUses \in [Slots -> Nat]
    /\ faulted = FALSE
    /\ \A s \in Slots : activeUses[s] = Cardinality(Holders(s))
    /\ HoldsResolve

\* The holders of a record are finitely many.
LEMMA HoldersFinite ==
    ASSUME NEW S \in SUBSET JobIds
    PROVE  IsFiniteSet(S) /\ Cardinality(S) \in Nat
<1>1. IsFiniteSet(JobIds)
  BY FS_Interval, MaxJobsAssumption DEF JobIds
<1>2. IsFiniteSet(S)
  BY <1>1, FS_Subset, ZenonT(30)
<1>3. QED
  BY <1>2, FS_CardinalityType

\* A record named by a hold is counted, and in use.
LEMMA HeldIsCounted ==
    ASSUME BridgeInv, NEW j \in JobIds, jobs[j].held, NEW r \in jobs[j].res
    PROVE  /\ r \in Handle /\ r.slot \in Slots /\ activeUses[r.slot] # 0
           /\ slots[r.slot].state \in InUse /\ slots[r.slot].generation = r.generation
           /\ slots[r.slot].owner = QueueOwner /\ slots[r.slot].pin = "valid"
<1>1. r \in Handle /\ Resolve(r, InUse) /\ r.slot \in Slots
  BY DEF BridgeInv, HoldsResolve, Handle
<1>2. Holders(r.slot) # {} /\ Holders(r.slot) \in SUBSET JobIds
  BY DEF Holders
<1>3. Cardinality(Holders(r.slot)) # 0
  BY <1>2, HoldersFinite, FS_EmptySet, ZenonT(30)
<1>4. QED
  BY <1>1, <1>3 DEF BridgeInv, Resolve, Lookup, InUse

\* A record that is counted has a holder, so it is in use.
LEMMA CountedInUse ==
    ASSUME BridgeInv, NEW s \in Slots, activeUses[s] # 0
    PROVE  slots[s].state \in InUse
<1>1. Holders(s) # {}
  BY FS_EmptySet DEF BridgeInv
<1>2. PICK j \in JobIds : jobs[j].held /\ \E r \in jobs[j].res : r.slot = s
  BY <1>1 DEF Holders
<1>3. QED
  BY <1>2, HeldIsCounted

-----------------------------------------------------------------------------
\* No client call disturbs a record that is in use and counted, and none
\* counts a use.
LEMMA ClientKeepsHeld ==
    ASSUME VmInv, ClientStep, NEW s \in Slots, activeUses \in [Slots -> Nat]
    PROVE  /\ activeUses' \in [Slots -> Nat]
           /\ activeUses'[s] \in {0, activeUses[s]}
           /\ slots[s].state \in InUse /\ activeUses[s] # 0 =>
                 /\ slots'[s].state \in InUse /\ slots'[s].generation = slots[s].generation
                 /\ slots'[s].owner = slots[s].owner /\ slots'[s].pin = slots[s].pin
                 /\ activeUses'[s] = activeUses[s]
<1> DEFINE Kept == /\ activeUses' \in [Slots -> Nat]
                   /\ activeUses'[s] \in {0, activeUses[s]}
                   /\ slots[s].state \in InUse /\ activeUses[s] # 0 =>
                         /\ slots'[s].state \in InUse /\ slots'[s].generation = slots[s].generation
                         /\ slots'[s].owner = slots[s].owner /\ slots'[s].pin = slots[s].pin
                         /\ activeUses'[s] = activeUses[s]
<1> USE DEF InUse
<1>0. slots \in [Slots -> Allocations]
  BY DEF VmInv, VmTypeOK
<1>1. ASSUME NEW o \in Owners, NEW n \in Sizes, NEW a \in Alignments, Reserve(o, n, a)
      PROVE  Kept
  <2>1. PICK k \in Slots : /\ slots[k].state = "Free"
                           /\ \A t \in Slots : t # k => slots'[t] = slots[t]
                           /\ activeUses' = [activeUses EXCEPT ![k] = 0]
    BY <1>0, <1>1, Zenon DEF Reserve, Insert, IsFirstFreeSlot
  <2>2. QED
    BY <2>1
<1>2. ASSUME NEW o \in Owners, NEW h \in Handle,
             \/ Pin(o, h) \/ PinUncertain(o, h) \/ Bind(o, h)
             \/ \E P \in SUBSET Pages : BindUncertain(o, h, P)
      PROVE  Kept
  <2>1. /\ h.slot \in Slots /\ slots[h.slot].state \in {"Reserved", "Pinned"}
        /\ activeUses' = activeUses /\ \A t \in Slots : t # h.slot => slots'[t] = slots[t]
    BY <1>0, <1>2, ZenonT(30) DEF Pin, PinUncertain, Bind, BindUncertain, Lookup, Handle
  <2>2. QED
    BY <2>1, ZenonT(30)
<1>3. ASSUME NEW o \in Owners, NEW h \in Handle,
             RetireMapping(o, h) \/ \E f \in Fence : RecordUse(o, h, f)
      PROVE  Kept
  <2>1. /\ h.slot \in Slots /\ activeUses' = activeUses
        /\ \A t \in Slots : t # h.slot => slots'[t] = slots[t]
        /\ slots'[h.slot].state \in InUse /\ slots'[h.slot].generation = slots[h.slot].generation
        /\ slots'[h.slot].owner = slots[h.slot].owner /\ slots'[h.slot].pin = slots[h.slot].pin
    BY <1>0, <1>3, SMTT(60) DEF RetireMapping, RecordUse, Lookup, Handle, Allocations
  <2>2. QED
    BY <2>1
<1>4. ASSUME NEW o \in Owners, NEW h \in Handle,
             \/ ReclaimReserved(o, h) \/ ReclaimPinned(o, h) \/ ReclaimRetiring(o, h)
             \/ \E P \in SUBSET Pages : ReclaimUncertain(o, h, P)
      PROVE  Kept
  <2>1. /\ h.slot \in Slots
        /\ slots[h.slot].state \in {"Reserved", "Pinned"} \/ activeUses[h.slot] = 0
    BY <1>4 DEF ReclaimReserved, ReclaimPinned, ReclaimRetiring, ReclaimUncertain, Lookup, Handle, Unbindable
  <2>2. Freed(h.slot) \/ Quarantined(h.slot)
    BY <1>4 DEF ReclaimReserved, ReclaimPinned, ReclaimRetiring, ReclaimUncertain, Unpin
  <2>3. /\ \A t \in Slots : t # h.slot => slots'[t] = slots[t]
        /\ activeUses' = activeUses \/ activeUses' = [activeUses EXCEPT ![h.slot] = 0]
    BY <1>0, <2>2 DEF Freed, Quarantined
  <2>4. QED
    BY <2>1, <2>3, SMTT(60)
<1>5. ASSUME NEW t \in Timelines, TimelineAdvances(t) PROVE Kept
  BY <1>5 DEF TimelineAdvances
<1> HIDE DEF Kept
<1>6. Kept
  BY <1>1, <1>2, <1>3, <1>4, <1>5, ZenonT(30) DEF ClientStep
<1>7. QED
  BY <1>6 DEF Kept

\* Clients retire, reclaim and reuse records: no hold is disturbed.
LEMMA ClientStepInv ==
    ASSUME BridgeInv, ClientStep, UNCHANGED <<queueVars, faulted>>
    PROVE  BridgeInv'
<1>1. VmInv'
  BY VmNextInv DEF VmNext, BridgeInv
<1>2. QueueInv' /\ jobs' = jobs /\ faulted' = FALSE
  BY QueueInvStep DEF BridgeInv, queueVars
<1>3. \A s \in Slots : Holders(s)' = Holders(s)
  BY <1>2 DEF Holders
<1>4. activeUses' \in [Slots -> Nat]
  <2>1. Slots # {} /\ activeUses \in [Slots -> Nat] /\ VmInv
    BY CapacityAssumption DEF Slots, BridgeInv
  <2>2. QED
    BY <2>1, ClientKeepsHeld
<1>5. ASSUME NEW s \in Slots PROVE activeUses'[s] = Cardinality(Holders(s)')
  <2>1. activeUses'[s] = activeUses[s]
    BY ClientKeepsHeld, CountedInUse, ZenonT(30) DEF BridgeInv
  <2>2. QED
    BY <1>3, <2>1 DEF BridgeInv
<1>6. HoldsResolve'
  <2>1. SUFFICES ASSUME NEW j \in JobIds, jobs[j].held
                 PROVE  /\ DistinctIds(jobs[j].res)
                        /\ \A r \in jobs[j].res : r \in Handle /\ Resolve(r, InUse)'
    BY <1>2, ZenonT(30) DEF HoldsResolve, DistinctIds
  <2>2. DistinctIds(jobs[j].res)
    BY <2>1, ZenonT(30) DEF BridgeInv, HoldsResolve
  <2>3. ASSUME NEW r \in jobs[j].res PROVE r \in Handle /\ Resolve(r, InUse)'
    <3>1. /\ r \in Handle /\ r.slot \in Slots /\ activeUses[r.slot] # 0
          /\ slots[r.slot].state \in InUse /\ slots[r.slot].generation = r.generation
          /\ slots[r.slot].owner = QueueOwner /\ slots[r.slot].pin = "valid"
      BY <2>1, HeldIsCounted, ZenonT(30)
    <3>2. /\ slots'[r.slot].state \in InUse /\ slots'[r.slot].generation = r.generation
          /\ slots'[r.slot].owner = QueueOwner /\ slots'[r.slot].pin = "valid"
      BY <3>1, ClientKeepsHeld DEF BridgeInv
    <3>3. QED
      BY <3>1, <3>2, ZenonT(30) DEF Resolve, Lookup, InUse
  <2>4. QED
    BY <2>2, <2>3, ZenonT(30)
<1>7. QED
  BY <1>1, <1>2, <1>4, <1>5, <1>6, ZenonT(30) DEF BridgeInv

-----------------------------------------------------------------------------
\* The manager's invariant does not depend on the counters.
LEMMA UsesKeepVm ==
    ASSUME VmInv, OnlyUses
    PROVE  VmInv'
<1>1. completed \in [Timelines -> Nat] /\ \A t \in Timelines : completed[t] <= completed[t]
  BY DEF VmInv, VmTypeOK
<1>2. QED
  BY <1>1, QuietKeepsInv DEF OnlyUses

\* A queue call after which the same jobs hold the same resources.
LEMMA SameHoldsInv ==
    ASSUME BridgeInv, QueueInv', OnlyUses, activeUses' = activeUses, faulted' = faulted,
           \A j \in JobIds : /\ jobs'[j].held <=> jobs[j].held
                             /\ jobs[j].held => jobs'[j].res = jobs[j].res
    PROVE  BridgeInv'
<1>1. VmInv' /\ slots' = slots
  BY UsesKeepVm DEF BridgeInv, OnlyUses
<1>2. \A s \in Slots : Holders(s)' = Holders(s)
  BY DEF Holders
<1>3. \A r \in Handle : Resolve(r, InUse)' <=> Resolve(r, InUse)
  BY <1>1 DEF Resolve, Lookup
<1>4. HoldsResolve'
  BY <1>3 DEF BridgeInv, HoldsResolve, DistinctIds
<1>5. QED
  BY <1>1, <1>2, <1>4, ZenonT(30) DEF BridgeInv

\* A free entry of the table holds nothing.
LEMMA FreeHoldsNothing ==
    ASSUME BridgeInv, NEW j \in FreeJobs
    PROVE  j \in JobIds /\ ~jobs[j].held
  BY DEF FreeJobs, BridgeInv, QueueInv, HeldJobs, Undecided

\* A rollback right after the retains restores the counters.
LEMMA RolledBackIsIdentity ==
    ASSUME NEW uses \in [Slots -> Nat], NEW R
    PROVE  RolledBack(Retained(uses, R), R) = uses
  BY DEF RolledBack, Retained

\* A submission that ends without a hold.
LEMMA SubmitFailsInv ==
    ASSUME BridgeInv, NEW j \in FreeJobs, NEW now \in Times, NEW d \in now + 1 .. MaxTime,
           NEW R \in ResourceSets,
           \/ BridgeSubmitInvalid(j, now, d, R) \/ BridgeSubmitBusy(j, now, d, R)
           \/ BridgeSubmitRejected(j, now, d, R)
    PROVE  BridgeInv'
<1>1. j \in JobIds /\ ~jobs[j].held /\ d \in Times
  BY FreeHoldsNothing, MaxTimeAssumption, SMTT(60) DEF Times
<1>2. SubmitInvalid(j, now, d, R) \/ SubmitNotAccepted(j, now, d, R)
  BY DEF BridgeSubmitInvalid, BridgeSubmitBusy, BridgeSubmitRejected
<1>3. QueueInv'
  BY <1>1, <1>2, QueueInvStep, ZenonT(30) DEF BridgeInv, QueueNext, Submitting
<1>4. OnlyUses /\ faulted' = faulted
  BY DEF BridgeSubmitInvalid, BridgeSubmitBusy, BridgeSubmitRejected, OnlyUses, vmVars
<1>5. activeUses' = activeUses
  BY RolledBackIsIdentity
     DEF BridgeSubmitInvalid, BridgeSubmitBusy, BridgeSubmitRejected, BridgeInv, vmVars
<1>6. \E e \in {Snapshot("Free", 0, {}, FALSE), FreeJob} : jobs' = [jobs EXCEPT ![j] = e]
  BY <1>2, Zenon DEF SubmitInvalid, SubmitNotAccepted
<1>7. ~FreeJob.held /\ ~Snapshot("Free", 0, {}, FALSE).held
  BY DEF FreeJob, Snapshot
<1>8. jobs \in [JobIds -> Job]
  BY DEF BridgeInv, QueueInv, QueueTypeOK
<1>9. \A i \in JobIds : /\ jobs'[i].held <=> jobs[i].held
                        /\ jobs[i].held => jobs'[i].res = jobs[i].res
  BY <1>1, <1>6, <1>7, <1>8, ZenonT(30)
<1>10. QED
  BY <1>3, <1>4, <1>5, <1>9, SameHoldsInv, ZenonT(30)

\* An accepted, or possibly accepted, submission holds what it retained.
LEMMA SubmitInv ==
    ASSUME BridgeInv, NEW j \in FreeJobs, NEW now \in Times, NEW d \in now + 1 .. MaxTime,
           NEW R \in ResourceSets, BridgeSubmit(j, now, d, R)
    PROVE  BridgeInv'
<1>1. j \in JobIds /\ ~jobs[j].held /\ d \in Times
  BY FreeHoldsNothing, MaxTimeAssumption, SMTT(60) DEF Times
<1>2. \/ SubmitAccepted(j, now, d, R)
      \/ \E started \in BOOLEAN : SubmitUnknown(j, now, d, R, started)
  BY Zenon DEF BridgeSubmit
<1>3. QueueInv'
  BY <1>1, <1>2, QueueInvStep, ZenonT(30) DEF BridgeInv, QueueNext, Submitting
<1>4. /\ OnlyUses /\ faulted' = FALSE /\ activeUses' = Retained(activeUses, R)
      /\ DistinctIds(R) /\ \A r \in R : Resolve(r, {"Bound"})
  BY DEF BridgeSubmit, BridgeInv, Retainable
<1>5. VmInv' /\ slots' = slots
  BY <1>4, UsesKeepVm, ZenonT(30) DEF BridgeInv, OnlyUses
<1>6. jobs \in [JobIds -> Job]
  BY Zenon DEF BridgeInv, QueueInv, QueueTypeOK
<1>7. /\ jobs'[j].held /\ jobs'[j].res = R
      /\ \A i \in JobIds : i # j => jobs'[i] = jobs[i]
  BY <1>1, <1>2, <1>6, SMTT(60) DEF SubmitAccepted, SubmitUnknown, Snapshot
<1>8. activeUses' \in [Slots -> Nat]
  BY <1>4 DEF Retained, BridgeInv
<1>9. ASSUME NEW s \in Slots PROVE activeUses'[s] = Cardinality(Holders(s)')
  <2>1. /\ Holders(s) \in SUBSET JobIds /\ j \notin Holders(s)
        /\ activeUses[s] = Cardinality(Holders(s))
    BY <1>1, Zenon DEF Holders, BridgeInv
  <2>2. CASE \E r \in R : r.slot = s
    <3>1. Holders(s)' = Holders(s) \cup {j}
      BY <1>1, <1>7, <2>2, Zenon DEF Holders
    <3>2. Cardinality(Holders(s)') = Cardinality(Holders(s)) + 1
      BY <2>1, <3>1, HoldersFinite, FS_AddElement, Zenon
    <3>3. activeUses'[s] = activeUses[s] + 1
      BY <1>4, <2>2, Zenon DEF Retained
    <3>4. QED
      BY <2>1, <3>2, <3>3, Zenon
  <2>3. CASE ~\E r \in R : r.slot = s
    <3>1. Holders(s)' = Holders(s)
      BY <1>1, <1>7, <2>3, Zenon DEF Holders
    <3>2. activeUses'[s] = activeUses[s]
      BY <1>4, <2>3, ZenonT(30) DEF Retained
    <3>3. QED
      BY <2>1, <3>1, <3>2, Zenon
  <2>4. QED
    BY <2>2, <2>3, Zenon
<1>10. HoldsResolve'
  <2>1. \A r \in Handle : Resolve(r, InUse)' <=> Resolve(r, InUse)
    BY <1>5, ZenonT(30) DEF Resolve, Lookup
  <2>2. \A r \in R : r \in Handle /\ Resolve(r, InUse)
    BY <1>4, ResourceAssumption, ZenonT(30) DEF ResourceSets, Resolve, Lookup, InUse
  <2>3. ASSUME NEW i \in JobIds, jobs'[i].held
        PROVE  /\ DistinctIds(jobs'[i].res)
               /\ \A r \in jobs'[i].res : r \in Handle /\ Resolve(r, InUse)'
    <3>1. CASE i = j
      BY <1>4, <1>7, <2>1, <2>2, <3>1, ZenonT(30)
    <3>2. CASE i # j
      BY <1>7, <2>1, <2>3, <3>2, ZenonT(30) DEF BridgeInv, HoldsResolve
    <3>3. QED
      BY <3>1, <3>2, ZenonT(30)
  <2>4. QED
    BY <2>3 DEF HoldsResolve, DistinctIds
<1>11. QED
  BY <1>3, <1>4, <1>5, <1>8, <1>9, <1>10, ZenonT(30) DEF BridgeInv

-----------------------------------------------------------------------------
\* Jobs J, all of them holding, give their holds up: every release() resolves,
\* none underflows, and the counters are those of the jobs that still hold.
LEMMA ReleaseInv ==
    ASSUME BridgeInv, QueueInv', NEW J \in SUBSET JobIds, \A j \in J : jobs[j].held,
           ReleaseBy(J),
           \A j \in JobIds : /\ jobs'[j].held <=> (jobs[j].held /\ j \notin J)
                             /\ jobs[j].held => jobs'[j].res = jobs[j].res
    PROVE  BridgeInv'
<1>1. OnlyUses
  BY DEF ReleaseBy
<1>2. VmInv' /\ slots' = slots
  BY <1>1, UsesKeepVm, ZenonT(30) DEF BridgeInv, OnlyUses
<1>3. ASSUME NEW s \in Slots
      PROVE  /\ Resolving(J, s) = Naming(J, s)
             /\ Resolving(J, s) = Holders(s) \cap J
             /\ Holders(s)' = Holders(s) \ J
  <2>1. ASSUME NEW j \in J, NEW r \in jobs[j].res PROVE Resolve(r, {"Bound", "Retiring"})
    BY DEF BridgeInv, HoldsResolve, InUse
  <2>2. Resolving(J, s) = Naming(J, s)
    BY <2>1 DEF Resolving, Naming
  <2>3. Naming(J, s) = Holders(s) \cap J
    BY DEF Naming, Holders
  <2>4. Holders(s)' = Holders(s) \ J
    BY  DEF Holders
  <2>5. QED
    BY <2>2, <2>3, <2>4, ZenonT(30)
<1>4. ASSUME NEW s \in Slots
      PROVE  /\ Cardinality(Resolving(J, s)) \in Nat
             /\ Cardinality(Resolving(J, s)) <= activeUses[s]
             /\ activeUses[s] - Cardinality(Resolving(J, s)) = Cardinality(Holders(s)')
  <2>1. Holders(s) \in SUBSET JobIds /\ activeUses[s] = Cardinality(Holders(s))
    BY DEF Holders, BridgeInv
  <2>2. IsFiniteSet(Holders(s)) /\ Cardinality(Holders(s)) \in Nat
    BY <2>1, HoldersFinite
  <2>3. Holders(s) \cap J \in SUBSET JobIds
    BY <2>1
  <2>4. Cardinality(Holders(s) \cap J) \in Nat
    BY <2>3, HoldersFinite, ZenonT(30)
  <2>5. Cardinality(Holders(s) \cap J) <= Cardinality(Holders(s))
    BY <2>2, FS_Intersection
  <2>6. Cardinality(Holders(s) \ J) = Cardinality(Holders(s)) - Cardinality(Holders(s) \cap J)
    BY <2>2, FS_Difference, Zenon
  <2>7. QED
    BY <1>3, <2>1, <2>4, <2>5, <2>6, ZenonT(30)
<1>5. faulted' = FALSE
  <2>1. ASSUME NEW s \in Slots
        PROVE  ~(Resolving(J, s) # Naming(J, s) \/ Cardinality(Resolving(J, s)) > activeUses[s])
    <3>1. activeUses[s] \in Nat
      BY SMTT(30) DEF BridgeInv
    <3>2. QED
      BY <1>3, <1>4, <3>1
  <2>2. QED
    BY <2>1, ZenonT(30) DEF ReleaseBy, BridgeInv
<1>6. /\ activeUses' = [s \in Slots |-> activeUses[s] - Cardinality(Resolving(J, s))]
      /\ activeUses \in [Slots -> Nat]
  BY <1>4, SMTT(30) DEF ReleaseBy, BridgeInv
<1>7. activeUses' \in [Slots -> Nat] /\ \A s \in Slots : activeUses'[s] = Cardinality(Holders(s)')
  BY <1>4, <1>6, SMTT(60)
<1>8. HoldsResolve'
  <2>1. \A r \in Handle : Resolve(r, InUse)' <=> Resolve(r, InUse)
    BY <1>2, Zenon DEF Resolve, Lookup
  <2>2. QED
    BY <2>1, SMTT(30) DEF BridgeInv, HoldsResolve, DistinctIds
<1>9. QED
  BY <1>2, <1>5, <1>7, <1>8, ZenonT(30) DEF BridgeInv

\* Expiry decides results; it touches neither holds nor resources.
LEMMA ExpiredFacts ==
    ASSUME QueueInv, NEW now \in Times, NEW j \in JobIds
    PROVE  /\ Expired(now)[j].held = jobs[j].held /\ Expired(now)[j].res = jobs[j].res
           /\ Expired(now)[j].gen = jobs[j].gen /\ Expired(now)[j].seq = jobs[j].seq
           /\ \/ Expired(now)[j].state = jobs[j].state
              \/ jobs[j].state = "Submitted" /\ Expired(now)[j].state = "TimedOut"
           /\ Expired(now)[j] \in Job
<1>1. jobs[j] \in Job
  BY DEF QueueInv, QueueTypeOK
<1>2. CASE Overdue(j, now)
  <2>1. Expired(now)[j] = [jobs[j] EXCEPT !.state = "TimedOut"] /\ jobs[j].state = "Submitted"
    BY <1>2 DEF Expired, Overdue
  <2>2. QED
    BY <1>1, <2>1 DEF Job, JobStates
<1>3. CASE ~Overdue(j, now)
  <2>1. Expired(now)[j] = jobs[j]
    BY <1>3 DEF Expired
  <2>2. QED
    BY <1>1, <2>1
<1>4. QED
  BY <1>2, <1>3

\* A fence covers a job or not; when it does, the job gives its hold up.
LEMMA ObservedFacts ==
    ASSUME NEW job \in Job, NEW n
    PROVE  /\ Observed(job, n).res = job.res
           /\ Covered(job, n) /\ job.state \in Undecided => Observed(job, n).held = FALSE
           /\ ~(Covered(job, n) /\ job.state \in Undecided) => Observed(job, n) = job
<1>1. CASE Covered(job, n) /\ job.state \in Undecided
  <2>1. Observed(job, n) = [job EXCEPT !.held = FALSE,
                                       !.state = IF @ = "Submitted" THEN "Completed" ELSE @]
    BY <1>1 DEF Observed, Undecided
  <2>2. QED
    BY <1>1, <2>1 DEF Job
<1>2. CASE ~(Covered(job, n) /\ job.state \in Undecided)
  <2>1. Observed(job, n) = job
    BY <1>2 DEF Observed, Undecided
  <2>2. QED
    BY <1>2, <2>1
<1>3. QED
  BY <1>1, <1>2, ZenonT(30)

\* The hold a fence ends is the same before and after the expiry of the call.
LEMMA InterruptInv ==
    ASSUME BridgeInv, NEW g \in Generations, NEW now \in Times, NEW n \in FenceReadings,
           BridgeInterrupt(g, now, n)
    PROVE  BridgeInv'
<1> DEFINE J == ReleasedByFence(n)
<1>1. QueueInv'
  BY QueueInvStep DEF BridgeInv, QueueNext, Interrupted, BridgeInterrupt
<1>2. J \in SUBSET JobIds /\ \A j \in J : jobs[j].held
  BY DEF ReleasedByFence
<1>3. ReleaseBy(J)
  BY DEF BridgeInterrupt
<1>4. QueueInv /\ jobs \in [JobIds -> Job]
  BY DEF BridgeInv, QueueInv, QueueTypeOK
<1>5. ASSUME NEW j \in JobIds
      PROVE  /\ jobs'[j].held <=> (jobs[j].held /\ j \notin J)
             /\ jobs[j].held => jobs'[j].res = jobs[j].res
  <2> DEFINE e == Expired(now)[j]
  <2>1. jobs'[j] = Observed(e, n)
    BY Zenon DEF BridgeInterrupt, OnInterrupt
  <2>2. /\ e.held = jobs[j].held /\ e.res = jobs[j].res /\ e \in Job /\ jobs[j] \in Job
        /\ Covered(e, n) <=> Covered(jobs[j], n)
        /\ e.state \in Undecided <=> jobs[j].state \in Undecided
    BY <1>4, ExpiredFacts DEF Covered, Undecided
  <2>3. j \in J <=> jobs[j].held /\ ~Observed(jobs[j], n).held
    BY ZenonT(30) DEF ReleasedByFence
  <2> HIDE DEF e, J
  <2>4. CASE Covered(jobs[j], n) /\ jobs[j].state \in Undecided
    <3>1. Observed(e, n).held = FALSE /\ Observed(jobs[j], n).held = FALSE /\ Observed(e, n).res = e.res
      BY <2>2, <2>4, ObservedFacts, ZenonT(30)
    <3>2. QED
      BY <2>1, <2>2, <2>3, <3>1
  <2>5. CASE ~(Covered(jobs[j], n) /\ jobs[j].state \in Undecided)
    <3>1. Observed(e, n) = e /\ Observed(jobs[j], n) = jobs[j]
      BY <2>2, <2>5, ObservedFacts, Zenon
    <3>2. QED
      BY <2>1, <2>2, <2>3, <3>1
  <2>6. QED
    BY <2>4, <2>5
<1> HIDE DEF J
<1>6. QED
  BY <1>1, <1>2, <1>3, <1>5, ReleaseInv, SMTT(30)

\* A confirmed reset returns every hold.
LEMMA ResetInv ==
    ASSUME BridgeInv, NEW now \in Times, BridgeReset(now)
    PROVE  BridgeInv'
<1> DEFINE J == {j \in JobIds : jobs[j].held}
<1>1. QueueInv'
  BY QueueInvStep DEF BridgeInv, QueueNext, BridgeReset
<1>2. J \in SUBSET JobIds /\ (\A j \in J : jobs[j].held) /\ ReleaseBy(J)
  BY DEF BridgeReset
<1>3. jobs \in [JobIds -> Job]
  BY  DEF BridgeInv, QueueInv, QueueTypeOK
<1>4. ASSUME NEW j \in JobIds
      PROVE  jobs'[j].held = FALSE /\ jobs'[j].res = jobs[j].res
  BY <1>3, ZenonT(30) DEF BridgeReset, ResetQueue, ResetJob, Job
<1>5. QED
  BY <1>1, <1>2, <1>4, ReleaseInv, ZenonT(30)

\* Calls and device steps in which the bridge is not asked.
LEMMA QueueOnlyInv ==
    ASSUME BridgeInv, QueueOnly \/ BridgeActivate
    PROVE  BridgeInv'
<1>1. QueueInv'
  BY QueueInvStep DEF BridgeInv, QueueNext, Interrupted, QueueOnly, BridgeActivate
<1>2. OnlyUses /\ activeUses' = activeUses /\ faulted' = faulted
  BY DEF QueueOnly, BridgeActivate, OnlyUses, vmVars
<1>3. QueueInv /\ jobs \in [JobIds -> Job]
  BY  DEF BridgeInv, QueueInv, QueueTypeOK
<1>4. \A j \in JobIds : /\ jobs'[j].held <=> jobs[j].held
                        /\ jobs[j].held => jobs'[j].res = jobs[j].res
  <2>1. ASSUME NEW now \in Times, jobs' = Expired(now)
        PROVE  \A j \in JobIds : /\ jobs'[j].held <=> jobs[j].held
                                 /\ jobs[j].held => jobs'[j].res = jobs[j].res
    BY <1>3, <2>1, ExpiredFacts
  <2>2. CASE \E now \in Times : Expire(now) \/ \E g \in Generations : InterruptUnobserved(g, now)
    BY <2>1, <2>2, ZenonT(30) DEF Expire, InterruptUnobserved
  <2>3. CASE \E gen \in Generations, seq \in Sequences : RetireJob(gen, seq)
    <3>1. PICK k \in JobIds : ~jobs[k].held /\ jobs' = [jobs EXCEPT ![k] = FreeJob]
      BY <2>3, ZenonT(30) DEF RetireJob
    <3>2. FreeJob.held = FALSE
      BY DEF FreeJob
    <3>3. QED
      BY <1>3, <3>1, <3>2
  <2>4. CASE jobs' = jobs
    BY <2>4
  <2>5. QED
    BY <2>2, <2>3, <2>4, SMTT(30) DEF QueueOnly, BridgeActivate, SubmitRefused, ResetFailed, DeviceCompletes,
                            Activate, software
<1>5. QED
  BY <1>1, <1>2, <1>4, SameHoldsInv

-----------------------------------------------------------------------------
\* At first nothing is held.
LEMMA BridgeInitInv == BridgeInit => BridgeInv
<1> SUFFICES ASSUME BridgeInit PROVE BridgeInv
  OBVIOUS
<1>1. VmInv /\ QueueInv /\ faulted = FALSE
  BY VmInitInv, QueueInvInit DEF BridgeInit
<1>2. activeUses = [s \in Slots |-> 0] /\ jobs = [j \in JobIds |-> FreeJob]
  BY DEF BridgeInit, VmInit, QueueInit
<1>3. \A j \in JobIds : ~jobs[j].held
  BY <1>2 DEF FreeJob
<1>4. \A s \in Slots : Holders(s) = {}
  BY <1>3 DEF Holders
<1>5. \A s \in Slots : activeUses[s] = Cardinality(Holders(s))
  BY <1>2, <1>4, FS_EmptySet
<1>6. QED
  BY <1>1, <1>2, <1>3, <1>5 DEF BridgeInv, HoldsResolve

\* Every step of queue, device, clients and backend keeps the invariant.
LEMMA BridgeNextInv == BridgeInv /\ [BridgeNext]_bridgeVars => BridgeInv'
<1> SUFFICES ASSUME BridgeInv, [BridgeNext]_bridgeVars PROVE BridgeInv'
  OBVIOUS
<1>1. CASE ClientStep /\ UNCHANGED <<queueVars, faulted>>
  BY <1>1, ClientStepInv
<1>2. ASSUME NEW j \in FreeJobs, NEW now \in Times, NEW d \in now + 1 .. MaxTime,
             NEW R \in ResourceSets,
             \/ BridgeSubmitInvalid(j, now, d, R) \/ BridgeSubmitBusy(j, now, d, R)
             \/ BridgeSubmitRejected(j, now, d, R) \/ BridgeSubmit(j, now, d, R)
      PROVE  BridgeInv'
  BY <1>2, SubmitFailsInv, SubmitInv
<1>3. ASSUME NEW g \in Generations, NEW now \in Times, NEW n \in FenceReadings,
             BridgeInterrupt(g, now, n)
      PROVE  BridgeInv'
  BY <1>3, InterruptInv
<1>4. ASSUME NEW now \in Times, BridgeReset(now) PROVE BridgeInv'
  BY <1>4, ResetInv
<1>5. CASE BridgeActivate \/ QueueOnly
  BY <1>5, QueueOnlyInv
<1>6. CASE UNCHANGED bridgeVars
  <2>1. OnlyUses /\ activeUses' = activeUses /\ faulted' = faulted /\ jobs' = jobs /\ QueueInv'
    BY <1>6, QueueInvStep, SMTT(30) DEF bridgeVars, vmVars, queueVars, OnlyUses, BridgeInv
  <2>2. QED
    BY <2>1, SameHoldsInv, SMTT(30)
<1>7. QED
  BY <1>1, <1>2, <1>3, <1>4, <1>5, <1>6, SMTT(30) DEF BridgeNext

\* What a batch of the device names is held, so it is in use, pinned and
\* mapped on every page.
LEMMA AccessFacts ==
    ASSUME BridgeInv, NEW b \in dma, NEW r \in b.res
    PROVE  /\ r \in Handle /\ r.slot \in Slots
           /\ slots[r.slot].state \in InUse /\ slots[r.slot].generation = r.generation
<1>1. PICK j \in JobIds : jobs[j].held /\ jobs[j].res = b.res
  BY QueueInvImplies DEF BridgeInv, DmaHeld
<1>2. QED
  BY <1>1, HeldIsCounted, SMTT(30)

\* The invariant gives the bridge's two safety properties.
LEMMA BridgeInvImplies == BridgeInv => UsesAreHolds /\ DmaIsMapped
<1> SUFFICES ASSUME BridgeInv PROVE UsesAreHolds /\ DmaIsMapped
  OBVIOUS
<1>1. UsesAreHolds
  BY  DEF BridgeInv, UsesAreHolds
<1>2. ASSUME NEW b \in dma, NEW r \in b.res
      PROVE  /\ slots[r.slot].generation = r.generation
             /\ r.generation \in pins
             /\ \A p \in SpanOf(r.slot) : pte[p] = r.generation
  BY <1>2, AccessFacts, ZenonT(30) DEF BridgeInv, VmInv, Backed, BoundIsMapped, InUse
<1>3. QED
  BY <1>1, <1>2 DEF DmaIsMapped

\* The invariant holds in every behaviour.
THEOREM BridgeInvariant == BridgeSpec => []BridgeInv
<1>1. QED
  BY BridgeInitInv, BridgeNextInv, PTL DEF BridgeSpec

\* The manager's use counters are exactly the queue's holds, and the bridge
\* never faults, for every number of jobs, records and resources.
THEOREM UsesStayHolds == BridgeSpec => []UsesAreHolds
<1>1. BridgeInv => UsesAreHolds
  BY BridgeInvImplies
<1>2. QED
  BY BridgeInvariant, <1>1, PTL

\* Whatever the device may be accessing is still that allocation, pinned and
\* mapped on every page, across reclaims, reuse and backend failures.
THEOREM DmaStaysMapped == BridgeSpec => []DmaIsMapped
<1>1. BridgeInv => DmaIsMapped
  BY BridgeInvImplies
<1>2. QED
  BY BridgeInvariant, <1>1, PTL

-----------------------------------------------------------------------------
\* The records whose backing the host owns.
Owning == {"Pinned", "Bound", "Retiring", "Quarantined"}

\* What the device may reach is owned.
ReachIsOwned == \A a \in Accesses : a[2] \in OwnedHandles

\* The invariant keeps the device inside owned memory.
LEMMA AccessesOwned == BridgeInv => ReachIsOwned
<1> SUFFICES ASSUME BridgeInv, NEW a \in Accesses
             PROVE  a[2] \in OwnedHandles
  BY DEF ReachIsOwned
<1>1. PICK b \in dma : a \in {<<[gen |-> b.gen, seq |-> b.seq], r>> : r \in b.res}
  BY DEF Accesses
<1>2. PICK r \in b.res : a = <<[gen |-> b.gen, seq |-> b.seq], r>>
  BY <1>1
<1>3. r \in OwnedHandles
  BY AccessFacts DEF OwnedHandles, InUse
<1>4. QED
  BY <1>2, <1>3

\* If no record starts to own backing, no handle does.
LEMMA NoneAcquired ==
    ASSUME \A s \in Slots : slots'[s].state \in Owning =>
               slots[s].state \in Owning /\ slots'[s].generation = slots[s].generation
    PROVE  OwnedHandles' \subseteq OwnedHandles
<1> SUFFICES ASSUME NEW h \in Handle, slots'[h.slot].generation = h.generation,
                    slots'[h.slot].state \in Owning
             PROVE  h \in OwnedHandles
  BY DEF OwnedHandles, Owning
<1>1. h.slot \in Slots
  BY DEF Handle
<1>2. QED
  BY <1>1 DEF OwnedHandles, Owning

\* pin() makes its handle, and no other, owned.
LEMMA PinAcquires ==
    ASSUME VmInv, NEW o \in Owners, NEW h \in Handle, Pin(o, h) \/ PinUncertain(o, h)
    PROVE  h \notin OwnedHandles /\ OwnedHandles' = OwnedHandles \cup {h}
<1>1. h.slot \in Slots /\ slots[h.slot].state = "Reserved" /\ slots[h.slot].generation = h.generation
  BY LookupFacts DEF Pin, PinUncertain
<1>2. PICK st \in {"Pinned", "Quarantined"} : Moves(h.slot, st)
  BY <1>1, PinMoves, ZenonT(30) DEF Pin, PinUncertain, RecordStates
<1>3. h \notin OwnedHandles
  BY <1>1 DEF OwnedHandles
<1>4. ASSUME NEW g \in Handle
      PROVE  g \in OwnedHandles' <=> g \in OwnedHandles \/ g = h
  <2>1. g.slot \in Slots
    BY SMTT(30) DEF Handle
  <2>2. CASE g.slot # h.slot
    BY <1>2, <2>1, <2>2 DEF OwnedHandles, Moves
  <2>3. CASE g.slot = h.slot
    <3>1. g \notin OwnedHandles
      BY <1>1, <2>3, ZenonT(30) DEF OwnedHandles
    <3>2. g \in OwnedHandles' <=> g.generation = h.generation
      BY <1>1, <1>2, <2>3 DEF OwnedHandles, Moves
    <3>3. g.generation = h.generation <=> g = h
      BY <2>3 DEF Handle
    <3>4. QED
      BY <3>1, <3>2, <3>3, SMTT(30)
  <2>4. QED
    BY <2>2, <2>3
<1>5. OwnedHandles \subseteq Handle /\ OwnedHandles' \subseteq Handle
  BY DEF OwnedHandles
<1>6. QED
  BY <1>3, <1>4, <1>5

\* Every other client call keeps or gives up backing.
LEMMA ClientOwnership ==
    ASSUME VmInv, ClientStep
    PROVE  \/ OwnedHandles' \subseteq OwnedHandles
           \/ \E h \in Handle : h \notin OwnedHandles /\ OwnedHandles' = OwnedHandles \cup {h}
<1> DEFINE Fewer == \A s \in Slots : slots'[s].state \in Owning =>
                       slots[s].state \in Owning /\ slots'[s].generation = slots[s].generation
<1> USE DEF Owning
<1>0. slots \in [Slots -> Allocations]
  BY DEF VmInv, VmTypeOK
<1>1. ASSUME NEW o \in Owners, NEW n \in Sizes, NEW a \in Alignments, Reserve(o, n, a)
      PROVE  Fewer
  <2>1. PICK k \in Slots : /\ slots'[k].state = "Reserved"
                           /\ \A t \in Slots : t # k => slots'[t] = slots[t]
    BY <1>0, <1>1 DEF Reserve, Insert, FreeAllocation
  <2>2. QED
    BY <2>1
<1>2. ASSUME NEW o \in Owners, NEW h \in Handle, Pin(o, h) \/ PinUncertain(o, h)
      PROVE  \E g \in Handle : g \notin OwnedHandles /\ OwnedHandles' = OwnedHandles \cup {g}
  BY <1>2, PinAcquires, ZenonT(30)
<1>3. ASSUME NEW o \in Owners, NEW h \in Handle,
             \/ Bind(o, h) \/ \E P \in SUBSET Pages : BindUncertain(o, h, P)
             \/ RetireMapping(o, h) \/ \E f \in Fence : RecordUse(o, h, f)
      PROVE  Fewer
  <2>1. /\ h.slot \in Slots /\ slots[h.slot].state \in {"Pinned", "Bound"}
        /\ \A t \in Slots : t # h.slot => slots'[t] = slots[t]
        /\ slots'[h.slot].generation = slots[h.slot].generation
    BY <1>0, <1>3 DEF Bind, BindUncertain, RetireMapping, RecordUse, Lookup, Handle, Allocations
  <2>2. QED
    BY <2>1
<1>4. ASSUME NEW o \in Owners, NEW h \in Handle, ReclaimReserved(o, h) PROVE Fewer
  <2>1. h.slot \in Slots /\ Frees(h.slot)
    BY <1>4, LookupFacts, FreedFrees, ZenonT(30) DEF ReclaimReserved
  <2>2. QED
    BY <2>1, SMTT(30) DEF Frees
<1>5. ASSUME NEW o \in Owners, NEW h \in Handle,
             \/ ReclaimPinned(o, h) \/ ReclaimRetiring(o, h)
             \/ \E P \in SUBSET Pages : ReclaimUncertain(o, h, P)
      PROVE  Fewer
  <2>1. h.slot \in Slots /\ slots[h.slot].state \in {"Pinned", "Retiring"}
    BY <1>5, LookupFacts, SMTT(60) DEF ReclaimPinned, ReclaimRetiring, ReclaimUncertain
  <2>2. Freed(h.slot) \/ Quarantined(h.slot)
    BY <1>5 DEF ReclaimPinned, ReclaimRetiring, ReclaimUncertain, Unpin
  <2>3. Frees(h.slot) \/ Moves(h.slot, "Quarantined")
    BY <2>1, <2>2, FreedFrees, StateMoves, Zenon DEF Quarantined, RecordStates
  <2>4. QED
    BY <2>1, <2>3, ZenonT(30) DEF Frees, Moves
<1>6. ASSUME NEW t \in Timelines, TimelineAdvances(t) PROVE Fewer
  BY <1>6, Zenon DEF TimelineAdvances
<1> HIDE DEF Fewer
<1>7. Fewer => OwnedHandles' \subseteq OwnedHandles
  BY NoneAcquired DEF Fewer
<1>8. QED
  BY <1>1, <1>2, <1>3, <1>4, <1>5, <1>6, <1>7, SMTT(30) DEF ClientStep

\* A step that frees batches only, or backing only, is the contract's release.
LEMMA Releases ==
    ASSUME BridgeInv, BridgeInv', OwnedHandles' \subseteq OwnedHandles, dma' \subseteq dma,
           dma' = dma \/ OwnedHandles' = OwnedHandles
    PROVE  Ownership!Next
<1>1. Accesses' \subseteq Accesses /\ (dma' = dma => Accesses' = Accesses)
  BY DEF Accesses
<1>2. ReachIsOwned /\ ReachIsOwned'
  BY AccessesOwned, PTL
<1>3. \A a \in Accesses : a[2] \in OwnedHandles'
  BY <1>1, <1>2, Zenon DEF ReachIsOwned
<1>4. QED
  BY <1>1, <1>3, Zenon DEF Ownership!Next, Ownership!Release

\* A batch given to the device is the contract's start of one piece of work.
LEMMA Starts ==
    ASSUME BridgeInv, BridgeInv', slots' = slots, NEW R \in ResourceSets,
           dma' = dma \cup {[gen |-> qgen, seq |-> nextSeq, res |-> R]}
    PROVE  Ownership!Next
<1> DEFINE b == [gen |-> qgen, seq |-> nextSeq, res |-> R]
           w == [gen |-> qgen, seq |-> nextSeq]
           Of(c) == {<<[gen |-> c.gen, seq |-> c.seq], r>> : r \in c.res}
<1>1. OwnedHandles' = OwnedHandles
  BY DEF OwnedHandles
<1>2. Accesses' = Accesses \cup Of(b)
  <2>1. Accesses = UNION {Of(c) : c \in dma} /\ Accesses' = UNION {Of(c) : c \in dma'}
    BY DEF Accesses
  <2>2. dma' = dma \cup {b}
    BY ZenonT(30)
  <2> HIDE DEF Of, b
  <2>3. QED
    BY <2>1, <2>2, ZenonT(30)
<1>3. Of(b) = {<<w, r>> : r \in R}
  OBVIOUS
<1>4. ReachIsOwned'
  BY AccessesOwned, PTL
<1>5. \A r \in R : r \in OwnedHandles
  <2>1. SUFFICES ASSUME NEW r \in R PROVE r \in OwnedHandles
    BY Zenon
  <2>2. <<w, r>> \in Accesses'
    BY <1>2, <1>3, ZenonT(30)
  <2>3. <<w, r>>[2] \in OwnedHandles'
    BY <1>4, <2>2, ZenonT(30) DEF ReachIsOwned
  <2>4. QED
    BY <1>1, <2>3, SMTT(30)
<1>6. Accesses' \ Accesses \subseteq {w} \X OwnedHandles
  BY <1>2, <1>3, <1>5, SMTT(60)
<1>7. w \in [gen : Generations, seq : Sequences]
  BY SMTT(30) DEF BridgeInv, QueueInv, QueueTypeOK
<1>8. \E h \in Handle : TRUE
  BY <1>5, Zenon DEF ResourceSets, OwnedHandles
<1>9. Accesses \subseteq Accesses'
  BY <1>2
<1> HIDE DEF w, b, Of
<1>10. Ownership!Start(w)
  BY <1>1, <1>6, <1>9, SMTT(30) DEF Ownership!Start
<1>11. QED
  BY <1>7, <1>8, <1>10, Zenon DEF Ownership!Next

\* A pin is the contract's acquisition: the device does not know the handle.
LEMMA Acquires ==
    ASSUME BridgeInv, dma' = dma, NEW h \in Handle, h \notin OwnedHandles,
           OwnedHandles' = OwnedHandles \cup {h}
    PROVE  Ownership!Next
<1>1. Accesses' = Accesses
  BY DEF Accesses
<1>2. \A v \in [gen : Generations, seq : Sequences] : <<v, h>> \notin Accesses
  BY AccessesOwned DEF ReachIsOwned
<1>3. Ownership!Acquire(h)
  BY <1>1, <1>2 DEF Ownership!Acquire
<1>4. [gen |-> 1, seq |-> 1] \in [gen : Generations, seq : Sequences]
  BY MaxSequenceAssumption, MaxQueueGenerationAssumption, SMTT(30) DEF Generations, Sequences
<1>5. QED
  BY <1>3, <1>4, ZenonT(30) DEF Ownership!Next

\* Every step of the composition is a step of the contract or changes
\* nothing the contract speaks of.
LEMMA BridgeRefines ==
    BridgeInv /\ BridgeInv' /\ [BridgeNext]_bridgeVars => [Ownership!Next]_(Ownership!ownershipVars)
<1> SUFFICES ASSUME BridgeInv, BridgeInv', [BridgeNext]_bridgeVars
             PROVE  Ownership!Next
  OBVIOUS
<1>0. slots' = slots => OwnedHandles' = OwnedHandles
  BY DEF OwnedHandles
<1>1. CASE ClientStep /\ UNCHANGED <<queueVars, faulted>>
  <2>1. dma' = dma
    BY <1>1 DEF queueVars
  <2>2. VmInv
    BY DEF BridgeInv
  <2>3. CASE OwnedHandles' \subseteq OwnedHandles
    BY <2>1, <2>3, Releases
  <2>4. CASE \E h \in Handle : h \notin OwnedHandles /\ OwnedHandles' = OwnedHandles \cup {h}
    BY <2>1, <2>4, Acquires
  <2>5. QED
    BY <1>1, <2>2, <2>3, <2>4, ClientOwnership, ZenonT(30)
<1>2. ASSUME NEW j \in FreeJobs, NEW now \in Times, NEW d \in now + 1 .. MaxTime,
             NEW R \in ResourceSets,
             \/ BridgeSubmitInvalid(j, now, d, R) \/ BridgeSubmitBusy(j, now, d, R)
             \/ BridgeSubmitRejected(j, now, d, R)
      PROVE  Ownership!Next
  <2>1. slots' = slots /\ dma' = dma
    BY <1>2, Zenon DEF BridgeSubmitInvalid, BridgeSubmitBusy, BridgeSubmitRejected, OnlyUses, vmVars,
                SubmitInvalid, SubmitNotAccepted
  <2>2. QED
    BY <1>0, <2>1, Releases, SMTT(30)
<1>3. ASSUME NEW j \in FreeJobs, NEW now \in Times, NEW d \in now + 1 .. MaxTime,
             NEW R \in ResourceSets, BridgeSubmit(j, now, d, R)
      PROVE  Ownership!Next
  <2>1. /\ slots' = slots
        /\ \/ dma' = dma
           \/ dma' = dma \cup {[gen |-> qgen, seq |-> nextSeq, res |-> R]}
    BY <1>3, ZenonT(30) DEF BridgeSubmit, OnlyUses, SubmitAccepted, SubmitUnknown
  <2>2. QED
    BY <1>0, <2>1, Releases, Starts
<1>4. ASSUME NEW g \in Generations, NEW now \in Times, NEW n \in FenceReadings,
             BridgeInterrupt(g, now, n)
      PROVE  Ownership!Next
  <2>1. slots' = slots /\ dma' = dma
    BY <1>4 DEF BridgeInterrupt, ReleaseBy, OnlyUses, OnInterrupt
  <2>2. QED
    BY <1>0, <2>1, Releases, ZenonT(30)
<1>5. ASSUME NEW now \in Times, BridgeReset(now) PROVE Ownership!Next
  <2>1. slots' = slots /\ dma' = {}
    BY <1>5 DEF BridgeReset, ReleaseBy, OnlyUses, ResetQueue
  <2>2. QED
    BY <1>0, <2>1, Releases, ZenonT(30)
<1>6. CASE BridgeActivate \/ QueueOnly
  <2>1. slots' = slots
    BY <1>6, ZenonT(30) DEF BridgeActivate, QueueOnly, vmVars
  <2>2. dma' \subseteq dma
    BY <1>6 DEF BridgeActivate, QueueOnly, Activate, SubmitRefused, Expire, ResetFailed,
                InterruptUnobserved, RetireJob, DeviceCompletes
  <2>3. QED
    BY <1>0, <2>1, <2>2, Releases, ZenonT(30)
<1>7. CASE UNCHANGED bridgeVars
  BY <1>0, <1>7, Releases DEF bridgeVars, vmVars, queueVars
<1>8. QED
  BY <1>1, <1>2, <1>3, <1>4, <1>5, <1>6, <1>7, Zenon DEF BridgeNext

\* The composition implements the ownership contract for every instance:
\* device work starts on owned memory only, and no reclaim returns memory
\* that a batch can still reach.
THEOREM BridgeImplementsOwnership == BridgeSpec => ImplementsOwnership
<1>1. BridgeInit => Ownership!Init
  BY Zenon DEF BridgeInit, QueueInit, Ownership!Init, OwnedHandles, Accesses
<1>2. QED
  BY <1>1, BridgeInvariant, BridgeRefines, PTL DEF BridgeSpec, ImplementsOwnership, Ownership!Spec
=============================================================================
