------------------------- MODULE XeMemorySubmission -------------------------
(***************************************************************************)
(* XeMemory::SubmissionMemoryBridge (Mellow/XeMemorySubmission.hpp): the   *)
(* submission queue over the memory manager.  The bridge replaces the      *)
(* queue's retain and release callbacks by the manager's use counters.     *)
(* Clients keep calling the manager between queue calls: they may retire,  *)
(* reclaim and reuse allocations that jobs name.                           *)
(***************************************************************************)
EXTENDS XeMemory, XeSubmission

CONSTANT QueueOwner     \* owner_ of the queue

ASSUME QueueOwnerAssumption == QueueOwner \in Owners
\* A Resource is the handle of an allocation: id - 1 and mappingGeneration.
ASSUME ResourceAssumption == Resources = Handle

VARIABLE faulted        \* faulted_, with lastRelease_ = Invalid

bridgeVars == <<vmVars, queueVars, faulted>>

BridgeInit == VmInit /\ QueueInit /\ faulted = FALSE

\* resolve(): the record is this very allocation, in a usable state, with
\* the pin receipt and extent it had when the resource was described.
Resolve(r, states) ==
    /\ Lookup(QueueOwner, r, states)
    /\ slots[r.slot].pin = "valid"

\* retain() succeeds.
Retainable(r) ==
    /\ ~faulted
    /\ Resolve(r, {"Bound"})
    /\ activeUses[r.slot] # MaxUses

\* submit() refuses two resources with one id.
DistinctIds(R) == \A r, q \in R : r.slot = q.slot => r = q

\* The counters after one retain() for every resource of R.
Retained(uses, R) ==
    [s \in Slots |-> IF \E r \in R : r.slot = s THEN uses[s] + 1 ELSE uses[s]]

\* Faulty variant: the holds of a failed submission are forgotten.
RolledBackNot(uses, R) == uses

\* The counters after one release() for every resource of R, right after
\* their retain() in the same call.
RolledBack(uses, R) ==
    [s \in Slots |-> IF \E r \in R : r.slot = s THEN uses[s] - 1 ELSE uses[s]]

\* The rest of the manager is not touched by a queue call.
OnlyUses == UNCHANGED <<slots, nextGeneration, pte, pins, completed, recorded>>

BridgeSubmitInvalid(j, now, deadline, R) ==
    /\ SubmitInvalid(j, now, deadline, R)
    /\ UNCHANGED <<vmVars, faulted>>

\* retain() fails for some resource; those already retained are released.
BridgeSubmitBusy(j, now, deadline, R) ==
    /\ DistinctIds(R)
    /\ SubmitNotAccepted(j, now, deadline, R)
    /\ \E Q \in SUBSET R :
          /\ Q # R
          /\ \A r \in Q : Retainable(r)
          /\ \E r \in R \ Q : ~Retainable(r)
          /\ activeUses' = RolledBack(Retained(activeUses, Q), Q)
    /\ OnlyUses /\ UNCHANGED faulted

BridgeSubmitRejected(j, now, deadline, R) ==
    /\ DistinctIds(R)
    /\ \A r \in R : Retainable(r)
    /\ SubmitNotAccepted(j, now, deadline, R)
    /\ activeUses' = RolledBack(Retained(activeUses, R), R)
    /\ OnlyUses /\ UNCHANGED faulted

\* All retained, and the transport accepted or may have accepted the batch.
BridgeSubmit(j, now, deadline, R) ==
    /\ DistinctIds(R)
    /\ \A r \in R : Retainable(r)
    /\ \/ SubmitAccepted(j, now, deadline, R)
       \/ \E started \in BOOLEAN : SubmitUnknown(j, now, deadline, R, started)
    /\ activeUses' = Retained(activeUses, R)
    /\ OnlyUses /\ UNCHANGED faulted

\* release() of every resource of the jobs that give their holds up.  A
\* resource that does not resolve, or a counter at zero, leaves the counter
\* and faults the bridge.
Naming(J, s) == {j \in J : \E r \in jobs[j].res : r.slot = s}
Resolving(J, s) == {j \in J : \E r \in jobs[j].res :
                        r.slot = s /\ Resolve(r, {"Bound", "Retiring"})}

ReleaseBy(J) ==
    /\ activeUses' = [s \in Slots |->
          IF Cardinality(Resolving(J, s)) <= activeUses[s]
          THEN activeUses[s] - Cardinality(Resolving(J, s)) ELSE 0]
    /\ faulted' = (faulted \/ \E s \in Slots :
                      \/ Resolving(J, s) # Naming(J, s)
                      \/ Cardinality(Resolving(J, s)) > activeUses[s])
    /\ OnlyUses

\* The jobs on which onInterrupt(), or reset(), calls release() while held.
ReleasedByFence(n) ==
    {j \in JobIds : jobs[j].held /\ ~Observed(jobs[j], n).held}

BridgeInterrupt(g, now, n) ==
    /\ OnInterrupt(g, now, n)
    /\ ReleaseBy(ReleasedByFence(n))

BridgeReset(now) ==
    /\ ResetQueue(now)
    /\ ReleaseBy({j \in JobIds : jobs[j].held})

\* activate() through the bridge's readiness().
BridgeActivate == ~faulted /\ Activate /\ UNCHANGED <<vmVars, faulted>>

\* Queue calls and device steps in which the bridge is not called back.
QueueOnly ==
    /\ \/ \E now \in Times : SubmitRefused(now) \/ Expire(now) \/ ResetFailed(now)
       \/ \E g \in Generations, now \in Times : InterruptUnobserved(g, now)
       \/ \E gen \in Generations, seq \in Sequences : RetireJob(gen, seq)
       \/ DeviceCompletes
    /\ UNCHANGED <<vmVars, faulted>>

BridgeNext ==
    \/ ClientStep /\ UNCHANGED <<queueVars, faulted>>
    \/ \E j \in FreeJobs, now \in Times : \E d \in now + 1 .. MaxTime, R \in ResourceSets :
          \/ BridgeSubmitInvalid(j, now, d, R) \/ BridgeSubmitBusy(j, now, d, R)
          \/ BridgeSubmitRejected(j, now, d, R) \/ BridgeSubmit(j, now, d, R)
    \/ \E g \in Generations, now \in Times :
          \E n \in FenceReadings : BridgeInterrupt(g, now, n)
    \/ \E now \in Times : BridgeReset(now)
    \/ BridgeActivate
    \/ QueueOnly

BridgeSpec == BridgeInit /\ [][BridgeNext]_bridgeVars

-----------------------------------------------------------------------------
\* The jobs that hold a record.
Holders(s) == {j \in JobIds : jobs[j].held /\ \E r \in jobs[j].res : r.slot = s}

\* A record's activeUses is exactly the number of jobs holding it: no
\* rollback, rejection, late fence, duplicate interrupt or reset loses a
\* hold or returns one twice.  So release() never meets a stale mapping or an
\* underflow, and the bridge, which could not recover from it, never faults.
UsesAreHolds ==
    /\ ~faulted
    /\ \A s \in Slots : activeUses[s] = Cardinality(Holders(s))

\* Every resource of every batch the device may be accessing is still that
\* allocation, mapped on every page and pinned, whatever the clients retire,
\* reclaim, re-reserve and however the backend fails meanwhile.
DmaIsMapped ==
    \A b \in dma : \A r \in b.res :
        /\ slots[r.slot].generation = r.generation
        /\ r.generation \in pins
        /\ \A p \in SpanOf(r.slot) : pte[p] = r.generation

\* The composed system implements the ownership contract: an allocation is
\* memory from its pin, doubtful or not, to its successful unpin.
OwnedHandles == {h \in Handle :
    /\ slots[h.slot].generation = h.generation
    /\ slots[h.slot].state \in {"Pinned", "Bound", "Retiring", "Quarantined"}}

Accesses == UNION {{<<[gen |-> b.gen, seq |-> b.seq], r>> : r \in b.res} : b \in dma}

Ownership == INSTANCE DmaOwnership WITH
    Work <- [gen : Generations, seq : Sequences], Memory <- Handle,
    owned <- OwnedHandles, access <- Accesses

\* Every behaviour of queue, bridge and memory manager is one of the
\* ownership contract: the device only starts on owned memory, and reclaim()
\* returns none that a batch can still reach.
ImplementsOwnership == Ownership!Spec
=============================================================================
