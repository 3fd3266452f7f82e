------------------------- MODULE GpFifoQueueProofs -------------------------
(***************************************************************************)
(* The GPFIFO queue over its memory owner, for every instance of both:     *)
(* HoldsAreExact, EntriesIntact, JobsReallyComplete, AccessIsMapped, and   *)
(* that the two implement the ownership contract.                          *)
(*                                                                         *)
(* The invariants of ring and owner are reused.  What neither knows is     *)
(* that every hold has one holder (HoldInv): what a job or the binding     *)
(* names is therefore still the allocation that was retained, and what the *)
(* channel can reach is named by one of them.                              *)
(***************************************************************************)
EXTENDS GpFifoRingProofs, MemoryOwnerProofs

\* What is held is still the allocation that was retained.
HoldInv ==
    /\ HoldsAreExact
    /\ \A h \in Bound : Lookup(h)
    /\ \A j \in JobIds : \A h \in jobs[j].held : Lookup(h)

\* The inductive invariant.
FifoInv == RingInv /\ OwnerInv /\ HoldInv

-----------------------------------------------------------------------------
\* What a job or the binding names is held.
LEMMA Holders ==
    ASSUME FifoTypeOK, HoldInv, NEW h, h \in Bound \/ \E j \in JobIds : h \in jobs[j].held
    PROVE  h.slot \in Slots /\ holds[h.slot] # 0
<1>1. h \in Handle
  <2>1. CASE h \in Bound
    BY <2>1 DEF Bound, FifoTypeOK
  <2>2. CASE \E j \in JobIds : h \in jobs[j].held
    BY <2>2, Zenon DEF FifoTypeOK, Job
  <2>3. QED
    BY <2>1, <2>2
<1>2. h.slot \in Slots
  BY <1>1, Zenon DEF Handle
<1> DEFINE J == {j \in JobIds : h.slot \in SlotsOf(jobs[j].held)}
<1>3. holds[h.slot] = Cardinality(J) + IF h.slot \in SlotsOf(Bound) THEN 1 ELSE 0
  BY <1>2, Zenon DEF HoldInv, HoldsAreExact
<1>4. Cardinality(J) \in Nat /\ (J # {} => Cardinality(J) > 0)
  BY JobsCount, Zenon
<1>5. h.slot \in SlotsOf(Bound) \/ J # {}
  BY Zenon DEF SlotsOf
<1> HIDE DEF J
<1>6. QED
  BY <1>2, <1>3, <1>4, <1>5

\* A call of the owner keeps what is held in its slot.
LEMMA HoldersStay ==
    ASSUME FifoTypeOK, HoldInv, OwnerInv, OwnerInv', HeldKept, UNCHANGED <<jobs, bound>>
    PROVE  HoldInv'
<1>1. Bound' = Bound
  BY Zenon DEF Bound
<1>2. HoldsAreExact'
  BY <1>1, Zenon DEF HeldKept, HoldInv, HoldsAreExact
<1>3. ASSUME NEW h, Lookup(h), h.slot \in Slots, holds[h.slot] # 0
      PROVE  Lookup(h)'
  <2>1. slots'[h.slot].generation = h.generation /\ holds'[h.slot] # 0
    BY <1>3, Zenon DEF HeldKept, Lookup
  <2>2. slots'[h.slot].generation # 0
    BY <1>3, <2>1, Zenon DEF OwnerInv, SlotInv, Backs, WorldInv
  <2>3. slots'[h.slot].state # "Empty"
    <3>1. EmptySlot.generation = 0
      BY Zenon DEF EmptySlot
    <3>2. QED
      BY <1>3, <2>2, <3>1, Zenon DEF OwnerInv, SlotInv, Sound
  <2>4. QED
    BY <2>1, <2>3, Zenon DEF Lookup
<1>4. (\A h \in Bound : Lookup(h))'
  BY <1>1, <1>3, Holders, Zenon DEF HoldInv
<1>5. (\A j \in JobIds : \A h \in jobs[j].held : Lookup(h))'
  BY <1>3, Holders, Zenon DEF HoldInv
<1>6. QED
  BY <1>2, <1>4, <1>5, Zenon DEF HoldInv

\* A call that fails, or one of another client.
QuietCall == QuietStep /\ OwnerMove /\ OwnerInv'

\* Such a call keeps everything.
LEMMA QuietFifo ==
    ASSUME FifoInv, QuietCall
    PROVE  FifoInv'
<1>1. RingInv'
  BY QuietKeeps, Zenon DEF FifoInv, QuietCall
<1>2. UNCHANGED <<jobs, bound>>
  BY Zenon DEF QuietCall, QuietStep
<1>3. HoldInv'
  BY <1>2, HoldersStay, Zenon DEF FifoInv, RingInv, QuietCall, OwnerMove
<1>4. QED
  BY <1>1, <1>3, Zenon DEF FifoInv, QuietCall

\* retain() forgets a CPU synchronization, and nothing else of a slot.
LEMMA RetainedFields ==
    ASSUME OwnerInv, NEW H, NEW s \in Slots
    PROVE  /\ Retained(H)[s] = IF s \in SlotsOf(H) THEN Quiesced[s] ELSE slots[s]
           /\ BaseOK(s, Retained(H)[s], quiesced)
           /\ Retained(H)[s].state = slots[s].state
<1>1. Retained(H)[s] = IF s \in SlotsOf(H) THEN Quiesced[s] ELSE slots[s]
  BY QuiescedFields, Zenon DEF Retained, RetainedSlot
<1>2. quiesced = TRUE \/ quiesced = FALSE
  BY Zenon DEF OwnerInv, OwnerTypeOK
<1>3. BaseOK(s, Quiesced[s], quiesced) /\ Quiesced[s].state = slots[s].state
  BY <1>2, QuiescedFields, Zenon
<1>4. BaseOK(s, slots[s], quiesced)
  BY TableIsBase, Zenon
<1>5. QED
  BY <1>1, <1>3, <1>4, Zenon

\* Calls that change the table, but neither holds nor the world.
LEMMA TableCleans ==
    ASSUME OwnerInv, NEW base, \A s \in Slots : BaseOK(s, base[s], quiesced),
           slots' = [s \in Slots |-> base[s]], UNCHANGED <<holds, generation, quiesced, world>>
    PROVE  CleansUp
<1>1. UNCHANGED <<pinned, mapped, users, strays, ended, written, holds, generation, quiesced>>
  BY Zenon DEF world, consumers
<1>2. Cleans({}, <<>>, base)
  BY <1>1, Zenon DEF Cleans
<1>3. /\ quiesced' \in BOOLEAN /\ users' \cap ended' = {}
      /\ quiesced' => users' = {} /\ strays' = {}
  BY <1>1 DEF OwnerInv, OwnerTypeOK, WorldInv
<1>4. CleanupOK({}, <<>>, base)
  <2>1. \A s \in Slots : BaseOK(s, base[s], quiesced')
    BY <1>1, Zenon
  <2>2. QED
    BY <1>1, <1>2, <1>3, <2>1 DEF CleanupOK
<1>5. QED
  BY <1>4, Zenon DEF CleansUp

\* What such calls do for the queue.
LEMMA CleanupKeeps ==
    ASSUME OwnerInv, CleansUp
    PROVE  OwnerInv' /\ OwnerMove
  BY ApplyStep, CleanupMoves, Zenon DEF CleansUp

\* A rollback, and a synchronization for the device that fails.
LEMMA RollbackKeeps ==
    ASSUME OwnerInv, NEW H, RolledBack(H)
    PROVE  OwnerInv' /\ OwnerMove
<1>1. PICK base : base = Retained(H)
  BY Zenon
<1>2. slots' = [s \in Slots |-> base[s]] /\ UNCHANGED <<holds, generation, quiesced, world>>
  BY <1>1, Zenon DEF RolledBack, Retained, OtherMemory
<1>3. \A s \in Slots : BaseOK(s, base[s], quiesced)
  BY <1>1, RetainedFields, Zenon
<1>4. CleansUp
  BY <1>2, <1>3, TableCleans, Zenon
<1>5. QED
  BY <1>4, CleanupKeeps, Zenon

\* Quarantine is a change that the table allows.
LEMMA QuarantineBase ==
    ASSUME NEW s \in Slots, NEW x, BaseOK(s, x, quiesced), x.generation # 0
    PROVE  BaseOK(s, [x EXCEPT !.state = "Quarantined"], quiesced)
<1>1. x \in Slot
  BY Zenon DEF BaseOK
<1>2. PICK y \in Slot : /\ y = [x EXCEPT !.state = "Quarantined"] /\ y.state = "Quarantined"
                        /\ y.generation = x.generation /\ y.mapAttempted = x.mapAttempted
                        /\ y.mappingUncertain = x.mappingUncertain
                        /\ y.cpuSynchronized = x.cpuSynchronized
  BY <1>1, QuarantinedField, Zenon
<1>3. BaseOK(s, y, quiesced)
  BY <1>2, Zenon DEF BaseOK
<1>4. QED
  BY <1>2, <1>3, Zenon

\* A synchronization for the device fails after everything was retained.
LEMMA UnsynchronizedKeeps ==
    ASSUME OwnerInv, NEW H, NEW t \in Slots, slots[t].state # "Empty",
           slots' = [Retained(H) EXCEPT ![t].state = "Quarantined"],
           UNCHANGED <<holds, generation, quiesced, world>>
    PROVE  OwnerInv' /\ OwnerMove
<1>1. PICK base : base = [Retained(H) EXCEPT ![t].state = "Quarantined"]
  BY Zenon
<1>2. slots' = [s \in Slots |-> base[s]]
  BY <1>1, Zenon DEF Retained
<1>3. ASSUME NEW s \in Slots PROVE BaseOK(s, base[s], quiesced)
  <2>1. CASE s # t
    BY <1>1, <2>1, RetainedFields, Zenon DEF Retained
  <2>2. CASE s = t
    <3>1. PICK x : x = Retained(H)[t]
      BY Zenon
    <3>2. base[t] = [x EXCEPT !.state = "Quarantined"]
      BY <1>1, <3>1, Zenon DEF Retained
    <3>3. BaseOK(t, x, quiesced) /\ x.state # "Empty"
      BY <3>1, RetainedFields, Zenon
    <3>4. x.generation # 0
      BY <3>3, Zenon DEF BaseOK
    <3>5. BaseOK(t, [x EXCEPT !.state = "Quarantined"], quiesced)
      BY <3>3, <3>4, QuarantineBase
    <3>6. QED
      BY <2>2, <3>2, <3>5
  <2>3. QED
    BY <2>1, <2>2, Zenon
<1>4. CleansUp
  BY <1>2, <1>3, TableCleans, Zenon
<1>5. QED
  BY <1>4, CleanupKeeps, Zenon

\* Holds that are taken on mapped slots, or given back.
LEMMA HoldsChange ==
    ASSUME OwnerInv, NEW H, slots' = Retained(H), holds' \in [Slots -> Nat],
           UNCHANGED <<generation, quiesced, world>>,
           \A s \in Slots : holds'[s] = 0 \/ holds[s] # 0
                              \/ (slots[s].state = "Mapped" /\ s \in SlotsOf(H))
    PROVE  OwnerInv'
<1>1. UNCHANGED <<pinned, mapped, users, strays, ended, written, generation, quiesced>>
  BY Zenon DEF world, consumers
<1>2. ASSUME NEW s \in Slots
      PROVE  /\ slots'[s] = Retained(H)[s] /\ BaseOK(s, slots'[s], quiesced)
             /\ slots'[s] \in Slot /\ slots'[s].generation = slots[s].generation
             /\ slots'[s].state = slots[s].state
             /\ slots'[s].mapAttempted = slots[s].mapAttempted
             /\ slots'[s].mappingUncertain = slots[s].mappingUncertain
             /\ slots'[s].cpuSynchronized => slots[s].cpuSynchronized /\ s \notin SlotsOf(H)
  <2>1. slots'[s] = Retained(H)[s]
    BY Zenon
  <2>2. CASE s \in SlotsOf(H)
    <3>1. slots'[s] = Quiesced[s]
      BY <2>1, <2>2, RetainedFields, Zenon
    <3>2. BaseOK(s, slots'[s], quiesced)
      BY <2>1, RetainedFields, Zenon
    <3>3. QED
      BY <2>1, <3>1, <3>2, QuiescedFields, Zenon
  <2>3. CASE s \notin SlotsOf(H)
    <3>1. slots'[s] = slots[s] /\ BaseOK(s, slots'[s], quiesced)
      BY <2>1, <2>3, RetainedFields, Zenon
    <3>2. QED
      BY <2>1, <2>3, <3>1, Zenon DEF BaseOK
  <2>4. QED
    BY <2>2, <2>3, Zenon
<1>3. OwnerTypeOK'
  <2>1. slots' \in [Slots -> Slot]
    <3>1. slots' = [s \in Slots |-> slots'[s]]
      BY Zenon DEF Retained
    <3>2. QED
      BY <1>2, <3>1, Zenon
  <2>2. QED
    BY <1>1, <2>1, Zenon DEF OwnerInv, OwnerTypeOK
<1>4. ASSUME NEW s \in Slots PROVE SlotInv(s)'
  <2>1. Sound(slots[s]) /\ Backs(slots[s], holds[s]) /\ Synced(slots[s], holds[s])
    BY Zenon DEF OwnerInv, SlotInv
  <2>2. Sound(slots[s])'
    BY <1>1, <1>2, <2>1, Zenon DEF Sound, BaseOK
  <2>3. Backs(slots[s], holds[s])'
    BY <1>1, <1>2, <2>1, Zenon DEF Backs
  <2>4. Synced(slots[s], holds[s])'
    BY <1>1, <1>2, <2>1 DEF Synced
  <2>5. QED
    BY <2>2, <2>3, <2>4, Zenon DEF SlotInv
<1>5. Distinct'
  BY <1>2 DEF OwnerInv, Distinct
<1>w. WorldInv'
  <2>1. \A s \in Slots : slots'[s].generation = slots[s].generation
    BY <1>2, Zenon
  <2>2. QED
    BY <1>1, <2>1 DEF OwnerInv, WorldInv
<1>6. QED
  BY <1>3, <1>4, <1>5, <1>w, Zenon DEF OwnerInv

\* The handles that lookup() accepts are handles.
LEMMA HandleFacts ==
    ASSUME OwnerInv, NEW h \in Handles
    PROVE  h \in Handle /\ Lookup(h) /\ h.slot \in Slots
<1>1. PICK s \in InUse : h = [slot |-> s, generation |-> slots[s].generation]
  BY Zenon DEF Handles
<1>2. s \in Slots /\ slots[s].state # "Empty" /\ h.slot = s /\ h.generation = slots[s].generation
  BY <1>1 DEF InUse
<1>3. slots[s].generation \in 0 .. MaxGeneration - 1 /\ slots[s].generation # 0
  BY <1>2 DEF OwnerInv, OwnerTypeOK, Slot, SlotInv, Sound
<1>4. slots[s].generation \in Generations
  BY <1>3, GenerationAssumption DEF Generations
<1>5. QED
  BY <1>1, <1>2, <1>4 DEF Handle, Lookup

\* A bound queue names two live allocations.
LEMMA BoundFacts ==
    ASSUME FifoInv, qstate # "Detached"
    PROVE  /\ bound[1] \in Handle /\ bound[2] \in Handle
           /\ bound[1] \in Bound /\ bound[2] \in Bound /\ Lookup(bound[1]) /\ Lookup(bound[2])
<1>1. PICK r, f \in Handle : bound = <<r, f>>
  BY DEF FifoInv, RingInv, PhaseInv, FifoTypeOK
<1>2. bound[1] = r /\ bound[2] = f /\ bound[1] \in Bound /\ bound[2] \in Bound
  BY <1>1 DEF Bound
<1>3. QED
  BY <1>1, <1>2 DEF FifoInv, HoldInv

\* The entry of a job is an entry.
LEMMA HandleEntry ==
    ASSUME FifoInv, NEW c \in Handles, NEW D \in SUBSET Handles
    PROVE  c \in Handle /\ D \in SUBSET Handle /\ Entry(c, D) \in RingEntry
<1>1. c \in Handle /\ D \in SUBSET Handle
  BY HandleFacts DEF FifoInv
<1>2. QED
  BY <1>1, EntryFacts, Zenon DEF FifoInv

\* Calls of the queue that fail leave everything as it was, except for an entry
\* that nobody reads and the queue's state.
LEMMA BindRejectedIsQuiet ==
    ASSUME FifoInv, NEW r \in Handles, NEW f \in Handles, BindRejected(r, f)
    PROVE  QuietCall
<1>1. RolledBack({r, f}) /\ OwnerInv
  BY Zenon DEF BindRejected, FifoInv
<1>2. QuietStep
  BY Zenon DEF BindRejected, QuietStep, queue, channel
<1>3. OwnerInv' /\ OwnerMove
  BY <1>1, RollbackKeeps, Zenon
<1>4. QED
  BY <1>2, <1>3, Zenon DEF QuietCall

\* submit() whose resources are refused.
LEMMA SubmitUnretainedIsQuiet ==
    ASSUME FifoInv, NEW j \in JobIds, NEW c \in Handles, NEW D \in SUBSET Handles,
           SubmitUnretained(j, c, D)
    PROVE  QuietCall
<1>1. PICK R : RolledBack(R) /\ (ring' = ring \/ ring' = [ring EXCEPT ![put] = Entry(c, D)])
  BY Zenon DEF SubmitUnretained
<1>2. OwnerInv' /\ OwnerMove
  BY <1>1, RollbackKeeps, Zenon DEF FifoInv
<1>3. Entry(c, D) \in RingEntry
  BY HandleEntry, Zenon
<1>4. qstate = "Ready"
  BY Zenon DEF SubmitUnretained, Submittable
<1>5. QuietStep
  BY <1>1, <1>3, <1>4, Zenon DEF SubmitUnretained, QuietStep
<1>6. QED
  BY <1>2, <1>5, Zenon DEF QuietCall

\* submit() that is rolled back.
LEMMA SubmitRejectedIsQuiet ==
    ASSUME FifoInv, NEW j \in JobIds, NEW c \in Handles, NEW D \in SUBSET Handles,
           SubmitRejected(j, c, D)
    PROVE  QuietCall
<1>1. /\ RolledBack({c} \cup D) /\ OwnerInv
      /\ ring' = ring \/ ring' = [ring EXCEPT ![put] = Entry(c, D)]
  BY Zenon DEF SubmitRejected, FifoInv
<1>2. OwnerInv' /\ OwnerMove
  BY <1>1, RollbackKeeps, Zenon
<1>3. Entry(c, D) \in RingEntry
  BY HandleEntry, Zenon
<1>4. qstate = "Ready"
  BY Zenon DEF SubmitRejected, Admitted, Submittable
<1>5. QuietStep
  BY <1>1, <1>3, <1>4, Zenon DEF SubmitRejected, QuietStep, queue
<1>6. QED
  BY <1>2, <1>5, Zenon DEF QuietCall

\* submit() that cannot synchronize.
LEMMA SubmitUnsynchronizedIsQuiet ==
    ASSUME FifoInv, NEW j \in JobIds, NEW c \in Handles, NEW D \in SUBSET Handles,
           SubmitUnsynchronized(j, c, D)
    PROVE  QuietCall
<1>1. qstate = "Ready"
  BY Zenon DEF SubmitUnsynchronized, Admitted, Submittable
<1>2. PICK h \in {c, bound[1]} \cup D :
         slots' = [Retained({c} \cup D) EXCEPT ![h.slot].state = "Quarantined"]
  BY Zenon DEF SubmitUnsynchronized
<1>3. UNCHANGED <<holds, generation, quiesced, world>> /\ OwnerInv
  BY Zenon DEF SubmitUnsynchronized, OtherMemory, FifoInv
<1>4. h.slot \in Slots /\ slots[h.slot].state # "Empty"
  BY <1>1, <1>3, HandleFacts, BoundFacts DEF Lookup, Handle
<1>5. OwnerInv' /\ OwnerMove
  BY <1>2, <1>3, <1>4, UnsynchronizedKeeps, Zenon
<1>6. Entry(c, D) \in RingEntry
  BY HandleEntry, Zenon
<1>7. QuietStep
  BY <1>1, <1>6, Zenon DEF SubmitUnsynchronized, QuietStep
<1>8. QED
  BY <1>5, <1>7, Zenon DEF QuietCall

\* Nothing happens to the owner.
LEMMA OwnerUnchanged ==
    ASSUME UNCHANGED ownerVars, OwnerInv
    PROVE  OwnerInv' /\ OwnerMove
  BY OwnerStutter, Zenon DEF OwnerMove, Emptied, HeldKept, ownerVars, owner

\* poll() that cannot read the fence.
LEMMA PollFailsIsQuiet ==
    ASSUME FifoInv, PollFails
    PROVE  QuietCall
<1>1. qstate # "Detached" /\ OwnerInv
  BY Zenon DEF PollFails, Pollable, FifoInv
<1>2. UNCHANGED ownerVars => OwnerInv' /\ OwnerMove
  BY <1>1, OwnerUnchanged, Zenon
<1>3. SynchronizeFails(bound[2]) => OwnerInv' /\ OwnerMove
  BY <1>1, BoundFacts, SynchronizeFailsStep, CallMoves, Zenon
<1>4. OwnerInv' /\ OwnerMove
  BY <1>2, <1>3, Zenon DEF PollFails
<1>5. QuietStep
  BY <1>1, Zenon DEF PollFails, QuietStep, channel
<1>6. QED
  BY <1>4, <1>5, Zenon DEF QuietCall

\* reset() that cannot stop the channel.
LEMMA ResetFailsIsQuiet ==
    ASSUME FifoInv, ResetFails
    PROVE  QuietCall
<1>1. UNCHANGED ownerVars /\ OwnerInv
  BY Zenon DEF ResetFails, FifoInv
<1>2. QuietStep
  BY Zenon DEF ResetFails, QuietStep, channel
<1>3. QED
  BY <1>1, <1>2, OwnerUnchanged, Zenon DEF QuietCall

\* So do the calls of the owner's other clients.
LEMMA OwnerIsQuiet ==
    ASSUME FifoInv, ClientStep \/ RetireStep \/ StopStep, UNCHANGED <<queue, channel>>
    PROVE  QuietCall
<1>1. OwnerInv' /\ OwnerMove
  BY OwnerCalls, OwnerMoves, Zenon DEF FifoInv
<1>2. QuietStep
  BY Zenon DEF QuietStep, queue, channel
<1>3. QED
  BY <1>1, <1>2, Zenon DEF QuietCall

\* Retaining mapped allocations.
LEMMA RetainAllKeeps ==
    ASSUME OwnerInv, NEW H, RetainAll(H), \A h \in H : Retainable(h)
    PROVE  /\ OwnerInv'
           /\ \A h : h.slot \in Slots => (Lookup(h)' <=> Lookup(h))
           /\ \A s \in Slots : holds[s] \in Nat
                 /\ holds'[s] = holds[s] + IF s \in SlotsOf(H) THEN 1 ELSE 0
<1>1. /\ holds' = [s \in Slots |-> holds[s] + IF s \in SlotsOf(H) THEN 1 ELSE 0]
      /\ slots' = Retained(H) /\ UNCHANGED <<generation, quiesced, world>>
  BY Zenon DEF RetainAll, OtherMemory
<1>2. \A s \in Slots : holds[s] \in Nat
  BY Zenon DEF OwnerInv, OwnerTypeOK
<1>3. \A s \in Slots : holds'[s] = holds[s] + IF s \in SlotsOf(H) THEN 1 ELSE 0
  BY <1>1
<1>4. holds' \in [Slots -> Nat]
  BY <1>1, <1>2
<1>5. \A s \in SlotsOf(H) : slots[s].state = "Mapped"
  BY Zenon DEF SlotsOf, Retainable
<1>6. \A s \in Slots : holds'[s] = 0 \/ holds[s] # 0
                          \/ (slots[s].state = "Mapped" /\ s \in SlotsOf(H))
  BY <1>2, <1>3, <1>5
<1>7. OwnerInv'
  BY <1>1, <1>4, <1>6, HoldsChange, Zenon
<1>8. ASSUME NEW h, h.slot \in Slots PROVE Lookup(h)' <=> Lookup(h)
  <2>1. slots'[h.slot].state = slots[h.slot].state
        /\ slots'[h.slot].generation = slots[h.slot].generation
    BY <1>1, <1>8, RetainedFields, Zenon DEF BaseOK
  <2>2. QED
    BY <1>8, <2>1, Zenon DEF Lookup
<1>9. QED
  BY <1>2, <1>3, <1>7, <1>8, Zenon

\* bind() takes one hold on each of two allocations that had none.
LEMMA BindHolds ==
    ASSUME FifoInv, NEW r \in Handles, NEW f \in Handles, Bindable(r, f),
           RetainAll({r, f}), bound' = <<r, f>>, jobs' = jobs
    PROVE  /\ OwnerInv' /\ HoldInv' /\ r \in Handle /\ f \in Handle
           /\ qstate = "Detached" /\ qgen # setup.generations
           /\ completed = nextSequence /\ InFlight = {} /\ running = {}
<1>1. /\ qstate = "Detached" /\ bound = <<>> /\ qgen # setup.generations
      /\ completed = nextSequence /\ InFlight = {} /\ running = {}
  BY Zenon DEF Bindable, FifoInv, RingInv, PhaseInv
<1>2. /\ r \in Handle /\ f \in Handle /\ r.slot \in Slots /\ f.slot \in Slots
      /\ Lookup(r) /\ Lookup(f) /\ OwnerInv
  BY HandleFacts, Zenon DEF FifoInv
<1>3. \A h \in {r, f} : Retainable(h)
  BY Zenon DEF Bindable
<1>4. /\ OwnerInv' /\ \A h : h.slot \in Slots => (Lookup(h)' <=> Lookup(h))
      /\ \A s \in Slots : holds[s] \in Nat
            /\ holds'[s] = holds[s] + IF s \in SlotsOf({r, f}) THEN 1 ELSE 0
  BY <1>2, <1>3, RetainAllKeeps, Zenon
<1>5. Bound = {}
  BY <1>1 DEF Bound
<1>6. Bound' = {r, f}
  BY DEF Bound
<1>7. HoldsAreExact'
  <2>1. ASSUME NEW s \in Slots
        PROVE  holds'[s] = Cardinality({j \in JobIds : s \in SlotsOf(jobs[j].held)})
                           + IF s \in SlotsOf({r, f}) THEN 1 ELSE 0
    <3> DEFINE n == Cardinality({j \in JobIds : s \in SlotsOf(jobs[j].held)})
    <3>1. n \in Nat
      BY JobsCount, Zenon
    <3>2. holds[s] = n + IF s \in SlotsOf({}) THEN 1 ELSE 0
      BY <1>5, Zenon DEF FifoInv, HoldInv, HoldsAreExact
    <3>3. s \notin SlotsOf({})
      BY DEF SlotsOf
    <3> HIDE DEF n
    <3>4. holds[s] = n
      BY <3>1, <3>2, <3>3
    <3>5. holds'[s] = n + IF s \in SlotsOf({r, f}) THEN 1 ELSE 0
      BY <1>4, <3>4, Zenon
    <3>6. QED
      BY <3>5, Zenon DEF n
  <2>2. QED
    BY <1>6, <2>1, Zenon DEF HoldsAreExact
<1>8. (\A h \in Bound : Lookup(h))'
  BY <1>2, <1>4, <1>6, Zenon
<1>9. (\A j \in JobIds : \A h \in jobs[j].held : Lookup(h))'
  <2>1. ASSUME NEW j \in JobIds, NEW h \in jobs[j].held PROVE Lookup(h)'
    BY <1>4, <2>1, Holders, Zenon DEF FifoInv, RingInv, HoldInv
  <2>2. QED
    BY <2>1, Zenon
<1>10. HoldInv'
  BY <1>7, <1>8, <1>9, Zenon DEF HoldInv
<1>11. QED
  BY <1>1, <1>2, <1>4, <1>10, Zenon

\* submit() takes one hold on each allocation of a record that had none.
LEMMA SubmitHolds ==
    ASSUME FifoInv, NEW j \in JobIds, NEW H \in SUBSET Handles, \A h \in H : Retainable(h),
           RetainAll(H), j \notin InFlight, UNCHANGED bound,
           jobs'[j].held = H, \A k \in JobIds \ {j} : jobs'[k] = jobs[k]
    PROVE  OwnerInv' /\ HoldInv'
<1>1. /\ OwnerInv' /\ \A h : h.slot \in Slots => (Lookup(h)' <=> Lookup(h))
      /\ \A s \in Slots : holds[s] \in Nat
            /\ holds'[s] = holds[s] + IF s \in SlotsOf(H) THEN 1 ELSE 0
  BY RetainAllKeeps, Zenon DEF FifoInv
<1>2. Bound' = Bound
  BY Zenon DEF Bound
<1>3. jobs[j].held = {}
  BY Zenon DEF FifoInv, RingInv, RecordInv
<1>4. ASSUME NEW s \in Slots
      PROVE  holds'[s] = Cardinality({k \in JobIds : s \in SlotsOf(jobs'[k].held)})
                         + IF s \in SlotsOf(Bound) THEN 1 ELSE 0
  <2> DEFINE J == {k \in JobIds : s \in SlotsOf(jobs[k].held)}
             K == {k \in JobIds : s \in SlotsOf(jobs'[k].held)}
             b == IF s \in SlotsOf(Bound) THEN 1 ELSE 0
  <2>1. IsFiniteSet(J) /\ Cardinality(J) \in Nat
    BY JobsCount, Zenon
  <2>2. holds[s] = Cardinality(J) + b
    BY Zenon DEF FifoInv, HoldInv, HoldsAreExact
  <2>3. SlotsOf({}) = {}
    BY DEF SlotsOf
  <2>4. j \notin J
    BY <1>3, <2>3, Zenon
  <2>5. b \in Nat
    OBVIOUS
  <2>6. CASE s \in SlotsOf(H)
    <3>1. K = J \cup {j}
      BY <2>6
    <3> HIDE DEF J, K, b
    <3>2. Cardinality(K) = Cardinality(J) + 1
      BY <2>1, <2>4, <3>1, FS_AddElement, Zenon
    <3>3. holds'[s] = holds[s] + 1
      BY <1>1, <2>6
    <3>4. holds'[s] = Cardinality(K) + b
      BY <2>1, <2>2, <2>5, <3>2, <3>3
    <3>5. QED
      BY <3>4, Zenon DEF K, b
  <2>7. CASE s \notin SlotsOf(H)
    <3>1. K = J
      BY <2>4, <2>7
    <3> HIDE DEF J, K, b
    <3>2. holds'[s] = holds[s]
      BY <1>1, <2>7
    <3>3. holds'[s] = Cardinality(K) + b
      BY <2>2, <3>1, <3>2
    <3>4. QED
      BY <3>3, Zenon DEF K, b
  <2>8. QED
    BY <2>6, <2>7
<1>5. HoldsAreExact'
  BY <1>2, <1>4, Zenon DEF HoldsAreExact
<1>6. (\A h \in Bound : Lookup(h))'
  BY <1>1, <1>2, Holders, Zenon DEF FifoInv, RingInv, HoldInv
<1>7. ASSUME NEW k \in JobIds, NEW h \in jobs'[k].held PROVE Lookup(h)'
  <2>1. CASE k = j
    BY <1>1, <2>1, HandleFacts, Zenon DEF FifoInv
  <2>2. CASE k # j
    BY <1>1, <2>2, Holders, Zenon DEF FifoInv, RingInv, HoldInv
  <2>3. QED
    BY <2>1, <2>2
<1>8. QED
  BY <1>1, <1>5, <1>6, <1>7, Zenon DEF HoldInv

\* The holds of a slot, when jobs give theirs back: x before, y after.
Released(x, y, z) == y = z /\ y \in Nat /\ (y = 0 \/ x # 0)

\* The count of holds when the jobs of K, and perhaps the binding, let go.
LEMMA SlotReleased ==
    ASSUME NEW J \in SUBSET JobIds, NEW K \in SUBSET J,
           NEW a \in {0, 1}, NEW b \in {0, 1}, NEW r \in {0, 1},
           (r = 0 /\ a = b) \/ (r = b /\ a = 0),
           NEW x, x = Cardinality(J) + b, NEW y, y = x - Cardinality(K) - r
    PROVE  Released(x, y, Cardinality(J \ K) + a)
<1>1. K \in SUBSET JobIds /\ J \ K \in SUBSET JobIds
  OBVIOUS
<1>2. Cardinality(J) \in Nat /\ Cardinality(K) \in Nat /\ Cardinality(J \ K) \in Nat
  BY <1>1, JobsCount
<1>3. Cardinality(J \ K) = Cardinality(J) - Cardinality(K)
  BY JobsRemoved
<1>4. QED
  BY <1>2, <1>3 DEF Released

\* The jobs of C give their holds back, and so does the binding if it is in R.
LEMMA ReleaseHolds ==
    ASSUME FifoInv, NEW C \in SUBSET JobIds, NEW R,
           (R = {} /\ Bound' = Bound) \/ (R = SlotsOf(Bound) /\ Bound' = {}),
           UNCHANGED <<slots, generation, quiesced, world>>,
           \A j \in JobIds : jobs'[j].held = IF j \in C THEN {} ELSE jobs[j].held,
           holds' = [s \in Slots |-> holds'[s]],
           \A s \in Slots : holds'[s] =
               holds[s] - Cardinality({j \in C : s \in SlotsOf(jobs[j].held)})
               - IF s \in R THEN 1 ELSE 0
    PROVE  OwnerInv' /\ HoldInv'
<1>1. ASSUME NEW s \in Slots
      PROVE  /\ holds'[s] \in Nat /\ (holds'[s] = 0 \/ holds[s] # 0)
             /\ holds'[s] = Cardinality({j \in JobIds : s \in SlotsOf(jobs'[j].held)})
                            + IF s \in SlotsOf(Bound') THEN 1 ELSE 0
  <2> DEFINE J == {j \in JobIds : s \in SlotsOf(jobs[j].held)}
             K == {j \in C : s \in SlotsOf(jobs[j].held)}
             L == {j \in JobIds : s \in SlotsOf(jobs'[j].held)}
             b == IF s \in SlotsOf(Bound) THEN 1 ELSE 0
             r == IF s \in R THEN 1 ELSE 0
             a == IF s \in SlotsOf(Bound') THEN 1 ELSE 0
  <2>1. SlotsOf({}) = {}
    BY DEF SlotsOf
  <2>2. K \in SUBSET J /\ J \in SUBSET JobIds /\ L = J \ K
    BY <2>1
  <2>3. holds[s] = Cardinality(J) + b
    BY Zenon DEF FifoInv, HoldInv, HoldsAreExact
  <2>4. holds'[s] = holds[s] - Cardinality(K) - r
    BY Zenon
  <2>5. a \in {0, 1} /\ b \in {0, 1} /\ r \in {0, 1}
    BY Zenon
  <2>6. (r = 0 /\ a = b) \/ (r = b /\ a = 0)
    <3>1. CASE R = {} /\ Bound' = Bound
      BY <3>1, Zenon
    <3>2. CASE R = SlotsOf(Bound) /\ Bound' = {}
      BY <2>1, <3>2, Zenon
    <3>3. QED
      BY <3>1, <3>2, Zenon
  <2> HIDE DEF J, K, L, a, b, r
  <2>7. Released(holds[s], holds'[s], Cardinality(J \ K) + a)
    BY <2>2, <2>3, <2>4, <2>5, <2>6, SlotReleased, Zenon
  <2>8. QED
    BY <2>2, <2>7, Zenon DEF Released, L, a
<1>2. OwnerInv'
  <2>1. holds' \in [Slots -> Nat]
    BY <1>1, Zenon
  <2>2. slots' = Retained({})
    <3>1. SlotsOf({}) = {}
      BY DEF SlotsOf
    <3>2. slots = [s \in Slots |-> slots[s]]
      BY Zenon DEF FifoInv, OwnerInv, OwnerTypeOK
    <3>3. QED
      BY <3>1, <3>2 DEF Retained
  <2>3. QED
    BY <1>1, <2>1, <2>2, HoldsChange, Zenon DEF FifoInv
<1>3. HoldsAreExact'
  BY <1>1, Zenon DEF HoldsAreExact
<1>4. \A h : Lookup(h)' <=> Lookup(h)
  BY Zenon DEF Lookup
<1>5. (\A h \in Bound : Lookup(h))'
  BY <1>4, Zenon DEF FifoInv, HoldInv
<1>6. (\A j \in JobIds : \A h \in jobs[j].held : Lookup(h))'
  BY <1>4 DEF FifoInv, HoldInv
<1>7. QED
  BY <1>2, <1>3, <1>5, <1>6, Zenon DEF HoldInv

-----------------------------------------------------------------------------
\* Steps that leave the owner and every hold alone.
LEMMA SameHolds ==
    ASSUME FifoInv, UNCHANGED ownerVars, UNCHANGED bound,
           \A j \in JobIds : jobs'[j].held = jobs[j].held
    PROVE  OwnerInv' /\ HoldInv'
<1>1. OwnerInv' /\ UNCHANGED <<slots, holds>>
  BY OwnerUnchanged, Zenon DEF FifoInv, ownerVars, owner
<1>2. Bound' = Bound
  BY Zenon DEF Bound
<1>3. \A s \in Slots : {j \in JobIds : s \in SlotsOf(jobs'[j].held)}
                     = {j \in JobIds : s \in SlotsOf(jobs[j].held)}
  BY Zenon
<1>4. HoldsAreExact'
  BY <1>1, <1>2, <1>3, Zenon DEF FifoInv, HoldInv, HoldsAreExact
<1>5. \A h : Lookup(h)' <=> Lookup(h)
  BY <1>1, Zenon DEF Lookup
<1>6. QED
  BY <1>1, <1>2, <1>4, <1>5, Zenon DEF FifoInv, HoldInv

\* Expiry, the retirement of a record and the channel's own steps.
LEMMA QuietHolds ==
    ASSUME FifoInv,
           \/ \E S \in SUBSET JobIds : Expire(S)
           \/ \E j \in JobIds : RetireJob(j)
           \/ Fetch \/ Finish
    PROVE  FifoInv'
<1> USE DEF FifoInv
<1>1. ASSUME NEW S \in SUBSET JobIds, Expire(S) PROVE FifoInv'
  <2>1. \A j \in JobIds : jobs'[j].held = jobs[j].held
    BY <1>1, ExpiringJobs, Zenon DEF ExpiredOnly
  <2>2. UNCHANGED ownerVars /\ UNCHANGED bound
    BY <1>1, Zenon DEF Expire
  <2>3. QED
    BY <1>1, <2>1, <2>2, SameHolds, ExpireKeeps, Zenon
<1>2. ASSUME NEW j \in JobIds, RetireJob(j) PROVE FifoInv'
  <2>1. \A k \in JobIds : jobs'[k].held = jobs[k].held
    <3>1. FreeJob.held = {} /\ jobs \in [JobIds -> Job]
      BY Zenon DEF FreeJob, RingInv, FifoTypeOK
    <3>2. QED
      BY <1>2, <3>1, Zenon DEF RetireJob
  <2>2. UNCHANGED ownerVars /\ UNCHANGED bound
    BY <1>2, Zenon DEF RetireJob
  <2>3. QED
    BY <1>2, <2>1, <2>2, SameHolds, RetireJobKeeps, Zenon
<1>3. CASE Fetch \/ Finish
  <2>1. UNCHANGED <<ownerVars, bound, jobs>>
    BY <1>3, Zenon DEF Fetch, Finish, queue
  <2>2. QED
    BY <1>3, <2>1, SameHolds, FetchKeeps, FinishKeeps, Zenon
<1>4. QED
  BY <1>1, <1>2, <1>3, Zenon

\* bind() that succeeds, or whose claim of the channel is unknown.
LEMMA BindFifo ==
    ASSUME FifoInv, NEW r \in Handles, NEW f \in Handles,
           BindUnknown(r, f) \/ \E start \in setup.starts : Bind(r, f, start[1], start[2])
    PROVE  FifoInv'
<1>1. r \in Handle /\ f \in Handle
  BY HandleFacts, Zenon DEF FifoInv
<1>2. Bindable(r, f) /\ RetainAll({r, f}) /\ bound' = <<r, f>> /\ jobs' = jobs
  BY Zenon DEF BindUnknown, Bind
<1>3. OwnerInv' /\ HoldInv'
  BY <1>2, BindHolds, Zenon
<1>4. CASE BindUnknown(r, f)
  BY <1>1, <1>3, <1>4, BindUnknownKeeps, Zenon DEF FifoInv
<1>5. ASSUME NEW start \in setup.starts, Bind(r, f, start[1], start[2]) PROVE FifoInv'
  <2>1. start[1] \in Indices /\ start[2] \in Sequences
    <3>1. setup \in Setups
      BY Zenon DEF FifoInv, RingInv, FifoTypeOK
    <3>2. start \in (0 .. setup.entries - 1) \X (0 .. MaxSequence)
      BY <3>1, SetupsAssumption
    <3>3. QED
      BY <3>2 DEF Indices, Sequences
  <2>2. QED
    BY <1>1, <1>3, <1>5, <2>1, BindKeeps, Zenon DEF FifoInv
<1>6. QED
  BY <1>4, <1>5, Zenon

\* submit() that is published, or may have been.
LEMMA SubmitFifo ==
    ASSUME FifoInv, NEW j \in JobIds, NEW c \in Handles, NEW D \in SUBSET Handles,
           Submit(j, c, D)
    PROVE  FifoInv'
<1> DEFINE H == {c} \cup D
<1>1. c \in Handle /\ D \in SUBSET Handle /\ H \in SUBSET Handles
  BY HandleEntry
<1>2. RingInv'
  BY <1>1, SubmitKeeps, Zenon DEF FifoInv
<1>3. PICK state : jobs' = [jobs EXCEPT ![j] =
         [state |-> state, gen |-> qgen, seq |-> nextSequence + 1, commands |-> c, held |-> H,
          ringPending |-> TRUE]]
  BY Zenon DEF Submit, HeldAfterPut
<1>4. RetainAll(H) /\ bound' = bound
  BY Zenon DEF Submit, HeldAfterPut
<1>5. jobs[j].state = "Free" /\ \A h \in H : Retainable(h)
  BY Zenon DEF Submit, Admitted, Submittable
<1>6. jobs'[j].held = H /\ \A k \in JobIds \ {j} : jobs'[k] = jobs[k]
  BY <1>3, Zenon DEF FifoInv, RingInv, FifoTypeOK
<1>7. j \notin InFlight
  BY <1>5, Zenon DEF FifoInv, RingInv, RecordInv
<1> HIDE DEF H
<1>8. OwnerInv' /\ HoldInv'
  BY <1>1, <1>4, <1>5, <1>6, <1>7, SubmitHolds, Zenon
<1>9. QED
  BY <1>2, <1>8, Zenon DEF FifoInv

\* poll() gives back what the jobs it completes held.
LEMMA PollFifo ==
    ASSUME FifoInv, NEW n \in Sequences, NEW S \in SUBSET JobIds, Poll(n, S)
    PROVE  FifoInv'
<1> DEFINE C == Covered(n)
<1>1. RingInv' /\ PolledOnly(jobs, C, S, jobs')
  BY PollKeeps, PolledJobs, Zenon DEF FifoInv
<1>2. /\ holds' = [s \in Slots |->
             holds[s] - Cardinality({j \in C : s \in SlotsOf(jobs[j].held)})]
      /\ UNCHANGED <<slots, generation, quiesced, world>> /\ bound' = bound
  BY Zenon DEF Poll, ReleaseJobs, OtherMemory
<1>3. C \in SUBSET JobIds
  BY Zenon DEF Covered
<1> HIDE DEF C
<1>4. \A j \in JobIds : jobs'[j].held = IF j \in C THEN {} ELSE jobs[j].held
  BY <1>1, Zenon DEF PolledOnly
<1>5. Bound' = Bound /\ holds' = [s \in Slots |-> holds'[s]]
  BY <1>2, Zenon DEF Bound
<1>6. PICK R : R = {}
  BY Zenon
<1>7. ASSUME NEW s \in Slots
      PROVE  holds'[s] = holds[s] - Cardinality({j \in C : s \in SlotsOf(jobs[j].held)})
                         - IF s \in R THEN 1 ELSE 0
  <2>1. PICK K \in SUBSET JobIds : K = {j \in C : s \in SlotsOf(jobs[j].held)}
    BY <1>3, Zenon
  <2>2. holds'[s] = holds[s] - Cardinality(K)
    BY <1>2, <2>1, Zenon
  <2>3. holds[s] \in Nat /\ Cardinality(K) \in Nat
    BY JobsCount, Zenon DEF FifoInv, OwnerInv, OwnerTypeOK
  <2>4. (IF s \in R THEN 1 ELSE 0) = 0
    BY <1>6, Zenon
  <2>5. holds[s] - Cardinality(K) = holds[s] - Cardinality(K) - 0
    BY <2>3
  <2>6. QED
    BY <2>1, <2>2, <2>4, <2>5, Zenon
<1>8. (R = {} /\ Bound' = Bound) \/ (R = SlotsOf(Bound) /\ Bound' = {})
  BY <1>5, <1>6, Zenon
<1>9. OwnerInv' /\ HoldInv'
  BY <1>2, <1>3, <1>4, <1>5, <1>7, <1>8, ReleaseHolds, Zenon
<1>10. QED
  BY <1>1, <1>9, Zenon DEF FifoInv

\* reset() gives back what every job held and, with the channel, the binding.
LEMMA ResetFifo ==
    ASSUME FifoInv, NEW done \in BOOLEAN, Reset(done)
    PROVE  FifoInv'
<1>1. RingInv' /\ \A j \in JobIds : jobs'[j].held = {}
  BY ResetKeeps, ResetJobs, Zenon DEF FifoInv
<1>2. PICK R : R = ReleasedBinding(done)
  BY Zenon
<1>3. /\ holds' = [s \in Slots |-> holds[s]
             - Cardinality({j \in JobIds : s \in SlotsOf(jobs[j].held)})
             - IF s \in R THEN 1 ELSE 0]
      /\ UNCHANGED <<slots, generation, quiesced, world>>
  BY <1>2, Zenon DEF Reset, OtherMemory
<1>4. (R = {} /\ Bound' = Bound) \/ (R = SlotsOf(Bound) /\ Bound' = {})
  <2>1. CASE done
    <3>1. bound' = <<>> /\ R = SlotsOf(Bound)
      BY <1>2, <2>1, Zenon DEF Reset, ReleasedBinding
    <3>2. Bound' = {}
      BY <3>1 DEF Bound
    <3>3. QED
      BY <3>1, <3>2, Zenon
  <2>2. CASE ~done
    BY <1>2, <2>2, Zenon DEF Reset, ReleasedBinding, Bound
  <2>3. QED
    BY <2>1, <2>2
<1>5. JobIds \in SUBSET JobIds /\ holds' = [s \in Slots |-> holds'[s]]
  BY <1>3, Zenon
<1>6. \A j \in JobIds : jobs'[j].held = IF j \in JobIds THEN {} ELSE jobs[j].held
  BY <1>1, Zenon
<1>7. \A s \in Slots : holds'[s] = holds[s]
             - Cardinality({j \in JobIds : s \in SlotsOf(jobs[j].held)})
             - IF s \in R THEN 1 ELSE 0
  BY <1>3, Zenon
<1>8. OwnerInv' /\ HoldInv'
  BY <1>3, <1>4, <1>5, <1>6, <1>7, ReleaseHolds, Zenon
<1>9. QED
  BY <1>1, <1>8, Zenon DEF FifoInv

-----------------------------------------------------------------------------
\* The record of a slot that is mapped from the start.
LEMMA MappedSlot ==
    ASSUME NEW s \in Slots
    PROVE  LET y == [EmptySlot EXCEPT !.state = "Mapped", !.generation = s + 1, !.bytes = 1,
                        !.pin = s + 1, !.mapping = s + 1, !.mapAttempted = TRUE]
           IN  /\ y \in Slot /\ y.state = "Mapped" /\ y.generation = s + 1
               /\ y.mapAttempted /\ ~y.mappingUncertain /\ ~y.cpuSynchronized
<1>1. s + 1 \in 0 .. MaxGeneration - 1 /\ s + 1 \in Token /\ 1 \in Nat
  BY TableAssumption, GenerationAssumption, AllocationsAssumption DEF Slots, Token, Generations
<1>2. PICK n : n = s + 1
  BY Zenon
<1> DEFINE y(x) == [x EXCEPT !.state = "Mapped", !.generation = n, !.bytes = 1,
                        !.pin = n, !.mapping = n, !.mapAttempted = TRUE]
<1>3. "Mapped" \in SlotStates
  BY DEF SlotStates
<1>4. ASSUME NEW x \in Slot
      PROVE  /\ y(x) \in Slot /\ y(x).state = "Mapped" /\ y(x).generation = n
             /\ y(x).mapAttempted /\ y(x).mappingUncertain = x.mappingUncertain
             /\ y(x).cpuSynchronized = x.cpuSynchronized
  BY <1>1, <1>2, <1>3, ZenonT(30) DEF Slot
<1>5. ~EmptySlot.mappingUncertain /\ ~EmptySlot.cpuSynchronized
  BY Zenon DEF EmptySlot
<1>6. QED
  BY <1>2, <1>4, <1>5, EmptyIsSlot, Zenon

\* A new queue over an owner whose slots are all mapped.
LEMMA FifoStarts == FifoInit => FifoInv
<1> SUFFICES ASSUME FifoInit PROVE FifoInv
  OBVIOUS
<1>1. \A s \in Slots : /\ slots[s] \in Slot /\ slots[s].state = "Mapped"
                       /\ slots[s].generation = s + 1 /\ slots[s].mapAttempted
                       /\ ~slots[s].mappingUncertain /\ ~slots[s].cpuSynchronized
                       /\ holds[s] = 0
  BY MappedSlot, Zenon DEF FifoInit
<1>2. /\ generation = MaxAllocations + 1 /\ quiesced = FALSE
      /\ pinned = 1 .. MaxAllocations /\ mapped = 1 .. MaxAllocations
      /\ users = {} /\ strays = {} /\ ended = {} /\ written = {}
  BY Zenon DEF FifoInit
<1>3. MaxAllocations \in Nat /\ MaxAllocations < MaxGeneration /\ MaxGeneration \in Nat
  BY TableAssumption, GenerationAssumption, AllocationsAssumption
<1>4. OwnerTypeOK
  <2>1. generation \in 1 .. MaxGeneration
    BY <1>2, <1>3
  <2>2. slots \in [Slots -> Slot] /\ holds \in [Slots -> Nat]
    <3>1. 0 \in Nat
      OBVIOUS
    <3>2. QED
      BY <1>1, <3>1, Zenon DEF FifoInit
  <2>3. QED
    BY <1>2, <2>1, <2>2, Zenon DEF OwnerTypeOK
<1>5. \A s \in Slots : s + 1 \in 1 .. MaxAllocations /\ s + 1 < generation /\ s + 1 # 0
  BY <1>2, <1>3 DEF Slots
<1>6. ASSUME NEW s \in Slots PROVE SlotInv(s)
  <2>1. Sound(slots[s])
    BY <1>1, <1>5, Zenon DEF Sound
  <2>2. Backs(slots[s], holds[s])
    BY <1>1, <1>2, <1>5, Zenon DEF Backs
  <2>3. Synced(slots[s], holds[s])
    BY <1>1, Zenon DEF Synced
  <2>4. QED
    BY <2>1, <2>2, <2>3, Zenon DEF SlotInv
<1>7. Distinct
  BY <1>1 DEF Distinct, Slots
<1>8. WorldInv
  <2>1. ASSUME NEW g \in pinned PROVE g # 0 /\ \E s \in Slots : slots[s].generation = g
    <3>1. g - 1 \in Slots /\ g # 0 /\ (g - 1) + 1 = g
      BY <1>2, <1>3 DEF Slots
    <3>2. QED
      BY <1>1, <3>1
  <2>2. QED
    BY <1>2, <2>1 DEF WorldInv
<1>9. OwnerInv
  BY <1>4, <1>6, <1>7, <1>8, Zenon DEF OwnerInv
<1>10. /\ setup \in Setups /\ qstate = "Detached" /\ qgen = 1 /\ bound = <<>>
       /\ put = 0 /\ pending = 0 /\ nextSequence = 0 /\ completed = 0 /\ stopped = FALSE
       /\ lease = FALSE /\ halted = FALSE /\ ring = [i \in Indices |-> NoEntry]
       /\ get = 0 /\ gpPut = 0 /\ fetched = 0 /\ visible = 0
       /\ running = {} /\ fence = 0 /\ finished = {}
  BY Zenon DEF FifoInit
<1>11. FreeJob \in Job /\ FreeJob.held = {} /\ FreeJob.ringPending = FALSE
       /\ FreeJob.state = "Free"
  <2>1. 0 \in Nat
    OBVIOUS
  <2>2. QED
    BY <2>1, Zenon DEF FreeJob, Job, JobStates
<1>12. jobs \in [JobIds -> Job] /\ \A j \in JobIds : jobs[j] = FreeJob
  BY <1>11, Zenon DEF FifoInit
<1>13. InFlight = {} /\ Left = 0
  BY <1>10, <1>11, <1>12 DEF InFlight, Left
<1>14. /\ setup.entries \in Nat /\ setup.entries >= 2 /\ setup.generations \in Nat
       /\ setup.generations >= 1
  BY <1>10, SetupsAssumption, QueueGenerationAssumption
<1>15. FifoTypeOK
  <2>1. 0 \in Indices /\ 0 \in Sequences /\ 1 \in 1 .. setup.generations
    BY <1>14, SequenceAssumption DEF Indices, Sequences
  <2>2. NoEntry \in RingEntry
    BY DEF NoEntry, RingEntry
  <2>3. QED
    BY <1>10, <1>12, <2>1, <2>2 DEF FifoTypeOK
<1>16. PhaseInv
  BY <1>10, <1>13, Zenon DEF PhaseInv
<1>17. CounterInv
  BY <1>10, <1>13, <1>14, FS_EmptySet DEF CounterInv
<1>18. 0 .. 0 - 1 = {} /\ 0 + 1 .. 0 = {}
  OBVIOUS
<1>19. EntryInv /\ RecordInv /\ SequenceInv /\ ResourceInv
  BY <1>10, <1>11, <1>12, <1>13, <1>18, Zenon
     DEF EntryInv, RecordInv, SequenceInv, ResourceInv
<1>20. DoneInv
  <2>1. "Free" # "Completed"
    OBVIOUS
  <2>2. QED
    BY <1>10, <1>11, <1>12, <1>18, <2>1, Zenon DEF DoneInv, JobsReallyComplete
<1>21. HoldInv
  <2>1. Bound = {} /\ SlotsOf({}) = {}
    BY <1>10 DEF Bound, SlotsOf
  <2>2. \A s \in Slots : {j \in JobIds : s \in SlotsOf(jobs[j].held)} = {}
    BY <1>11, <1>12, <2>1, Zenon
  <2>3. HoldsAreExact
    <3>1. Cardinality({}) = 0 /\ 0 = 0 + 0
      BY FS_EmptySet
    <3>2. QED
      BY <1>1, <2>1, <2>2, <3>1, Zenon DEF HoldsAreExact
  <2>4. QED
    BY <1>11, <1>12, <2>1, <2>3, Zenon DEF HoldInv
<1>22. QED
  BY <1>9, <1>15, <1>16, <1>17, <1>19, <1>20, <1>21, Zenon DEF FifoInv, RingInv

\* Every other step of queue, owner and channel.
ProperStep ==
    \/ \E r, f \in Handles :
          BindUnknown(r, f) \/ \E start \in setup.starts : Bind(r, f, start[1], start[2])
    \/ \E j \in JobIds, c \in Handles : \E D \in SUBSET Handles : Submit(j, c, D)
    \/ \E S \in SUBSET JobIds : Expire(S) \/ \E n \in Sequences : Poll(n, S)
    \/ \E done \in BOOLEAN : Reset(done)
    \/ \E j \in JobIds : RetireJob(j)
    \/ Fetch \/ Finish

\* There is no third kind of step.
LEMMA StepKinds ==
    ASSUME FifoInv, [FifoNext]_fifoVars
    PROVE  QuietCall \/ ProperStep
<1>1. CASE QueueStep
  <2>1. ASSUME NEW r \in Handles, NEW f \in Handles,
               \/ BindRejected(r, f) \/ BindUnknown(r, f)
               \/ \E start \in setup.starts : Bind(r, f, start[1], start[2])
        PROVE  QuietCall \/ ProperStep
    BY <2>1, BindRejectedIsQuiet, Zenon DEF ProperStep
  <2>2. ASSUME NEW j \in JobIds, NEW c \in Handles, NEW D \in SUBSET (Handles \ {c}),
               \/ SubmitUnretained(j, c, D) \/ SubmitRejected(j, c, D)
               \/ SubmitUnsynchronized(j, c, D) \/ Submit(j, c, D)
        PROVE  QuietCall \/ ProperStep
    <3>1. D \in SUBSET Handles
      BY Zenon
    <3>2. QED
      BY <2>2, <3>1, SubmitUnretainedIsQuiet, SubmitRejectedIsQuiet,
         SubmitUnsynchronizedIsQuiet, Zenon DEF ProperStep
  <2>3. CASE PollFails \/ ResetFails
    BY <2>3, PollFailsIsQuiet, ResetFailsIsQuiet, Zenon
  <2>4. QED
    BY <1>1, <2>1, <2>2, <2>3, Zenon DEF QueueStep, ProperStep
<1>2. CASE (ClientStep \/ RetireStep \/ StopStep) /\ UNCHANGED <<queue, channel>>
  BY <1>2, OwnerIsQuiet, Zenon
<1>3. CASE UNCHANGED fifoVars
  <2>1. UNCHANGED ownerVars /\ QuietStep
    BY <1>3, Zenon DEF fifoVars, QuietStep, queue, channel
  <2>2. QED
    BY <2>1, OwnerUnchanged, Zenon DEF FifoInv, QuietCall
<1>4. QED
  BY <1>1, <1>2, <1>3, Zenon DEF FifoNext, ProperStep

\* Each of them keeps the invariant.
LEMMA FifoSteps == FifoInv /\ [FifoNext]_fifoVars => FifoInv'
<1> SUFFICES ASSUME FifoInv, [FifoNext]_fifoVars PROVE FifoInv'
  OBVIOUS
<1>1. QuietCall => FifoInv'
  BY QuietFifo, Zenon
<1>2. ProperStep => FifoInv'
  BY BindFifo, SubmitFifo, QuietHolds, PollFifo, ResetFifo, Zenon DEF ProperStep
<1>3. QED
  BY <1>1, <1>2, StepKinds, Zenon

-----------------------------------------------------------------------------
\* Everything that the proof relies on holds of every reachable state.
THEOREM FifoInvariant == FifoSpec => []FifoInv
  BY FifoStarts, FifoSteps, PTL DEF FifoSpec

\* Every hold of the memory owner is accounted for: the slot's count is the
\* number of jobs that hold it, plus one for the binding, whatever submit(),
\* poll() and reset() were told by the backend.
THEOREM HoldsStayExact == FifoSpec => []HoldsAreExact
<1>1. FifoInv => HoldsAreExact
  BY Zenon DEF FifoInv, HoldInv
<1>2. QED
  BY <1>1, FifoInvariant, PTL

\* poll() reports a job as completed only when the channel has finished it, also
\* after resets, which start the fence again.
THEOREM CompletionIsTrue == FifoSpec => []JobsReallyComplete
<1>1. FifoInv => JobsReallyComplete
  BY Zenon DEF FifoInv, RingInv, DoneInv
<1>2. QED
  BY <1>1, FifoInvariant, PTL

\* The distance between GP_GET and GP_PUT is the number of unread entries.
LEMMA DistanceIsLeft ==
    ASSUME RingInv
    PROVE  Distance = Left /\ Left \in 0 .. setup.entries - 1
<1>1. /\ setup.entries \in Nat /\ setup.entries >= 2 /\ get \in 0 .. setup.entries - 1
      /\ fetched \in Nat /\ visible \in Nat
  BY Numbers DEF RingInv
<1>2. fetched <= visible /\ Left < setup.entries /\ gpPut = (get + Left) % setup.entries
  BY Zenon DEF RingInv, CounterInv
<1>3. Left \in 0 .. setup.entries - 1
  BY <1>1, <1>2 DEF Left
<1>4. QED
  BY <1>1, <1>2, <1>3, DistanceBetween, Zenon DEF Distance

\* The channel fetches exactly the published jobs in order: submit() never
\* overwrites an entry that is still to be fetched, even as put_ wraps.
THEOREM RingStaysIntact == FifoSpec => []EntriesIntact
<1>1. FifoInv => EntriesIntact
  <2> SUFFICES ASSUME FifoInv PROVE EntriesIntact
    OBVIOUS
  <2>1. Distance = Left /\ EntryInv
    BY DistanceIsLeft, Zenon DEF FifoInv, RingInv
  <2>2. QED
    BY <2>1, Zenon DEF EntriesIntact, EntryInv, EntryAt, Left
<1>2. QED
  BY <1>1, FifoInvariant, PTL

-----------------------------------------------------------------------------
\* What the channel can reach: entries, and ring and fence while it has its
\* lease.
Uses(e) == {<<[gen |-> e.gen, seq |-> e.seq], h>> : h \in e.res}

Reachable == IF Active THEN {EntryAt(i) : i \in 0 .. Left - 1} \cup running ELSE {}

Lent == IF lease /\ ~quiesced THEN {<<[gen |-> qgen, seq |-> -1], h>> : h \in Bound} ELSE {}

Owned == {h \in Handle : Lookup(h)}

\* An access is one or the other.
LEMMA AccessesAre == RingInv => Accesses = (UNION {Uses(e) : e \in Reachable}) \cup Lent
<1> SUFFICES ASSUME RingInv PROVE Accesses = (UNION {Uses(e) : e \in Reachable}) \cup Lent
  OBVIOUS
<1>1. Unread = {EntryAt(i) : i \in 0 .. Left - 1}
  BY DistanceIsLeft, Zenon DEF Unread, EntryAt
<1>2. Accesses = (IF ~Active THEN {} ELSE UNION {Uses(e) : e \in Unread \cup running}) \cup Lent
  BY Zenon DEF Accesses, Lent, Uses
<1>3. QED
  BY <1>1, <1>2, Zenon DEF Reachable

\* An entry that the channel can reach belongs to a job, which holds what the
\* entry names.
LEMMA ReachableHeld ==
    ASSUME RingInv, NEW e \in Reachable
    PROVE  /\ e.gen = qgen /\ e.res \subseteq Handle
           /\ \E j \in JobIds : e.res \subseteq jobs[j].held
<1>1. Active /\ ~stopped
  BY Zenon DEF Reachable, Active, RingInv, PhaseInv
<1>2. /\ completed \in Nat /\ fence \in Nat /\ fetched \in Nat /\ visible \in Nat
      /\ nextSequence \in Nat
  BY Numbers DEF RingInv
<1>3. completed <= fence /\ fetched <= visible /\ visible <= nextSequence /\ fence <= fetched
  BY Zenon DEF RingInv, CounterInv
<1>4. \A q \in completed + 1 .. nextSequence : \E j \in InFlight : jobs[j].seq = q
  BY <1>1, Zenon DEF RingInv, SequenceInv
<1>5. \A j \in JobIds : jobs[j].held \subseteq Handle
  BY Zenon DEF RingInv, FifoTypeOK, Job
<1>6. ASSUME NEW i \in 0 .. Left - 1, e = EntryAt(i)
      PROVE  e.gen = qgen /\ \E j \in JobIds : e.res \subseteq jobs[j].held
  <2>1. e.gen = qgen /\ e.seq = fetched + 1 + i
    BY <1>6, Zenon DEF RingInv, EntryInv
  <2>2. e.seq \in completed + 1 .. nextSequence
    BY <1>2, <1>3, <2>1 DEF Left
  <2>3. PICK j \in InFlight : jobs[j].seq = e.seq
    BY <1>4, <2>2, Zenon
  <2>4. e.res \subseteq jobs[j].held /\ j \in JobIds
    BY <1>6, <2>3, Zenon DEF RingInv, ResourceInv, InFlight
  <2>5. QED
    BY <2>1, <2>4, Zenon
<1>7. ASSUME e \in running
      PROVE  e.gen = qgen /\ \E j \in JobIds : e.res \subseteq jobs[j].held
  <2>1. e.gen = qgen /\ e.seq \in fence + 1 .. fetched
    BY <1>1, <1>7, Zenon DEF RingInv, EntryInv
  <2>2. e.seq \in completed + 1 .. nextSequence
    BY <1>2, <1>3, <2>1
  <2>3. PICK j \in InFlight : jobs[j].seq = e.seq
    BY <1>4, <2>2, Zenon
  <2>4. e.res \subseteq jobs[j].held /\ j \in JobIds
    BY <1>7, <2>3, Zenon DEF RingInv, ResourceInv, InFlight
  <2>5. QED
    BY <2>1, <2>4, Zenon
<1>8. e.gen = qgen /\ \E j \in JobIds : e.res \subseteq jobs[j].held
  BY <1>1, <1>6, <1>7, Zenon DEF Reachable
<1>9. QED
  BY <1>5, <1>8, Zenon

\* So every access is to memory that a job or the binding holds.
LEMMA AccessesHeld ==
    ASSUME RingInv, NEW a \in Accesses
    PROVE  a[2] \in Handle /\ (a[2] \in Bound \/ \E j \in JobIds : a[2] \in jobs[j].held)
<1>1. CASE \E e \in Reachable : a \in Uses(e)
  <2>e. PICK e \in Reachable : a \in Uses(e)
    BY <1>1, Zenon
  <2>1. PICK h \in e.res : a = <<[gen |-> e.gen, seq |-> e.seq], h>>
    BY <2>e, Zenon DEF Uses
  <2>2. a[2] = h
    BY <2>1
  <2>3. QED
    BY <2>1, <2>2, ReachableHeld, Zenon
<1>2. CASE a \in Lent
  <2>1. PICK h \in Bound : a = <<[gen |-> qgen, seq |-> -1], h>>
    BY <1>2, Zenon DEF Lent
  <2>2. a[2] = h
    BY <2>1
  <2>3. h \in Handle
    BY DEF Bound, RingInv, FifoTypeOK
  <2>4. QED
    BY <2>2, <2>3, Zenon
<1>3. QED
  BY <1>1, <1>2, AccessesAre, Zenon

\* Whatever the channel can reach is mapped and backed.
LEMMA AccessesMapped == FifoInv => AccessIsMapped
<1> SUFFICES ASSUME FifoInv, NEW a \in Accesses
             PROVE  Lookup(a[2]) /\ a[2].generation \in mapped \cap pinned
  BY Zenon DEF AccessIsMapped
<1>1. PICK h : h = a[2]
  BY Zenon
<1>2. h \in Bound \/ \E j \in JobIds : h \in jobs[j].held
  BY <1>1, AccessesHeld, Zenon DEF FifoInv
<1>3. h.slot \in Slots /\ holds[h.slot] # 0
  BY <1>2, Holders, Zenon DEF FifoInv, RingInv
<1>4. Lookup(h)
  BY <1>2, Zenon DEF FifoInv, HoldInv
<1>5. slots[h.slot].generation \in mapped \cap pinned
  BY <1>3, HeldInUse, Zenon DEF FifoInv
<1>6. QED
  BY <1>1, <1>4, <1>5, Zenon DEF Lookup

\* The channel never reaches memory whose translation or backing is gone: not
\* after an expiry, a failed publication, a quarantine or a reset that failed.
THEOREM AccessStaysMapped == FifoSpec => []AccessIsMapped
  BY FifoInvariant, AccessesMapped, PTL
-----------------------------------------------------------------------------
\* The identities that the contract gives to what the channel executes.
Works == [gen : 1 .. MaxQueueGeneration, seq : -1 .. MaxSequence]

\* Every access is to an allocation that the owner still knows.
LEMMA AccessesOwned == FifoInv => \A a \in Accesses : a[2] \in Owned
<1> SUFFICES ASSUME FifoInv, NEW a \in Accesses PROVE a[2] \in Owned
  OBVIOUS
<1>1. a[2] \in Handle
  BY AccessesHeld, Zenon DEF FifoInv
<1>2. Lookup(a[2])
  BY AccessesMapped, Zenon DEF AccessIsMapped
<1>3. QED
  BY <1>1, <1>2, Zenon DEF Owned

\* Accesses end or backing goes: the contract's release.
LEMMA FifoReleases ==
    ASSUME Accesses' \subseteq Accesses, Owned' \subseteq Owned,
           \A a \in Accesses : a[2] \in Owned'
    PROVE  Ownership!Next
  BY Zenon DEF Ownership!Next, Ownership!Release, Owned

\* Accesses of one piece of work begin: the contract's start.
LEMMA FifoBegins ==
    ASSUME FifoInv, FifoInv', Owned' = Owned, Accesses \subseteq Accesses', NEW w \in Works,
           \A a \in Accesses' \ Accesses : \E h : a = <<w, h>>
    PROVE  Ownership!Next
<1>1. (\A a \in Accesses : a[2] \in Owned) /\ (\A a \in Accesses : a[2] \in Owned)'
  BY AccessesOwned, PTL
<1>2. CASE Accesses' = Accesses
  BY <1>1, <1>2, FifoReleases, Zenon
<1>3. ASSUME NEW b \in Accesses' \ Accesses PROVE Ownership!Next
  <2>1. \A a \in Accesses' \ Accesses : a \in {w} \X Owned
    <3>1. ASSUME NEW a \in Accesses' \ Accesses PROVE a \in {w} \X Owned
      <4>1. PICK h : a = <<w, h>>
        BY Zenon
      <4>2. a[2] = h
        BY <4>1
      <4>3. h \in Owned
        BY <1>1, <4>2, Zenon
      <4>4. QED
        BY <4>1, <4>3
    <3>2. QED
      BY <3>1, Zenon
  <2>2. b[2] \in Handle
    BY <1>1, Zenon DEF Owned
  <2>3. Ownership!Start(w)
    BY <2>1, Zenon DEF Ownership!Start, Owned
  <2>4. QED
    BY <2>2, <2>3, Zenon DEF Ownership!Next, Works
<1>4. QED
  BY <1>2, <1>3, Zenon

\* Backing is found for a new allocation: the contract's acquisition.
LEMMA FifoAcquires ==
    ASSUME FifoInv, Accesses' = Accesses, NEW h \in Handle, h \notin Owned,
           Owned' = Owned \cup {h}
    PROVE  Ownership!Next
<1>1. ASSUME NEW w PROVE <<w, h>> \notin Accesses
  <2>1. <<w, h>>[2] = h
    OBVIOUS
  <2>2. QED
    BY <2>1, AccessesOwned, Zenon
<1>2. Ownership!Acquire(h)
  BY <1>1, Zenon DEF Ownership!Acquire, Owned
<1>3. [gen |-> 1, seq |-> 0] \in Works
  BY SequenceAssumption, QueueGenerationAssumption DEF Works
<1>4. QED
  BY <1>2, <1>3, Zenon DEF Ownership!Next, Works

\* Entries and lease decide what is accessed.
LEMMA AccessesShrink ==
    ASSUME FifoInv, FifoInv', Reachable' \subseteq Reachable, Lent' \subseteq Lent
    PROVE  Accesses' \subseteq Accesses
<1>1. Accesses = (UNION {Uses(e) : e \in Reachable}) \cup Lent
  BY AccessesAre, Zenon DEF FifoInv
<1>2. (Accesses = (UNION {Uses(e) : e \in Reachable}) \cup Lent)'
  BY AccessesAre, PTL DEF FifoInv
<1>3. Accesses' = (UNION {Uses(e) : e \in Reachable'}) \cup Lent'
  BY <1>2, Zenon DEF Uses
<1>4. QED
  BY <1>1, <1>3, Zenon

\* Steps that leave the table alone and make nothing new reachable.
LEMMA FifoShrinks ==
    ASSUME FifoInv, FifoInv', slots' = slots, Reachable' \subseteq Reachable,
           Lent' \subseteq Lent
    PROVE  Ownership!Next
<1>1. Owned' = Owned
  BY Zenon DEF Owned, Lookup
<1>2. QED
  BY <1>1, AccessesOwned, AccessesShrink, FifoReleases, Zenon

-----------------------------------------------------------------------------
\* The new handle, when a slot is filled.
LEMMA FilledSlot ==
    ASSUME OwnerInv, OwnerInv', NEW s \in Slots, slots[s].state = "Empty",
           \A t \in Slots \ {s} : slots'[t] = slots[t], slots'[s].state # "Empty"
    PROVE  \E h \in Handle : h \notin Owned /\ Owned' = Owned \cup {h}
<1>1. slots'[s].generation \in 0 .. MaxGeneration - 1 /\ slots'[s].generation # 0
  BY DEF OwnerInv, OwnerTypeOK, Slot, SlotInv, Sound
<1>2. slots'[s].generation \in Generations
  BY <1>1, GenerationAssumption DEF Generations
<1>n. PICK h : h = [slot |-> s, generation |-> slots'[s].generation]
  BY Zenon
<1>3. h \in Handle /\ h.slot = s /\ h.generation = slots'[s].generation
  BY <1>2, <1>n DEF Handle
<1>4. ASSUME NEW k \in Handle PROVE Lookup(k)' <=> Lookup(k) \/ k = h
  <2>1. CASE k.slot = s
    <3>1. k = h <=> k.generation = h.generation
      BY <1>3, <2>1 DEF Handle
    <3>2. QED
      BY <1>3, <2>1, <3>1, Zenon DEF Lookup
  <2>2. CASE k.slot # s
    <3>1. k.slot \in Slots \ {s} /\ k # h
      BY <1>3, <2>2, Zenon DEF Handle
    <3>2. QED
      BY <3>1, Zenon DEF Lookup
  <2>3. QED
    BY <2>1, <2>2
<1>5. ~Lookup(h)
  BY <1>3, Zenon DEF Lookup
<1>6. QED
  BY <1>3, <1>4, <1>5 DEF Owned

\* Calls of the owner, and calls of the queue that fail, acquire or release.
LEMMA QuietRefines ==
    ASSUME FifoInv, FifoInv', QuietCall
    PROVE  Ownership!Next
<1>1. /\ UNCHANGED <<lease, halted, running, qgen, bound, jobs, setup, get, fetched, visible>>
      /\ quiesced => quiesced'
  BY Zenon DEF QuietCall, QuietStep, OwnerMove
<1>2. Left' = Left /\ Bound' = Bound
  BY <1>1, Zenon DEF Left, Bound
<1>3. \A i \in 0 .. Left - 1 : EntryAt(i)' = EntryAt(i)
  BY QuietEntries, Zenon DEF QuietCall, FifoInv
<1>4. {EntryAt(i) : i \in 0 .. Left - 1}' = {EntryAt(i) : i \in 0 .. Left - 1}
  BY <1>2, <1>3, Zenon
<1>5. Reachable' \subseteq Reachable /\ (quiesced' = quiesced => Reachable' = Reachable)
  BY <1>1, <1>4, Zenon DEF Reachable, Active
<1>6. Lent' \subseteq Lent /\ (quiesced' = quiesced => Lent' = Lent)
  BY <1>1, <1>2, Zenon DEF Lent
<1>7. \A a \in Accesses : a[2] \in Owned'
  <2>1. ASSUME NEW a \in Accesses PROVE a[2] \in Handle /\ Lookup(a[2])'
    BY <1>1, <1>2, AccessesHeld, Zenon DEF FifoInv, HoldInv
  <2>2. QED
    BY <2>1, Zenon DEF Owned
<1>8. Accesses' \subseteq Accesses
  BY <1>5, <1>6, AccessesShrink, Zenon
<1>9. \A h \in Handle : h.slot \in Slots
  BY Zenon DEF Handle
<1>10. CASE Emptied
  <2>1. Owned' \subseteq Owned
    BY <1>9, <1>10, Zenon DEF Owned, Lookup, Emptied
  <2>2. QED
    BY <1>7, <1>8, <2>1, FifoReleases, Zenon
<1>11. CASE Filled
  <2>1. PICK s \in Slots : /\ slots[s].state = "Empty" /\ quiesced' = quiesced
                           /\ \A t \in Slots \ {s} : slots'[t] = slots[t]
    BY <1>11, Zenon DEF Filled
  <2>2. CASE slots'[s].state = "Empty"
    <3>1. Owned' \subseteq Owned
      BY <1>9, <2>1, <2>2, Zenon DEF Owned, Lookup
    <3>2. QED
      BY <1>7, <1>8, <3>1, FifoReleases, Zenon
  <2>3. CASE slots'[s].state # "Empty"
    <3>1. PICK h \in Handle : h \notin Owned /\ Owned' = Owned \cup {h}
      BY <2>1, <2>3, FilledSlot, Zenon DEF FifoInv
    <3>2. Accesses = (UNION {Uses(e) : e \in Reachable}) \cup Lent
      BY AccessesAre, Zenon DEF FifoInv
    <3>3. (Accesses = (UNION {Uses(e) : e \in Reachable}) \cup Lent)'
      BY AccessesAre, PTL DEF FifoInv
    <3>4. Accesses' = Accesses
      BY <1>5, <1>6, <2>1, <3>2, <3>3, Zenon DEF Uses
    <3>5. QED
      BY <3>1, <3>4, FifoAcquires, Zenon
  <2>4. QED
    BY <2>2, <2>3, Zenon
<1>12. QED
  BY <1>10, <1>11, Zenon DEF QuietCall, OwnerMove

\* bind() lends ring and fence to a channel that could reach nothing.
LEMMA BindRefines ==
    ASSUME FifoInv, FifoInv', NEW r \in Handles, NEW f \in Handles,
           BindUnknown(r, f) \/ \E start \in setup.starts : Bind(r, f, start[1], start[2])
    PROVE  Ownership!Next
<1> DEFINE w == [gen |-> qgen, seq |-> -1]
<1>1. Bindable(r, f) /\ RetainAll({r, f}) /\ qgen' = qgen /\ running' = running
  BY Zenon DEF BindUnknown, Bind
<1>2. qstate = "Detached" /\ ~lease /\ completed = nextSequence /\ running = {}
  BY <1>1, Zenon DEF Bindable, FifoInv, RingInv, PhaseInv
<1>3. Owned' = Owned
  <2>1. \A h \in {r, f} : Retainable(h)
    BY <1>1, Zenon DEF Bindable
  <2>2. \A h : h.slot \in Slots => (Lookup(h)' <=> Lookup(h))
    BY <1>1, <2>1, RetainAllKeeps, Zenon DEF FifoInv
  <2>3. \A h \in Handle : h.slot \in Slots
    BY Zenon DEF Handle
  <2>4. QED
    BY <2>2, <2>3, Zenon DEF Owned
<1>4. Reachable = {} /\ Lent = {}
  BY <1>2, Zenon DEF Reachable, Active, Lent
<1>5. Accesses = {}
  BY <1>4, AccessesAre, Zenon DEF FifoInv
<1>6. 0 .. Left' - 1 = {}
  <2>1. Left' = 0
    <3>1. CASE BindUnknown(r, f)
      <4>1. Left' = Left
        BY <3>1, Zenon DEF BindUnknown, Left
      <4>2. /\ completed \in Nat /\ fence \in Nat /\ fetched \in Nat /\ visible \in Nat
        BY Numbers DEF FifoInv, RingInv
      <4>3. completed <= fence /\ fence <= fetched /\ fetched <= visible /\ visible <= completed
        BY <1>2, Zenon DEF FifoInv, RingInv, CounterInv
      <4>4. QED
        BY <4>1, <4>2, <4>3 DEF Left
    <3>2. CASE \E start \in setup.starts : Bind(r, f, start[1], start[2])
      <4>1. visible' = fetched'
        BY <3>2, Zenon DEF Bind
      <4>2. fetched' \in Nat
        BY SequenceAssumption DEF FifoInv, RingInv, FifoTypeOK, Sequences
      <4>3. PICK x \in Nat : Left' = x - x
        BY <4>1, <4>2, Zenon DEF Left
      <4>4. QED
        BY <4>3
    <3>3. QED
      BY <3>1, <3>2, Zenon
  <2>2. QED
    BY <2>1
<1>7. Reachable' = {}
  BY <1>1, <1>2, <1>6, Zenon DEF Reachable
<1>8. (Accesses = (UNION {Uses(e) : e \in Reachable}) \cup Lent)'
  BY AccessesAre, PTL DEF FifoInv
<1>9. Accesses' = Lent'
  BY <1>7, <1>8, Zenon
<1>10. \A a \in Accesses' : \E h : a = <<w, h>>
  BY <1>1, <1>9, Zenon DEF Lent
<1>11. w \in Works
  <2>1. qgen \in 1 .. MaxQueueGeneration
    BY Numbers, QueueGenerationAssumption DEF FifoInv, RingInv
  <2>2. -1 \in -1 .. MaxSequence
    BY SequenceAssumption
  <2>3. QED
    BY <2>1, <2>2, Zenon DEF Works
<1> HIDE DEF w
<1>12. QED
  BY <1>3, <1>5, <1>10, <1>11, FifoBegins, Zenon

\* submit() lends what the job names, and nothing else becomes reachable.
LEMMA SubmitRefines ==
    ASSUME FifoInv, FifoInv', NEW j \in JobIds, NEW c \in Handles, NEW D \in SUBSET Handles,
           Submit(j, c, D)
    PROVE  Ownership!Next
<1> DEFINE E == Entry(c, D)
           w == [gen |-> E.gen, seq |-> E.seq]
           H == {c} \cup D
<1>1. /\ UNCHANGED <<lease, halted, running, qgen, bound>>
      /\ RetainAll(H) /\ nextSequence' = nextSequence + 1
  BY Zenon DEF Submit, HeldAfterPut
<1>2. quiesced' = quiesced /\ Bound' = Bound
  BY <1>1, Zenon DEF RetainAll, OtherMemory, Bound
<1>3. Owned' = Owned
  <2>1. \A h \in H : Retainable(h)
    BY Zenon DEF Submit, Admitted
  <2> HIDE DEF H
  <2>2. \A h : h.slot \in Slots => (Lookup(h)' <=> Lookup(h))
    BY <1>1, <2>1, RetainAllKeeps, Zenon DEF FifoInv
  <2>3. \A h \in Handle : h.slot \in Slots
    BY Zenon DEF Handle
  <2>4. QED
    BY <2>2, <2>3, Zenon DEF Owned
<1>4. PICK L : L = Left /\ EntryAt(L)' = E
  BY SubmitEntries, Zenon DEF FifoInv
<1>5. /\ \A i \in 0 .. Left - 1 : EntryAt(i)' = EntryAt(i)
      /\ \A i \in 0 .. Left' - 1 : i \in 0 .. Left - 1 \/ i = L
      /\ \A i \in 0 .. Left - 1 : i \in 0 .. Left' - 1
  <2>1. /\ Left \in 0 .. setup.entries - 1 /\ (Left' = Left + 1 \/ Left' = Left)
        /\ \A i \in 0 .. Left - 1 : EntryAt(i)' = EntryAt(i)
        /\ \A i \in 0 .. Left' - 1 : i \in 0 .. Left - 1 \/ i = L
    BY <1>4, SubmitEntries, Zenon DEF FifoInv
  <2>2. \A i \in 0 .. Left - 1 : i \in 0 .. Left' - 1
    BY <2>1
  <2>3. QED
    BY <2>1, <2>2, Zenon
<1> HIDE DEF E, H
<1>6. Reachable \subseteq Reachable' /\ Reachable' \subseteq Reachable \cup {E}
  <2>1. Active' <=> Active
    BY <1>1, <1>2, Zenon DEF Active
  <2>2. {EntryAt(i) : i \in 0 .. Left - 1} \subseteq {EntryAt(i) : i \in 0 .. Left - 1}'
    BY <1>5, Zenon
  <2>3. {EntryAt(i) : i \in 0 .. Left - 1}' \subseteq {EntryAt(i) : i \in 0 .. Left - 1} \cup {E}
    BY <1>4, <1>5, Zenon
  <2>4. QED
    BY <1>1, <2>1, <2>2, <2>3, Zenon DEF Reachable
<1>7. Lent' = Lent
  BY <1>1, <1>2, Zenon DEF Lent
<1>8. Accesses = (UNION {Uses(e) : e \in Reachable}) \cup Lent
  BY AccessesAre, Zenon DEF FifoInv
<1>9. (Accesses = (UNION {Uses(e) : e \in Reachable}) \cup Lent)'
  BY AccessesAre, PTL DEF FifoInv
<1>10. Accesses' = (UNION {Uses(e) : e \in Reachable'}) \cup Lent'
  BY <1>9, Zenon DEF Uses
<1>11. Accesses \subseteq Accesses' /\ Accesses' \ Accesses \subseteq Uses(E)
  BY <1>6, <1>7, <1>8, <1>10, Zenon
<1>12. \A a \in Accesses' \ Accesses : \E h : a = <<w, h>>
  BY <1>11, Zenon DEF Uses
<1>13. w \in Works
  <2>1. qgen \in 1 .. MaxQueueGeneration
    BY Numbers, QueueGenerationAssumption DEF FifoInv, RingInv
  <2>2. nextSequence \in Nat /\ nextSequence + 1 \in 0 .. MaxSequence
    BY <1>1, Numbers DEF FifoInv, RingInv, FifoTypeOK, Sequences
  <2>3. nextSequence + 1 \in -1 .. MaxSequence
    BY <2>2, SequenceAssumption
  <2>4. E.gen = qgen /\ E.seq = nextSequence + 1
    BY Zenon DEF E, Entry
  <2>5. QED
    BY <2>1, <2>3, <2>4, Zenon DEF Works
<1> HIDE DEF w
<1>14. QED
  BY <1>3, <1>11, <1>12, <1>13, FifoBegins, Zenon

\* Every other step of the queue and of the channel ends accesses at most.
LEMMA ShrinkRefines ==
    ASSUME FifoInv, FifoInv',
           \/ \E S \in SUBSET JobIds : Expire(S) \/ \E n \in Sequences : Poll(n, S)
           \/ \E j \in JobIds : RetireJob(j)
           \/ \E done \in BOOLEAN : Reset(done)
           \/ Fetch \/ Finish
    PROVE  Ownership!Next
<1>1. CASE \/ \E S \in SUBSET JobIds : Expire(S) \/ \E n \in Sequences : Poll(n, S)
           \/ \E j \in JobIds : RetireJob(j)
  <2>1. UNCHANGED <<slots, quiesced, setup, qgen, bound, channel>>
    BY <1>1, Zenon DEF Expire, Poll, RetireJob, ReleaseJobs, OtherMemory, ownerVars, owner
  <2>2. Reachable' = Reachable /\ Lent' = Lent
    BY <2>1, Zenon DEF Reachable, Lent, Active, EntryAt, Left, Bound, channel
  <2>3. QED
    BY <2>1, <2>2, FifoShrinks, Zenon
<1>2. ASSUME NEW done \in BOOLEAN, Reset(done) PROVE Ownership!Next
  <2>1. halted' = TRUE /\ slots' = slots /\ quiesced' = quiesced
    BY <1>2, Zenon DEF Reset, OtherMemory
  <2>2. lease' = FALSE \/ (lease' = lease /\ qgen' = qgen /\ bound' = bound)
    BY <1>2, Zenon DEF Reset
  <2>3. Reachable' = {}
    BY <2>1, Zenon DEF Reachable, Active
  <2>4. CASE lease' = FALSE
    BY <2>1, <2>3, <2>4, FifoShrinks, Zenon DEF Lent
  <2>5. CASE lease' = lease /\ qgen' = qgen /\ bound' = bound
    BY <2>1, <2>3, <2>5, FifoShrinks, Zenon DEF Lent, Bound
  <2>6. QED
    BY <2>2, <2>4, <2>5, Zenon
<1>3. CASE Fetch
  <2>1. /\ UNCHANGED <<slots, quiesced, lease, halted, qgen, bound>>
        /\ running' = running \cup {ring[get]}
    BY <1>3, Zenon DEF Fetch, queue, ownerVars, owner
  <2>2. PICK z : z = 0
    BY Zenon
  <2>3. ring[get] = EntryAt(z) /\ z \in 0 .. Left - 1
    <3>1. Left \in 1 .. setup.entries - 1 /\ setup.entries \in Nat
      BY <1>3, FetchEntries, Numbers DEF FifoInv, RingInv
    <3>2. ring[get] = EntryAt(0)
      BY <1>3, FetchEntries, Zenon DEF FifoInv
    <3>3. QED
      BY <2>2, <3>1, <3>2
  <2>4. \A i \in 0 .. Left' - 1 : \E k \in 0 .. Left - 1 : EntryAt(i)' = EntryAt(k)
    BY <1>3, FetchEntries, Zenon DEF FifoInv
  <2>5. {EntryAt(i) : i \in 0 .. Left - 1}' \subseteq {EntryAt(i) : i \in 0 .. Left - 1}
    BY <2>4, Zenon
  <2>6. Reachable' \subseteq Reachable /\ Lent' = Lent
    BY <2>1, <2>3, <2>5, Zenon DEF Reachable, Lent, Active, Bound
  <2>7. QED
    BY <2>1, <2>6, FifoShrinks, Zenon
<1>4. CASE Finish
  <2>1. /\ UNCHANGED <<slots, quiesced, lease, halted, qgen, bound, setup, ring, get,
                       fetched, visible>>
        /\ running' \subseteq running
    BY <1>4, Zenon DEF Finish, queue, ownerVars, owner
  <2>2. Reachable' \subseteq Reachable /\ Lent' = Lent
    BY <2>1, Zenon DEF Reachable, Lent, Active, EntryAt, Left, Bound
  <2>3. QED
    BY <2>1, <2>2, FifoShrinks, Zenon
<1>5. QED
  BY <1>1, <1>2, <1>3, <1>4, Zenon

\* Every step is a step of the contract.
LEMMA FifoRefines ==
    FifoInv /\ FifoInv' /\ [FifoNext]_fifoVars => [Ownership!Next]_(Ownership!ownershipVars)
<1> SUFFICES ASSUME FifoInv, FifoInv', [FifoNext]_fifoVars PROVE Ownership!Next
  OBVIOUS
<1>1. QuietCall => Ownership!Next
  BY QuietRefines, Zenon
<1>2. ProperStep => Ownership!Next
  BY BindRefines, SubmitRefines, ShrinkRefines, Zenon DEF ProperStep
<1>3. QED
  BY <1>1, <1>2, StepKinds, Zenon

\* GPFIFO queue, channel and memory owner together implement the ownership
\* contract: the channel is only ever given owned memory, and the owner reclaims
\* none that the channel can still reach.
THEOREM FifoImplementsOwnership == FifoSpec => ImplementsOwnership
<1>1. FifoInit => Ownership!Init
  <2> SUFFICES ASSUME FifoInit PROVE Ownership!Init
    OBVIOUS
  <2>1. RingInv
    BY FifoStarts, Zenon DEF FifoInv
  <2>2. ~lease
    BY Zenon DEF FifoInit
  <2>3. Reachable = {} /\ Lent = {}
    BY <2>2, Zenon DEF Reachable, Active, Lent
  <2>4. Accesses = {}
    BY <2>1, <2>3, AccessesAre, Zenon
  <2>5. QED
    BY <2>4, Zenon DEF Ownership!Init
<1>2. QED
  BY <1>1, FifoInvariant, FifoRefines, PTL DEF FifoSpec, ImplementsOwnership, Ownership!Spec
=============================================================================
