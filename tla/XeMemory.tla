------------------------------ MODULE XeMemory ------------------------------
(***************************************************************************)
(* XeMemory::VirtualMemory (Mellow/XeMemory.cpp): fixed-capacity records   *)
(* of GPU virtual-address allocations, their DMA pins, GPU bindings, job   *)
(* holds and quarantine.  Addresses and sizes are counted in 4 KiB pages.  *)
(*                                                                         *)
(* Calls are serialised by the caller, so one action is one call; the      *)
(* Backend's answers are inputs.  pte, pins and completed are the world    *)
(* behind the Backend: which allocation generation a GPU page maps, whose  *)
(* backing pages are pinned, and how far every fence timeline has run.     *)
(***************************************************************************)
EXTENDS Integers, FiniteSets, FiniteSetsExt

CONSTANTS
    Capacity,         \* capacity_: number of allocation records
    Owners,           \* client identities (never 0)
    NoOwner,          \* owner 0, carried by excluded intervals
    FirstVa, LimitVa, \* first_, limit_, in pages
    Sizes,            \* allocation sizes tried, in pages
    Alignments,       \* reserve() alignments tried, in pages
    MaxGeneration,    \* nextGeneration_ bound (UINT64_MAX in the code)
    MaxUses,          \* activeUses bound (UINT32_MAX in the code)
    Timelines,        \* fence timelines of recordUse()
    MaxValue          \* fence values are 1..MaxValue

ASSUME CapacityAssumption == Capacity \in Nat \ {0}
ASSUME OwnerAssumption == NoOwner \notin Owners
ASSUME VaAssumption == FirstVa \in Nat /\ LimitVa \in Nat /\ FirstVa < LimitVa
ASSUME SizeAssumption == Sizes \subseteq Nat \ {0}
ASSUME AlignmentAssumption == Alignments \subseteq Nat \ {0}
ASSUME MaxGenerationAssumption == MaxGeneration \in Nat \ {0}
ASSUME MaxUsesAssumption == MaxUses \in Nat \ {0}
ASSUME MaxValueAssumption == MaxValue \in Nat

VARIABLES
    slots,          \* slots_ without activeUses
    activeUses,     \* activeUses of every record
    nextGeneration, \* nextGeneration_
    pte,            \* GPU: generation mapped at every page, 0 if none
    pins,           \* backend: generations whose backing is pinned
    completed,      \* device: value reached on every timeline
    recorded        \* every use that recordUse() accepted

vmVars == <<slots, activeUses, nextGeneration, pte, pins, completed, recorded>>

Slots == 0 .. Capacity - 1
Pages == FirstVa .. LimitVa - 1

\* Handle {slot, generation}
Handle == [slot : Slots, generation : 1 .. MaxGeneration - 1]

\* Fence {timeline, value}; no fence is value 0.
Fence == [timeline : Timelines, value : 1 .. MaxValue]
NoFence == [timeline |-> NoOwner, value |-> 0]

\* Allocation {}
FreeAllocation == [state |-> "Free", owner |-> NoOwner, generation |-> 0,
                   address |-> 0, pages |-> 0, pin |-> "none",
                   lastUse |-> NoFence]

\* initialize()
VmInit ==
    /\ slots = [s \in Slots |-> FreeAllocation]
    /\ activeUses = [s \in Slots |-> 0]
    /\ nextGeneration = 1
    /\ pte = [p \in Pages |-> 0]
    /\ pins = {}
    /\ completed = [t \in Timelines |-> 0]
    /\ recorded = {}

-----------------------------------------------------------------------------
\* The pages of a half-open interval.
Span(address, pages) == address .. address + pages - 1

SpanOf(s) == Span(slots[s].address, slots[s].pages)

\* Faulty variant: a record is taken to end one page early.
OverlapsShort(s, address, pages) ==
    /\ slots[s].state # "Free"
    /\ address + 1 < slots[s].address + slots[s].pages
    /\ slots[s].address < address + pages

\* available(): inside the space and overlapping no record in use.
Overlaps(s, address, pages) ==
    /\ slots[s].state # "Free"
    /\ address < slots[s].address + slots[s].pages
    /\ slots[s].address < address + pages

Available(address, pages) ==
    /\ address \in Pages /\ address + pages <= LimitVa
    /\ \A s \in Slots : ~Overlaps(s, address, pages)

IsFirstFreeSlot(s) ==
    /\ slots[s].state = "Free"
    /\ \A t \in Slots : slots[t].state = "Free" => s <= t

\* insert(): the first free record gets a fresh generation.
Insert(owner, address, pages, state) ==
    /\ Available(address, pages)
    /\ nextGeneration # MaxGeneration
    /\ \E s \in Slots :
          /\ IsFirstFreeSlot(s)
          /\ slots' = [slots EXCEPT ![s] =
                [FreeAllocation EXCEPT
                    !.state = state, !.owner = owner, !.address = address,
                    !.pages = pages, !.generation = nextGeneration]]
          /\ activeUses' = [activeUses EXCEPT ![s] = 0]
    /\ nextGeneration' = nextGeneration + 1
    /\ UNCHANGED <<pte, pins, completed, recorded>>

Exclude(address, pages) == Insert(NoOwner, address, pages, "Excluded")

ReserveAt(owner, address, pages) == Insert(owner, address, pages, "Reserved")

\* Faulty variant: the candidate after a conflict is not realigned.
AlignUpNot(value, alignment) == value

AlignUp(value, alignment) ==
    ((value + alignment - 1) \div alignment) * alignment

NoFit == -1

\* The search loop of reserve(): from an aligned candidate, past the end of
\* the furthest record in the way, to the next aligned candidate.
Fit(pages, alignment) ==
    LET Blocking(c) == {s \in Slots : Overlaps(s, c, pages)}
        Next(c) == AlignUp(Max({slots[s].address + slots[s].pages :
                                   s \in Blocking(c)}), alignment)
        search[c \in 0 .. LimitVa + Max(Alignments)] ==
            IF c + pages > LimitVa THEN NoFit
            ELSE IF Blocking(c) = {} THEN c ELSE search[Next(c)]
    IN  search[AlignUp(FirstVa, alignment)]

\* reserve(): first fit.
Reserve(owner, pages, alignment) ==
    /\ Fit(pages, alignment) # NoFit
    /\ Insert(owner, Fit(pages, alignment), pages, "Reserved")

-----------------------------------------------------------------------------
\* lookup() returning Ok for a record in one of the given states.
Lookup(owner, h, states) ==
    /\ slots[h.slot].state \in states \ {"Free", "Excluded", "Quarantined"}
    /\ slots[h.slot].generation = h.generation
    /\ slots[h.slot].owner = owner

\* pin() with a complete receipt of valid DMA pages.  A failure without a
\* receipt, or an invalid receipt that could be unpinned, changes nothing.
Pin(owner, h) ==
    /\ Lookup(owner, h, {"Reserved"})
    /\ slots' = [slots EXCEPT ![h.slot].state = "Pinned", ![h.slot].pin = "valid"]
    /\ pins' = pins \cup {h.generation}
    /\ UNCHANGED <<activeUses, nextGeneration, pte, completed, recorded>>

\* pin() failing with a receipt left over, or with an invalid receipt that
\* could not be unpinned.
PinUncertain(owner, h) ==
    /\ Lookup(owner, h, {"Reserved"})
    /\ slots' = [slots EXCEPT ![h.slot].state = "Quarantined",
                              ![h.slot].pin = "partial"]
    /\ pins' = pins \cup {h.generation}
    /\ UNCHANGED <<activeUses, nextGeneration, pte, completed, recorded>>

\* GPU page-table entries of the pages P now hold generation g.
Mapping(P, g) == [p \in Pages |-> IF p \in P THEN g ELSE pte[p]]

\* bind(): Ok, or a failure other than Unavailable that reached the pages P.
Bind(owner, h) ==
    /\ Lookup(owner, h, {"Pinned"})
    /\ slots' = [slots EXCEPT ![h.slot].state = "Bound"]
    /\ pte' = Mapping(SpanOf(h.slot), h.generation)
    /\ UNCHANGED <<activeUses, nextGeneration, pins, completed, recorded>>

\* Faulty variant: a failed bind is taken to have changed nothing.
BindUncertainKept(owner, h, P) ==
    /\ Lookup(owner, h, {"Pinned"})
    /\ P \subseteq SpanOf(h.slot)
    /\ pte' = Mapping(P, h.generation)
    /\ UNCHANGED <<slots, activeUses, nextGeneration, pins, completed, recorded>>

BindUncertain(owner, h, P) ==
    /\ Lookup(owner, h, {"Pinned"})
    /\ P \subseteq SpanOf(h.slot)
    /\ slots' = [slots EXCEPT ![h.slot].state = "Quarantined"]
    /\ pte' = Mapping(P, h.generation)
    /\ UNCHANGED <<activeUses, nextGeneration, pins, completed, recorded>>

RetainUse(owner, h) ==
    /\ Lookup(owner, h, {"Bound"})
    /\ activeUses[h.slot] # MaxUses
    /\ activeUses' = [activeUses EXCEPT ![h.slot] = @ + 1]
    /\ UNCHANGED <<slots, nextGeneration, pte, pins, completed, recorded>>

ReleaseUse(owner, h) ==
    /\ Lookup(owner, h, {"Bound", "Retiring"})
    /\ activeUses[h.slot] # 0
    /\ activeUses' = [activeUses EXCEPT ![h.slot] = @ - 1]
    /\ UNCHANGED <<slots, nextGeneration, pte, pins, completed, recorded>>

\* Faulty variant: fences of different timelines are compared by value.
RecordableAnyTimeline(last, fence) == fence.value > last.value

\* recordUse(): one timeline per allocation, values strictly increasing.
Recordable(last, fence) ==
    /\ last.value = 0 \/ last.timeline = fence.timeline
    /\ fence.value > last.value

RecordUse(owner, h, fence) ==
    /\ Lookup(owner, h, {"Bound"})
    /\ Recordable(slots[h.slot].lastUse, fence)
    /\ slots' = [slots EXCEPT ![h.slot].lastUse = fence]
    /\ recorded' = recorded \cup {[generation |-> h.generation, fence |-> fence]}
    /\ UNCHANGED <<activeUses, nextGeneration, pte, pins, completed>>

RetireMapping(owner, h) ==
    /\ Lookup(owner, h, {"Bound"})
    /\ slots' = [slots EXCEPT ![h.slot].state = "Retiring"]
    /\ UNCHANGED <<activeUses, nextGeneration, pte, pins, completed, recorded>>

-----------------------------------------------------------------------------
FenceComplete(fence) ==
    fence.value # 0 => completed[fence.timeline] >= fence.value

\* Faulty variant: outstanding holds are not consulted.
UnbindableHeld(s) == FenceComplete(slots[s].lastUse)

\* reclaim() may go on to unbind: no hold is left and the last recorded
\* fence has completed.
Unbindable(s) == activeUses[s] = 0 /\ FenceComplete(slots[s].lastUse)

\* *a = Allocation {}
Freed(s) ==
    /\ slots' = [slots EXCEPT ![s] = FreeAllocation]
    /\ activeUses' = [activeUses EXCEPT ![s] = 0]

Quarantined(s) ==
    /\ slots' = [slots EXCEPT ![s].state = "Quarantined"]
    /\ UNCHANGED activeUses

\* The tail of reclaim() for a record whose mapping is gone: unpin, then
\* free; a failed unpin quarantines and may or may not have let go.
Unpin(h) ==
    \/ Freed(h.slot) /\ pins' = pins \ {h.generation}
    \/ Quarantined(h.slot) /\ pins' \in {pins, pins \ {h.generation}}

ReclaimReserved(owner, h) ==
    /\ Lookup(owner, h, {"Reserved"})
    /\ Freed(h.slot)
    /\ UNCHANGED <<nextGeneration, pte, pins, completed, recorded>>

ReclaimPinned(owner, h) ==
    /\ Lookup(owner, h, {"Pinned"})
    /\ Unpin(h)
    /\ UNCHANGED <<nextGeneration, pte, completed, recorded>>

\* reclaim() of a retiring mapping: unbind Ok, then the unpin tail.
ReclaimRetiring(owner, h) ==
    /\ Lookup(owner, h, {"Retiring"})
    /\ Unbindable(h.slot)
    /\ pte' = Mapping(SpanOf(h.slot), 0)
    /\ Unpin(h)
    /\ UNCHANGED <<nextGeneration, completed, recorded>>

\* reclaim() whose unbind failed after clearing the pages P.
ReclaimUncertain(owner, h, P) ==
    /\ Lookup(owner, h, {"Retiring"})
    /\ Unbindable(h.slot)
    /\ P \subseteq SpanOf(h.slot)
    /\ pte' = Mapping(P, 0)
    /\ Quarantined(h.slot)
    /\ UNCHANGED <<nextGeneration, pins, completed, recorded>>

\* The device makes progress on a fence timeline.
TimelineAdvances(t) ==
    /\ completed[t] < MaxValue
    /\ completed' = [completed EXCEPT ![t] = @ + 1]
    /\ UNCHANGED <<slots, activeUses, nextGeneration, pte, pins, recorded>>

\* Calls that choose the place of a record.
PlacementStep ==
    \E address \in Pages, n \in Sizes :
        Exclude(address, n) \/ \E o \in Owners : ReserveAt(o, address, n)

\* Client calls, each with any handle: a live one, a stale one or one of
\* another owner.
ClientStep ==
    \/ \E o \in Owners, n \in Sizes, a \in Alignments : Reserve(o, n, a)
    \/ \E o \in Owners, h \in Handle :
          \/ Pin(o, h) \/ PinUncertain(o, h)
          \/ Bind(o, h) \/ \E P \in SUBSET Pages : BindUncertain(o, h, P)
          \/ \E f \in Fence : RecordUse(o, h, f)
          \/ RetireMapping(o, h)
          \/ ReclaimReserved(o, h) \/ ReclaimPinned(o, h) \/ ReclaimRetiring(o, h)
          \/ \E P \in SUBSET Pages : ReclaimUncertain(o, h, P)
    \/ \E t \in Timelines : TimelineAdvances(t)

\* retainUse() and releaseUse() are the trusted scheduler's.
VmNext ==
    \/ PlacementStep
    \/ ClientStep
    \/ \E o \in Owners, h \in Handle : RetainUse(o, h) \/ ReleaseUse(o, h)

VmSpec == VmInit /\ [][VmNext]_vmVars

-----------------------------------------------------------------------------
\* Every page the GPU maps lies in the interval of a record that still owns
\* it, and that record's backing is still pinned: whatever pin, bind, unbind
\* and unpin failures happen, no GPU translation outlives its memory.
MappedIsPinned ==
    \A p \in Pages : pte[p] # 0 =>
        /\ pte[p] \in pins
        /\ \E s \in Slots :
              /\ slots[s].state \in {"Bound", "Retiring", "Quarantined"}
              /\ slots[s].generation = pte[p]
              /\ p \in SpanOf(s)

\* The records in use cover disjoint intervals inside the space, excluded
\* and quarantined ones included, and carry distinct generations, so that a
\* stale handle never names a reused record.
RecordsDisjoint ==
    \A s, t \in Slots : slots[s].state # "Free" =>
        /\ SpanOf(s) \subseteq Pages
        /\ slots[s].generation < nextGeneration
        /\ (s # t /\ slots[t].state # "Free") =>
              /\ SpanOf(s) \cap SpanOf(t) = {}
              /\ slots[s].generation # slots[t].generation

\* While any recorded fence of an allocation is incomplete, its mapping is in
\* place: checking only the last fence of one timeline covers them all.
RecordedWorkMapped ==
    \A r \in recorded : ~FenceComplete(r.fence) =>
        \E s \in Slots : /\ slots[s].generation = r.generation
                         /\ slots[s].state \in {"Bound", "Retiring"}

\* reserve() finds the lowest aligned interval that is available, and finds
\* one whenever there is one.
FirstFit ==
    \A n \in Sizes, a \in Alignments :
        LET fitting == {c \in Pages : c % a = 0 /\ Available(c, n)}
        IN  Fit(n, a) = IF fitting = {} THEN NoFit ELSE Min(fitting)
=============================================================================
