---------------------------- MODULE MemoryOwner ----------------------------
(***************************************************************************)
(* MellowNative::MemoryOwner (Drivers/NativeGpu/MemoryOwner.cpp): the DMA  *)
(* allocations of one device and epoch, their GPU mappings, job holds,     *)
(* quota, quarantine, quiescence and reverse-order teardown.               *)
(*                                                                         *)
(* Calls are serialised by the caller, so one action is one call and the   *)
(* MemoryBackend's answers are inputs.  The last group of variables is the *)
(* world behind the backend.  A call refused for its arguments, for a      *)
(* stale or foreign handle or for lost admission changes nothing.          *)
(***************************************************************************)
EXTENDS Integers, FiniteSets, FiniteSetsExt

CONSTANTS
    MaxAllocations, \* number of slots (32 in the code)
    Sizes,          \* allocation sizes tried
    MaxTotal,       \* maxTotalBytes
    MaxGeneration,  \* generation_ bound (UINT64_MAX in the code)
    MaxHolds,       \* jobHolds bound (UINT32_MAX in the code)
    Careless,       \* the backend may answer with backing it already gave out
    Consumers       \* the device has consumers that take no job hold

ASSUME AllocationsAssumption == MaxAllocations \in Nat \ {0}
ASSUME SizesAssumption == Sizes \subseteq Nat \ {0}
ASSUME TotalAssumption == MaxTotal \in Nat
ASSUME GenerationAssumption == MaxGeneration \in Nat \ {0}
ASSUME HoldsAssumption == MaxHolds \in Nat \ {0}
ASSUME WorldAssumption == Careless \in BOOLEAN /\ Consumers \in BOOLEAN

VARIABLES
    slots,      \* slots_ without jobHolds
    holds,      \* jobHolds of every slot
    generation, \* generation_
    charged,    \* charged_
    draining, quiesced, closed, \* draining_, quiesced_, closed_
    pinned,     \* generations whose DMA backing may exist
    mapped,     \* generations the GPU may translate to
    users,      \* generations used by consumers without a hold
    strays,     \* generations used through mappings in an uncertain state
    ended,      \* generations for which retired() has been proven
    written     \* generations written by the device since the last ForCpu sync

consumers == <<users, strays, ended>>
world == <<pinned, mapped, consumers, written>>
owner == <<slots, holds, generation, charged, draining, quiesced, closed>>
ownerVars == <<owner, world>>

Slots == 0 .. MaxAllocations - 1
Generations == 1 .. MaxGeneration - 1
Handle == [slot : Slots, generation : Generations]

\* A pin or a mapping is named by the generation that first got that backing
\* or that address; none and malformed are the other two kinds of answer.
NoToken == 0
BadToken == -1
Token == Generations \cup {NoToken, BadToken}

EmptySlot == [state |-> "Empty", generation |-> 0, bytes |-> 0, pin |-> NoToken,
              mapping |-> NoToken, mapAttempted |-> FALSE,
              mappingUncertain |-> FALSE, cpuSynchronized |-> FALSE]

\* initialize()
OwnerInit ==
    /\ slots = [s \in Slots |-> EmptySlot]
    /\ holds = [s \in Slots |-> 0]
    /\ generation = 1 /\ charged = 0
    /\ draining = FALSE /\ quiesced = FALSE /\ closed = FALSE
    /\ pinned = {} /\ mapped = {} /\ written = {}
    /\ users = {} /\ strays = {} /\ ended = {}

-----------------------------------------------------------------------------
Live == ~closed /\ ~draining

Lookup(h) ==
    slots[h.slot].state # "Empty" /\ slots[h.slot].generation = h.generation

InUse == {s \in Slots : slots[s].state # "Empty"}

\* Tokens the backend can answer with: a new one, nothing, a malformed one, or
\* one that another slot has.
Answers(g, Others) == {g, NoToken, BadToken} \cup IF Careless THEN Others ELSE {}

Exclusive(token, Others) == token > 0 /\ token \notin Others

PinsBut(T, s) == {slots[t].pin : t \in T \ {s}}
MappingsBut(s) ==
    {slots[t].mapping : t \in {u \in Slots \ {s} : slots[u].mapAttempted}}

\* validPin(), against the slots of T, and validMapping().
ValidPin(s, T) == Exclusive(slots[s].pin, PinsBut(T, s))
ValidMapping(s) ==
    slots[s].mapAttempted /\ Exclusive(slots[s].mapping, MappingsBut(s))

\* The first empty slot.
IsFirstEmpty(s) ==
    s \notin InUse /\ \A t \in Slots : t \notin InUse => s <= t

\* The quota.
Affordable(bytes) == charged + bytes <= MaxTotal

\* allocate(): the pin is accepted, rejected without trace (the generation is
\* used up), or anything else, which is quarantined and stops admission.
Allocate(bytes) ==
    /\ Live /\ generation # MaxGeneration /\ Affordable(bytes)
    /\ generation' = generation + 1
    /\ \E s \in Slots, ok \in BOOLEAN :
          \E pin \in Answers(generation, PinsBut(InUse, s)) :
             LET accepted == ok /\ Exclusive(pin, PinsBut(InUse, s))
                 slot == [EmptySlot EXCEPT !.generation = generation,
                             !.bytes = bytes, !.pin = pin,
                             !.state = IF accepted THEN "Pinned" ELSE "Quarantined"]
             IN /\ IsFirstEmpty(s)
                /\ slots' = [slots EXCEPT ![s] = slot]
                /\ charged' = charged + bytes
                /\ draining' = ~accepted
                /\ pinned' \in {pinned \cup {generation}}
                               \cup IF pin = NoToken THEN {pinned} ELSE {}
    /\ UNCHANGED <<holds, quiesced, closed, mapped, consumers, written>>

AllocateRejected(bytes) ==
    /\ Live /\ generation # MaxGeneration /\ Affordable(bytes)
    /\ InUse # Slots
    /\ generation' = generation + 1
    /\ UNCHANGED <<slots, holds, charged, draining, quiesced, closed, world>>

\* quarantine()
Quarantine(s, slot) ==
    /\ slots' = [slots EXCEPT ![s] = [slot EXCEPT !.state = "Quarantined"]]
    /\ draining' = TRUE

\* Only a slot, the admission and the world may change.
OnlySlot == UNCHANGED <<holds, generation, charged, quiesced, closed>>

\* map() with a valid pin: Unavailable, with no mapping; success; or anything
\* else, which may have reached the GPU.
Mappable(h) ==
    /\ Lookup(h) /\ Live
    /\ slots[h.slot].state = "Pinned" /\ holds[h.slot] = 0
    /\ ValidPin(h.slot, InUse)

MapUnavailable(h) ==
    /\ Mappable(h)
    /\ slots' = [slots EXCEPT ![h.slot].cpuSynchronized = FALSE]
    /\ OnlySlot /\ UNCHANGED <<draining, world>>

\* Faulty variant: a failed map is taken to have published nothing.
MapFailedClean(slot) == [slot EXCEPT !.mapAttempted = FALSE]
MapFailed(slot) == [slot EXCEPT !.mappingUncertain = TRUE]

Map(h) ==
    /\ Mappable(h)
    /\ \E ok \in BOOLEAN, address \in Answers(h.generation, MappingsBut(h.slot)) :
          LET slot == [slots[h.slot] EXCEPT !.cpuSynchronized = FALSE,
                          !.mapAttempted = TRUE, !.mapping = address]
          IN IF ok /\ Exclusive(address, MappingsBut(h.slot))
             THEN /\ slots' = [slots EXCEPT ![h.slot] = [slot EXCEPT !.state = "Mapped"]]
                  /\ mapped' = mapped \cup {h.generation}
                  /\ UNCHANGED draining
             ELSE /\ Quarantine(h.slot, MapFailed(slot))
                  /\ mapped' \in {mapped, mapped \cup {h.generation}}
    /\ OnlySlot /\ UNCHANGED <<pinned, consumers, written>>

-----------------------------------------------------------------------------
\* A mapping that retain() and synchronizeRetained() quarantine.
Doubtful(s) == ~ValidPin(s, InUse) \/ ~ValidMapping(s)

\* Faulty variant: an earlier CPU synchronization is not forgotten.
RetainedSlotSynced(slot) == slot
RetainedSlot(slot) == [slot EXCEPT !.cpuSynchronized = FALSE]

Retainable(h) ==
    /\ Lookup(h) /\ Live /\ slots[h.slot].state = "Mapped" /\ ~Doubtful(h.slot)
    /\ holds[h.slot] # MaxHolds

Retain(h) ==
    /\ Retainable(h)
    /\ holds' = [holds EXCEPT ![h.slot] = @ + 1]
    /\ slots' = [slots EXCEPT ![h.slot] = RetainedSlot(@)]
    /\ UNCHANGED <<generation, charged, draining, quiesced, closed, world>>

\* The queue releases once the device is done with the job.
Release(h) ==
    /\ Lookup(h) /\ holds[h.slot] # 0
    /\ holds' = [holds EXCEPT ![h.slot] = @ - 1]
    /\ UNCHANGED <<slots, generation, charged, draining, quiesced, closed, world>>

\* retired(): no consumer is left, nor will there be one without a job hold.
Retired(g) == g \notin users

\* sync() ForCpu or ForDevice, on a slot without holds.
Sync(h) ==
    /\ Lookup(h) /\ Live /\ holds[h.slot] = 0
    /\ slots[h.slot].state \in {"Pinned", "Mapped"} /\ ValidPin(h.slot, InUse)
    /\ slots[h.slot].mapAttempted => Retired(h.generation)
    /\ ended' = ended \cup IF slots[h.slot].mapAttempted THEN {h.generation} ELSE {}
    /\ \E forCpu \in BOOLEAN :
          /\ slots' = [slots EXCEPT ![h.slot].cpuSynchronized = forCpu]
          /\ written' = written \ IF forCpu THEN {h.generation} ELSE {}
    /\ OnlySlot /\ UNCHANGED <<draining, pinned, mapped, users, strays>>

\* synchronizeRetained(): visibility only.
SyncRetained(h) ==
    /\ Lookup(h) /\ Live /\ holds[h.slot] # 0
    /\ slots[h.slot].state = "Mapped" /\ ~Doubtful(h.slot)
    /\ slots' = [slots EXCEPT ![h.slot] = RetainedSlot(@)]
    /\ written' \in {written, written \ {h.generation}}
    /\ OnlySlot /\ UNCHANGED <<draining, pinned, mapped, consumers>>

\* A pin that turned out invalid or a failed synchronization, in map(), sync()
\* or synchronizeRetained().
SynchronizeFails(h) ==
    /\ Lookup(h) /\ Live /\ slots[h.slot].state \in {"Pinned", "Mapped"}
    /\ \/ holds[h.slot] # 0 \/ ~slots[h.slot].mapAttempted
       \/ Retired(h.generation) \/ ~ValidPin(h.slot, InUse)
    /\ Quarantine(h.slot, slots[h.slot])
    /\ OnlySlot /\ UNCHANGED world

\* retain() or synchronizeRetained() of a mapping that is no longer valid.  The
\* list of DMA pages is the backend's, and a careless one may spoil it any time.
Doubted(h) ==
    /\ Lookup(h) /\ Live /\ slots[h.slot].state = "Mapped"
    /\ Doubtful(h.slot) \/ Careless
    /\ Quarantine(h.slot, [slots[h.slot] EXCEPT !.mappingUncertain = TRUE])
    /\ OnlySlot /\ UNCHANGED world

-----------------------------------------------------------------------------
\* retire() and cleanup() leave a slot alone while jobs hold it.
Unheld(s) == holds[s] = 0

\* cleanup(): may go on to synchronize and unmap.  stopped is quiesced_.
\* Faulty variant: an uncertain mapping is unmapped without a stop.
UnmappableUncertain(s, slot, stopped, T) ==
    (stopped \/ Retired(slot.generation)) /\ ValidPin(s, T)

Unmappable(s, slot, stopped, T) ==
    /\ slot.mappingUncertain => stopped
    /\ stopped \/ Retired(slot.generation)
    /\ ValidPin(s, T)

\* What cleanup() leaves of a slot, of its backing and translation, and
\* whether it made the device's writes visible to the CPU.
Outcome(slot, visible, map, pin) ==
    [slot |-> slot, visible |-> visible, map |-> map, pin |-> pin]

\* The step at which cleanup() stops: a job or consumer is left, the mapping
\* or pin is doubtful or not synchronized, unmap fails, unpin fails, or none.
Outcomes(s, slot, stopped, T) ==
    LET held == [slot EXCEPT !.state = "Quarantined"]
        unmapped == [held EXCEPT !.mapping = NoToken, !.mapAttempted = FALSE,
                        !.mappingUncertain = FALSE,
                        !.cpuSynchronized = @ \/ slot.mapAttempted]
        syncs == slot.mapAttempted /\ ~slot.cpuSynchronized
        Busy == {Outcome(slot, FALSE, TRUE, TRUE)}
        Doubt == {Outcome(held, FALSE, TRUE, TRUE)}
        UnmapFails == {Outcome([held EXCEPT !.cpuSynchronized = TRUE,
                                            !.mappingUncertain = TRUE],
                               syncs, map, TRUE) : map \in BOOLEAN}
        Unmapped == {Outcome(unmapped, syncs, FALSE, pin) : pin \in BOOLEAN}
                    \cup {Outcome(EmptySlot, syncs, FALSE, FALSE)}
    IN  IF ~Unheld(s) THEN Busy
        ELSE IF ~slot.mapAttempted THEN Unmapped
        ELSE IF Unmappable(s, slot, stopped, T)
             THEN UnmapFails \cup Unmapped \cup IF syncs \/ Careless THEN Doubt ELSE {}
        ELSE IF slot.mappingUncertain \/ stopped \/ Retired(slot.generation)
             THEN Doubt ELSE Busy

Refunded(D, out) == {s \in D : out[s].slot.state = "Empty"}

\* The slots of D are cleaned up with the outcomes out, the others are base.
Apply(D, out, base) ==
    LET Gens(E) == {base[s].generation : s \in E}
    IN  /\ slots' = [s \in Slots |-> IF s \in D THEN out[s].slot ELSE base[s]]
        /\ charged' = charged - 
             MapThenSumSet(LAMBDA s : base[s].bytes, Refunded(D, out))
        /\ draining' = (draining \/ quiesced'
                         \/ \E s \in D : out[s].slot.state = "Quarantined")
        /\ pinned' = pinned \ Gens({s \in D : ~out[s].pin})
        /\ mapped' = mapped \ Gens({s \in D : ~out[s].map})
        /\ written' = written \ Gens({s \in D : out[s].visible})

\* retire(): no new hold from here on, even if the cleanup must be retried.
Retire(h) ==
    /\ Lookup(h) /\ Unheld(h.slot)
    /\ UNCHANGED <<holds, generation, quiesced, closed, users, strays>>
    /\ LET slot == [slots[h.slot] EXCEPT !.state =
                       IF @ = "Quarantined" THEN @ ELSE "Retiring"]
       IN \E o \in Outcomes(h.slot, slot, quiesced, InUse) :
             /\ Apply({h.slot}, [s \in {h.slot} |-> o], slots)
             /\ ended' = ended \cup IF slot.mapAttempted /\ Retired(h.generation)
                                    THEN {h.generation} ELSE {}

\* quiesce(): admission stops first; an earlier CPU synchronization may have
\* preceded late DMA.
Unsynchronized(slot) == [slot EXCEPT !.cpuSynchronized = FALSE]

Quiesced == [s \in Slots |-> Unsynchronized(slots[s])]

Quiesce ==
    /\ ~closed /\ ~quiesced
    /\ draining' = TRUE /\ quiesced' = TRUE
    /\ slots' = Quiesced
    /\ users' = {} /\ strays' = {}
    /\ UNCHANGED <<holds, generation, charged, closed, pinned, mapped, ended, written>>

QuiesceFails ==
    /\ ~closed /\ ~quiesced
    /\ draining' = TRUE
    /\ slots' = [s \in Slots |-> IF s \notin InUse THEN slots[s] ELSE
                    [Quiesced[s] EXCEPT !.state = "Quarantined",
                                        !.mappingUncertain = @ \/ slots[s].mapAttempted]]
    /\ UNCHANGED <<holds, generation, charged, quiesced, closed, world>>

\* The order in which close() cleans up.  Faulty variant: oldest first.
BeforeOldest(s, t) == slots[s].generation < slots[t].generation
Before(s, t) == slots[s].generation > slots[t].generation

\* close(): quiesce, then clean up slot after slot until one fails.
Close ==
    /\ ~closed
    /\ quiesced' = TRUE /\ users' = {} /\ strays' = {}
    /\ LET base == IF quiesced THEN slots ELSE Quiesced
           Earlier(s) == {t \in InUse : Before(t, s)}
           Can(s) == Outcomes(s, base[s], TRUE, InUse \ Earlier(s))
           Succeeds(s) == \E o \in Can(s) : o.slot.state = "Empty"
       IN \/ /\ \A s \in InUse : Succeeds(s)
             /\ Apply(InUse, [s \in InUse |-> CHOOSE o \in Can(s) :
                                              o.slot.state = "Empty"], base)
             /\ closed' = TRUE
          \/ \E last \in InUse :
                /\ \A s \in Earlier(last) : Succeeds(s)
                /\ \E o \in Can(last) :
                      /\ o.slot.state # "Empty"
                      /\ Apply(Earlier(last) \cup {last},
                               [s \in Earlier(last) \cup {last} |->
                                  IF s = last THEN o ELSE CHOOSE q \in Can(s) :
                                     q.slot.state = "Empty"], base)
                /\ UNCHANGED closed
    /\ UNCHANGED <<holds, generation, ended>>

-----------------------------------------------------------------------------
\* Jobs that hold the allocation and its other consumers write to it.
DeviceWrites(s) ==
    /\ slots[s].generation \in mapped /\ ~quiesced
    /\ holds[s] # 0 \/ slots[s].generation \in users \cup strays
    /\ written' = written \cup {slots[s].generation}
    /\ UNCHANGED <<owner, pinned, mapped, consumers>>

\* A consumer starts that retired() knows of.
ConsumerStarts(s) ==
    /\ Consumers /\ ~quiesced
    /\ slots[s].state = "Mapped" /\ slots[s].generation \notin ended
    /\ users' = users \cup {slots[s].generation}
    /\ UNCHANGED <<owner, pinned, mapped, strays, ended, written>>

ConsumerEnds(g) ==
    /\ users' = users \ {g}
    /\ UNCHANGED <<owner, pinned, mapped, strays, ended, written>>

\* The device follows a translation that nobody is sure of.
DeviceStrays(s) ==
    /\ slots[s].mappingUncertain /\ slots[s].generation \in mapped /\ ~quiesced
    /\ strays' = strays \cup {slots[s].generation}
    /\ UNCHANGED <<owner, pinned, mapped, users, ended, written>>

\* Calls of clients, with any handle.
ClientStep ==
    \/ \E bytes \in Sizes : Allocate(bytes) \/ AllocateRejected(bytes)
    \/ \E h \in Handle : MapUnavailable(h) \/ Map(h) \/ Sync(h)

RetireStep == \E h \in Handle : Retire(h)

\* Faults, and the end of the device.
StopStep ==
    \/ \E h \in Handle : SynchronizeFails(h) \/ Doubted(h)
    \/ Quiesce \/ QuiesceFails \/ Close

WorldStep ==
    \/ \E s \in Slots : DeviceWrites(s) \/ ConsumerStarts(s) \/ DeviceStrays(s)
    \/ \E g \in users : ConsumerEnds(g)

\* Calls of the queue.
HoldStep == \E h \in Handle : Retain(h) \/ Release(h) \/ SyncRetained(h)

OwnerNext == ClientStep \/ RetireStep \/ StopStep \/ HoldStep \/ WorldStep

OwnerSpec == OwnerInit /\ [][OwnerNext]_ownerVars

-----------------------------------------------------------------------------
\* No GPU translation outlives its backing, and both belong to a slot until
\* the backend has confirmed that they are gone: after close() nothing is left.
BackingIsOwned ==
    /\ mapped \subseteq pinned
    /\ \A g \in pinned : \E s \in Slots : slots[s].generation = g
    /\ \A g \in mapped : \E s \in Slots :
          slots[s].generation = g /\ slots[s].mapAttempted

\* An allocation that a job holds or another consumer uses, known or not, keeps
\* its translation and its backing through quarantine of any slot, failed
\* quiescence, retire() and close().
UsedIsMapped ==
    /\ \A s \in Slots : holds[s] # 0 => slots[s].generation \in mapped
    /\ users \cup strays \subseteq mapped

\* What the device wrote is made visible to the CPU before the backing is
\* given back: cpuSynchronized is never true across a later device write.
WritesAreVisible == written \subseteq pinned

\* Once the jobs have given their holds back, close() can always finish: if
\* the backend confirms each step, no quarantine, doubtful token or duplicate
\* receipt, in whatever order they came about, keeps a slot from being emptied.
CloseSucceeds ==
    ~closed /\ (\A s \in Slots : holds[s] = 0) => ENABLED (Close /\ closed')
=============================================================================
