-------------------------- MODULE MemoryOwnerProofs --------------------------
(***************************************************************************)
(* BackingIsOwned, UsedIsMapped and WritesAreVisible for every number of   *)
(* slots, every quota and every backend.  The invariant says of each slot  *)
(* what its state and its flags promise about the world: a mapped slot is  *)
(* translated, a translation has been attempted, a stray use has an        *)
(* uncertain mapping, and cpuSynchronized means that no write is left      *)
(* behind unless the device is still running through such a mapping.       *)
(***************************************************************************)
EXTENDS MemoryOwner, TLAPS

SlotStates == {"Empty", "Pinned", "Mapped", "Retiring", "Quarantined"}

Slot == [state : SlotStates, generation : 0 .. MaxGeneration - 1, bytes : Nat,
         pin : Token, mapping : Token, mapAttempted : BOOLEAN,
         mappingUncertain : BOOLEAN, cpuSynchronized : BOOLEAN]

\* The types of table and world.
OwnerTypeOK ==
    /\ slots \in [Slots -> Slot]
    /\ holds \in [Slots -> Nat]
    /\ generation \in 1 .. MaxGeneration
    /\ quiesced \in BOOLEAN

\* What a slot says of itself.
Sound(x) ==
    /\ x.generation < generation
    /\ x.state = "Empty" => x = EmptySlot
    /\ x.generation = 0 => x.state = "Empty"
    /\ x.state \in {"Pinned", "Mapped"} => ~x.mappingUncertain

\* What slot x with n holds promises about backing, translation and users.
Backs(x, n) ==
    /\ x.state \in {"Pinned", "Mapped"} => x.generation \in pinned
    /\ x.state = "Mapped" \/ n # 0 => x.generation \in mapped
    /\ x.generation \in mapped \cup written => x.mapAttempted
    /\ x.generation \in strays => x.mappingUncertain

\* What cpuSynchronized promises once a mapping has been attempted.
Synced(x, n) ==
    x.cpuSynchronized /\ x.mapAttempted =>
        /\ n = 0
        /\ quiesced \/ x.generation \in ended
        /\ quiesced \/ ~x.mappingUncertain => x.generation \notin written

SlotInv(s) == Sound(slots[s]) /\ Backs(slots[s], holds[s]) /\ Synced(slots[s], holds[s])

\* Generations name at most one slot.
Distinct ==
    \A s, t \in Slots : slots[s].generation = slots[t].generation =>
                            s = t \/ slots[s].generation = 0

\* The world behind the backend is known to the table.
WorldInv ==
    /\ \A g \in pinned : g # 0 /\ \E s \in Slots : slots[s].generation = g
    /\ mapped \subseteq pinned /\ written \subseteq pinned
    /\ users \subseteq mapped /\ strays \subseteq mapped
    /\ users \cap ended = {}
    /\ quiesced => users = {} /\ strays = {}

OwnerInv == OwnerTypeOK /\ (\A s \in Slots : SlotInv(s)) /\ Distinct /\ WorldInv

-----------------------------------------------------------------------------
\* The world changes, if at all, for generation g only.
OnlyFor(g) ==
    \A u : u # g => /\ u \in pinned' <=> u \in pinned
                    /\ u \in mapped' <=> u \in mapped
                    /\ u \in written' <=> u \in written
                    /\ u \in strays' <=> u \in strays
                    /\ u \in users' <=> u \in users
                    /\ u \in ended' <=> u \in ended

\* The world stays consistent for generation g.
WorldAt(g) ==
    /\ g \in mapped' => g \in pinned'
    /\ g \in written' => g \in pinned'
    /\ g \in users' \cup strays' => g \in mapped' /\ ~quiesced
    /\ g \notin users' \cap ended'

\* A slot that a step leaves alone keeps its promises, if the step changes the
\* world for another generation only.
LEMMA OtherSlot ==
    ASSUME NEW t \in Slots, SlotInv(t), NEW g, OnlyFor(g), slots[t].generation # g,
           slots'[t] = slots[t], holds'[t] = holds[t],
           generation \in Int, generation' \in Int, slots[t].generation \in Int,
           generation <= generation', quiesced' = quiesced
    PROVE  SlotInv(t)'
<1>1. Sound(slots[t])'
  BY DEF SlotInv, Sound
<1>2. Backs(slots[t], holds[t])'
  BY DEF SlotInv, Backs, OnlyFor
<1>3. Synced(slots[t], holds[t])'
  BY DEF SlotInv, Synced, OnlyFor
<1>4. QED
  BY <1>1, <1>2, <1>3 DEF SlotInv

\* A step that changes slot s, which keeps its generation g, and the world for g.
LEMMA OneSlot ==
    ASSUME OwnerInv, NEW s \in Slots, NEW y \in Slot, NEW g,
           slots' = [slots EXCEPT ![s] = y],
           g = slots[s].generation, y.generation = g, g # 0,
           holds' \in [Slots -> Nat], \A t \in Slots \ {s} : holds'[t] = holds[t],
           generation' = generation, quiesced' = quiesced, OnlyFor(g), WorldAt(g),
           Sound(y)', Backs(y, holds[s])', Synced(y, holds[s])'
    PROVE  OwnerInv'
<1> USE DEF OwnerInv
<1>1. OwnerTypeOK'
  BY ZenonT(30) DEF OwnerTypeOK
<1>2. slots'[s] = y /\ \A t \in Slots \ {s} : slots'[t] = slots[t]
  BY DEF OwnerTypeOK
<1>3. \A t \in Slots : slots'[t].generation = slots[t].generation
  BY <1>2
<1>4. Distinct'
  BY <1>3 DEF Distinct
<1>5. WorldInv'
  <2>1. \A u \in pinned' : u # 0 /\ \E t \in Slots : slots'[t].generation = u
    BY <1>3 DEF WorldInv, OnlyFor
  <2>2. mapped' \subseteq pinned' /\ written' \subseteq pinned'
    BY DEF WorldInv, OnlyFor, WorldAt
  <2>3. users' \subseteq mapped' /\ strays' \subseteq mapped'
    BY DEF WorldInv, OnlyFor, WorldAt
  <2>4. users' \cap ended' = {}
    BY DEF WorldInv, OnlyFor, WorldAt
  <2>5. quiesced' => users' = {} /\ strays' = {}
    BY DEF WorldInv, OnlyFor, WorldAt
  <2>6. QED
    BY <2>1, <2>2, <2>3, <2>4, <2>5 DEF WorldInv
<1>6. ASSUME NEW t \in Slots PROVE SlotInv(t)'
  <2>1. CASE t = s
    BY <2>1, <1>2 DEF SlotInv
  <2>2. CASE t # s
    <3>1. slots[t].generation # g
      BY <2>2 DEF Distinct
    <3>2. slots[t].generation \in Int /\ generation \in Int /\ generation' \in Int
      BY DEF OwnerTypeOK, Slot
    <3>3. SlotInv(t) /\ slots'[t] = slots[t] /\ holds'[t] = holds[t]
      BY <1>2, <2>2
    <3>4. QED
      BY <3>1, <3>2, <3>3, OtherSlot
  <2>3. QED
    BY <2>1, <2>2
<1>7. QED
  BY <1>1, <1>4, <1>5, <1>6

\* The same when the world does not change at all.
LEMMA OneSlotOnly ==
    ASSUME OwnerInv, NEW s \in Slots, NEW y \in Slot,
           slots' = [slots EXCEPT ![s] = y],
           y.generation = slots[s].generation, y.generation # 0,
           holds' \in [Slots -> Nat], \A t \in Slots \ {s} : holds'[t] = holds[t],
           UNCHANGED <<generation, quiesced, world>>,
           Sound(y)', Backs(y, holds[s])', Synced(y, holds[s])'
    PROVE  OwnerInv'
<1>1. UNCHANGED <<pinned, mapped, written, users, strays, ended>>
  BY DEF world, consumers
<1>2. OnlyFor(y.generation)
  BY <1>1 DEF OnlyFor
<1>3. WorldAt(y.generation)
  BY <1>1 DEF WorldAt, OwnerInv, WorldInv
<1>4. QED
  BY <1>2, <1>3, OneSlot, Zenon

\* A handle that lookup() accepts names a slot in use and its generation.
LEMMA LookupFacts ==
    ASSUME OwnerInv, NEW h \in Handle, Lookup(h)
    PROVE  /\ h.slot \in Slots /\ slots[h.slot] \in Slot /\ SlotInv(h.slot)
           /\ slots[h.slot].generation = h.generation /\ h.generation # 0
           /\ holds[h.slot] \in Nat
  BY DEF OwnerInv, OwnerTypeOK, Handle, Generations, Lookup

\* The assignments of a call to the fields of its slot x.
LEMMA SyncField ==
    ASSUME NEW x \in Slot, NEW b \in BOOLEAN
    PROVE  \E y \in Slot : /\ y = [x EXCEPT !.cpuSynchronized = b]
                           /\ y.state = x.state /\ y.generation = x.generation
                           /\ y.mapAttempted = x.mapAttempted
                           /\ y.mappingUncertain = x.mappingUncertain
                           /\ y.cpuSynchronized = b
<1> DEFINE z == [x EXCEPT !.cpuSynchronized = b]
<1>1. /\ z \in Slot /\ z.state = x.state /\ z.generation = x.generation
      /\ z.mapAttempted = x.mapAttempted /\ z.mappingUncertain = x.mappingUncertain
      /\ z.cpuSynchronized = b
  BY DEF Slot
<1>2. QED
  BY <1>1, Zenon

\* Quarantine changes the state of a slot only.
LEMMA QuarantinedField ==
    ASSUME NEW x \in Slot
    PROVE  \E y \in Slot : /\ y = [x EXCEPT !.state = "Quarantined"]
                           /\ y.state = "Quarantined" /\ y.generation = x.generation
                           /\ y.mapAttempted = x.mapAttempted
                           /\ y.mappingUncertain = x.mappingUncertain
                           /\ y.cpuSynchronized = x.cpuSynchronized
<1> DEFINE z == [x EXCEPT !.state = "Quarantined"]
<1>1. /\ z \in Slot /\ z.state = "Quarantined" /\ z.generation = x.generation
      /\ z.mapAttempted = x.mapAttempted /\ z.mappingUncertain = x.mappingUncertain
      /\ z.cpuSynchronized = x.cpuSynchronized
  BY DEF Slot, SlotStates
<1>2. QED
  BY <1>1, Zenon

\* The mark of an uncertain mapping changes that flag only.
LEMMA UncertainField ==
    ASSUME NEW x \in Slot
    PROVE  \E y \in Slot : /\ y = [x EXCEPT !.mappingUncertain = TRUE]
                           /\ y.state = x.state /\ y.generation = x.generation
                           /\ y.mapAttempted = x.mapAttempted
                           /\ y.mappingUncertain = TRUE
                           /\ y.cpuSynchronized = x.cpuSynchronized
<1> DEFINE z == [x EXCEPT !.mappingUncertain = TRUE]
<1>1. /\ z \in Slot /\ z.state = x.state /\ z.generation = x.generation
      /\ z.mapAttempted = x.mapAttempted /\ z.mappingUncertain = TRUE
      /\ z.cpuSynchronized = x.cpuSynchronized
  BY ZenonT(30) DEF Slot
<1>2. QED
  BY <1>1, Zenon

\* map() that the backend refuses leaves the slot pinned.
LEMMA MapUnavailableStep ==
    ASSUME OwnerInv, NEW h \in Handle, MapUnavailable(h)
    PROVE  OwnerInv'
<1> DEFINE x == slots[h.slot]
<1>1. Lookup(h) /\ x.state = "Pinned"
  BY DEF MapUnavailable, Mappable
<1>2. /\ h.slot \in Slots /\ x \in Slot /\ SlotInv(h.slot)
      /\ x.generation = h.generation /\ h.generation # 0
  BY <1>1, LookupFacts
<1>3. PICK y \in Slot : /\ y = [x EXCEPT !.cpuSynchronized = FALSE]
                        /\ y.state = x.state /\ y.generation = x.generation
                        /\ y.mapAttempted = x.mapAttempted
                        /\ y.mappingUncertain = x.mappingUncertain /\ ~y.cpuSynchronized
  BY <1>2, SyncField, Zenon
<1>4. slots' = [slots EXCEPT ![h.slot] = y]
  BY <1>3 DEF MapUnavailable
<1>5. UNCHANGED <<holds, generation, quiesced, world>>
  BY DEF MapUnavailable, OnlySlot
<1>6. Sound(y)' /\ Backs(y, holds[h.slot])' /\ Synced(y, holds[h.slot])'
  BY <1>1, <1>2, <1>3, <1>5 DEF SlotInv, Sound, Backs, Synced, world, consumers
<1>7. QED
  BY <1>2, <1>3, <1>4, <1>5, <1>6, OneSlotOnly, Zenon DEF OwnerInv, OwnerTypeOK

\* retain() of a mapped slot.
LEMMA RetainStep ==
    ASSUME OwnerInv, NEW h \in Handle, Retain(h)
    PROVE  OwnerInv'
<1> DEFINE x == slots[h.slot]
<1>1. Lookup(h) /\ x.state = "Mapped"
  BY DEF Retain, Retainable
<1>2. /\ h.slot \in Slots /\ x \in Slot /\ SlotInv(h.slot)
      /\ x.generation = h.generation /\ h.generation # 0
  BY <1>1, LookupFacts
<1>3. PICK y \in Slot : /\ y = [x EXCEPT !.cpuSynchronized = FALSE]
                        /\ y.state = x.state /\ y.generation = x.generation
                        /\ y.mapAttempted = x.mapAttempted
                        /\ y.mappingUncertain = x.mappingUncertain /\ ~y.cpuSynchronized
  BY <1>2, SyncField, Zenon
<1>4. slots' = [slots EXCEPT ![h.slot] = y]
  BY <1>3 DEF Retain, RetainedSlot
<1>5. UNCHANGED <<generation, quiesced, world>>
  BY DEF Retain
<1>6. holds' \in [Slots -> Nat] /\ \A t \in Slots \ {h.slot} : holds'[t] = holds[t]
  BY <1>2 DEF Retain, OwnerInv, OwnerTypeOK
<1>7. Sound(y)' /\ Backs(y, holds[h.slot])' /\ Synced(y, holds[h.slot])'
  BY <1>1, <1>2, <1>3, <1>5 DEF SlotInv, Sound, Backs, Synced, world, consumers
<1>8. QED
  BY <1>2, <1>3, <1>4, <1>5, <1>6, <1>7, OneSlotOnly, Zenon

\* A failed synchronization quarantines the slot.
LEMMA SynchronizeFailsStep ==
    ASSUME OwnerInv, NEW h \in Handle, SynchronizeFails(h)
    PROVE  OwnerInv'
<1> DEFINE x == slots[h.slot]
<1>1. Lookup(h) /\ x.state \in {"Pinned", "Mapped"}
  BY DEF SynchronizeFails
<1>2. /\ h.slot \in Slots /\ x \in Slot /\ SlotInv(h.slot)
      /\ x.generation = h.generation /\ h.generation # 0
  BY <1>1, LookupFacts
<1>3. PICK y \in Slot : /\ y = [x EXCEPT !.state = "Quarantined"]
                        /\ y.state = "Quarantined" /\ y.generation = x.generation
                        /\ y.mapAttempted = x.mapAttempted
                        /\ y.mappingUncertain = x.mappingUncertain
                        /\ y.cpuSynchronized = x.cpuSynchronized
  BY <1>2, QuarantinedField
<1>4. slots' = [slots EXCEPT ![h.slot] = y]
  BY <1>3 DEF SynchronizeFails, Quarantine
<1>5. UNCHANGED <<holds, generation, quiesced, world>>
  BY DEF SynchronizeFails, OnlySlot
<1>6. Sound(y)' /\ Backs(y, holds[h.slot])' /\ Synced(y, holds[h.slot])'
  BY <1>1, <1>2, <1>3, <1>5 DEF SlotInv, Sound, Backs, Synced, world, consumers
<1>7. QED
  BY <1>2, <1>3, <1>4, <1>5, <1>6, OneSlotOnly, Zenon DEF OwnerInv, OwnerTypeOK

\* A mapping that is found to be invalid.
LEMMA DoubtedStep ==
    ASSUME OwnerInv, NEW h \in Handle, Doubted(h)
    PROVE  OwnerInv'
<1> DEFINE x == slots[h.slot]
<1>1. Lookup(h) /\ x.state = "Mapped"
  BY DEF Doubted
<1>2. /\ h.slot \in Slots /\ x \in Slot /\ SlotInv(h.slot)
      /\ x.generation = h.generation /\ h.generation # 0
  BY <1>1, LookupFacts
<1>u. PICK u \in Slot : /\ u = [x EXCEPT !.mappingUncertain = TRUE]
                        /\ u.state = x.state /\ u.generation = x.generation
                        /\ u.mapAttempted = x.mapAttempted
                        /\ u.mappingUncertain = TRUE
                        /\ u.cpuSynchronized = x.cpuSynchronized
  BY <1>2, UncertainField, ZenonT(30)
<1>3. PICK y \in Slot : /\ y = [u EXCEPT !.state = "Quarantined"]
                        /\ y.state = "Quarantined" /\ y.generation = u.generation
                        /\ y.mapAttempted = u.mapAttempted
                        /\ y.mappingUncertain = u.mappingUncertain
                        /\ y.cpuSynchronized = u.cpuSynchronized
  BY QuarantinedField
<1>4. slots' = [slots EXCEPT ![h.slot] = y]
  BY <1>3, <1>u DEF Doubted, Quarantine
<1>5. UNCHANGED <<holds, generation, quiesced, world>>
  BY DEF Doubted, OnlySlot
<1>6. Sound(y)' /\ Backs(y, holds[h.slot])' /\ Synced(y, holds[h.slot])'
  BY <1>1, <1>2, <1>u, <1>3, <1>5 DEF SlotInv, Sound, Backs, Synced, world, consumers
<1>7. QED
  BY <1>2, <1>u, <1>3, <1>4, <1>5, <1>6, OneSlotOnly, Zenon DEF OwnerInv, OwnerTypeOK

\* release() of a hold.
LEMMA ReleaseStep ==
    ASSUME OwnerInv, NEW h \in Handle, Release(h)
    PROVE  OwnerInv'
<1> DEFINE x == slots[h.slot]
<1>1. Lookup(h) /\ holds[h.slot] # 0
  BY DEF Release
<1>2. /\ h.slot \in Slots /\ x \in Slot /\ SlotInv(h.slot)
      /\ x.generation = h.generation /\ h.generation # 0
  BY <1>1, LookupFacts
<1>3. PICK y \in Slot : y = x
  BY <1>2
<1>4. slots' = [slots EXCEPT ![h.slot] = y]
  BY <1>2, <1>3 DEF Release, OwnerInv, OwnerTypeOK
<1>5. UNCHANGED <<generation, quiesced, world>>
  BY DEF Release
<1>6. /\ holds' \in [Slots -> Nat] /\ \A t \in Slots \ {h.slot} : holds'[t] = holds[t]
  BY <1>1, <1>2 DEF Release, OwnerInv, OwnerTypeOK
<1>7. Sound(y)' /\ Backs(y, holds[h.slot])' /\ Synced(y, holds[h.slot])'
  BY <1>1, <1>2, <1>3, <1>5 DEF SlotInv, Sound, Backs, Synced, world, consumers
<1>8. QED
  BY <1>2, <1>3, <1>4, <1>5, <1>6, <1>7, OneSlotOnly, Zenon

\* synchronizeRetained().
LEMMA SyncRetainedStep ==
    ASSUME OwnerInv, NEW h \in Handle, SyncRetained(h)
    PROVE  OwnerInv'
<1> DEFINE x == slots[h.slot]
<1>1. Lookup(h) /\ x.state = "Mapped"
  BY DEF SyncRetained
<1>2. /\ h.slot \in Slots /\ x \in Slot /\ SlotInv(h.slot)
      /\ x.generation = h.generation /\ h.generation # 0
  BY <1>1, LookupFacts
<1>3. PICK y \in Slot : /\ y = [x EXCEPT !.cpuSynchronized = FALSE]
                        /\ y.state = x.state /\ y.generation = x.generation
                        /\ y.mapAttempted = x.mapAttempted
                        /\ y.mappingUncertain = x.mappingUncertain
                        /\ y.cpuSynchronized = FALSE
  BY <1>2, SyncField, ZenonT(30)
<1>4. slots' = [slots EXCEPT ![h.slot] = y]
  BY <1>3 DEF SyncRetained, RetainedSlot
<1>5. /\ UNCHANGED <<holds, generation, quiesced, pinned, mapped, users, strays, ended>>
      /\ written' \in {written, written \ {h.generation}}
  BY DEF SyncRetained, OnlySlot, consumers
<1>6. Sound(y)' /\ Backs(y, holds[h.slot])' /\ Synced(y, holds[h.slot])'
  BY <1>1, <1>2, <1>3, <1>5 DEF SlotInv, Sound, Backs, Synced
<1>7. OnlyFor(h.generation) /\ WorldAt(h.generation)
  BY <1>5 DEF OnlyFor, WorldAt, OwnerInv, WorldInv
<1>8. QED
  BY <1>2, <1>3, <1>4, <1>5, <1>6, <1>7, OneSlot, Zenon DEF OwnerInv, OwnerTypeOK

\* Synchronization for the CPU or for the device.
LEMMA SyncStep ==
    ASSUME OwnerInv, NEW h \in Handle, Sync(h)
    PROVE  OwnerInv'
<1> DEFINE x == slots[h.slot]
           g == h.generation
<1>1. /\ Lookup(h) /\ holds[h.slot] = 0 /\ x.state \in {"Pinned", "Mapped"}
      /\ x.mapAttempted => g \notin users
  BY DEF Sync, Retired
<1>2. /\ h.slot \in Slots /\ x \in Slot /\ SlotInv(h.slot)
      /\ x.generation = g /\ g # 0
  BY <1>1, LookupFacts
<1>3. PICK forCpu \in BOOLEAN :
          /\ slots' = [slots EXCEPT ![h.slot].cpuSynchronized = forCpu]
          /\ written' = written \ IF forCpu THEN {g} ELSE {}
  BY ZenonT(30) DEF Sync
<1>4. PICK y \in Slot : /\ y = [x EXCEPT !.cpuSynchronized = forCpu]
                        /\ y.state = x.state /\ y.generation = x.generation
                        /\ y.mapAttempted = x.mapAttempted
                        /\ y.mappingUncertain = x.mappingUncertain
                        /\ y.cpuSynchronized = forCpu
  BY <1>2, SyncField
<1>5. slots' = [slots EXCEPT ![h.slot] = y]
  BY <1>3, <1>4
<1>6. /\ UNCHANGED <<holds, generation, quiesced, pinned, mapped, users, strays>>
      /\ ended' = ended \cup IF x.mapAttempted THEN {g} ELSE {}
  BY DEF Sync, OnlySlot
<1>7. g \in written' => g \in written /\ ~forCpu
  BY <1>3
<1>8. x.mapAttempted => g \in ended'
  BY <1>6
<1>9. Sound(y)' /\ Backs(y, holds[h.slot])' /\ Synced(y, holds[h.slot])'
  BY <1>1, <1>2, <1>4, <1>6, <1>7, <1>8 DEF SlotInv, Sound, Backs, Synced
<1>10. OnlyFor(g)
  BY <1>3, <1>6 DEF OnlyFor
<1>11. WorldAt(g)
  BY <1>1, <1>6, <1>7 DEF WorldAt, OwnerInv, WorldInv
<1>12. QED
  BY <1>2, <1>4, <1>5, <1>6, <1>9, <1>10, <1>11, OneSlot, Zenon DEF OwnerInv, OwnerTypeOK

\* Whatever the backend answers is a token.
LEMMA AnswersAreTokens ==
    ASSUME NEW g \in Generations, NEW Others, Others \subseteq Token
    PROVE  Answers(g, Others) \subseteq Token
  BY DEF Answers, Token

\* map(), whatever the backend answers.
LEMMA MapStep ==
    ASSUME OwnerInv, NEW h \in Handle, Map(h)
    PROVE  OwnerInv'
<1> DEFINE x == slots[h.slot]
           g == h.generation
<1>1. Lookup(h) /\ holds[h.slot] = 0 /\ x.state = "Pinned"
  BY DEF Map, Mappable
<1>2. /\ h.slot \in Slots /\ x \in Slot /\ SlotInv(h.slot)
      /\ x.generation = g /\ g # 0
  BY <1>1, LookupFacts
<1>3. UNCHANGED <<holds, generation, quiesced, pinned, written, users, strays, ended>>
  BY SMTT(60) DEF Map, OnlySlot, consumers
<1>4. PICK ok \in BOOLEAN, address \in Answers(g, MappingsBut(h.slot)) :
          LET slot == [x EXCEPT !.cpuSynchronized = FALSE,
                                !.mapAttempted = TRUE, !.mapping = address]
          IN IF ok /\ Exclusive(address, MappingsBut(h.slot))
             THEN /\ slots' = [slots EXCEPT ![h.slot] = [slot EXCEPT !.state = "Mapped"]]
                  /\ mapped' = mapped \cup {g}
                  /\ UNCHANGED draining
             ELSE /\ Quarantine(h.slot, MapFailed(slot))
                  /\ mapped' \in {mapped, mapped \cup {g}}
  BY ZenonT(30) DEF Map
<1>5. address \in Token
  <2>1. MappingsBut(h.slot) \subseteq Token
    BY DEF MappingsBut, OwnerInv, OwnerTypeOK, Slot
  <2>2. g \in Generations
    BY DEF Handle
  <2>3. QED
    BY <2>1, <2>2, AnswersAreTokens
<1> DEFINE slot == [x EXCEPT !.cpuSynchronized = FALSE, !.mapAttempted = TRUE,
                             !.mapping = address]
<1>6. /\ slot \in Slot /\ slot.generation = g /\ slot.mapAttempted = TRUE
      /\ slot.mappingUncertain = FALSE /\ slot.cpuSynchronized = FALSE
  <2>1. /\ slot \in Slot /\ slot.generation = g /\ slot.mapAttempted = TRUE
        /\ slot.mappingUncertain = x.mappingUncertain /\ slot.cpuSynchronized = FALSE
    BY <1>2, <1>5, ZenonT(30) DEF Slot
  <2>2. x.mappingUncertain = FALSE
    BY <1>1, <1>2, Zenon DEF SlotInv, Sound, Slot
  <2>3. QED
    BY <2>1, <2>2, Zenon
<1>7. \E y \in Slot :
         /\ slots' = [slots EXCEPT ![h.slot] = y]
         /\ y.generation = g /\ y.mapAttempted = TRUE /\ y.cpuSynchronized = FALSE
         /\ \/ y.state = "Mapped" /\ y.mappingUncertain = FALSE /\ mapped' = mapped \cup {g}
            \/ y.state = "Quarantined" /\ mapped' \in {mapped, mapped \cup {g}}
  <2>1. CASE ok /\ Exclusive(address, MappingsBut(h.slot))
    <3> DEFINE z == [slot EXCEPT !.state = "Mapped"]
    <3>1. slots' = [slots EXCEPT ![h.slot] = z] /\ mapped' = mapped \cup {g}
      BY <1>4, <2>1, Zenon
    <3>2. /\ z \in Slot /\ z.state = "Mapped" /\ z.generation = slot.generation
          /\ z.mapAttempted = slot.mapAttempted
          /\ z.mappingUncertain = slot.mappingUncertain
          /\ z.cpuSynchronized = slot.cpuSynchronized
      <4> HIDE DEF slot
      <4> QED  BY <1>6 DEF Slot, SlotStates
    <3>3. QED
      BY <3>1, <3>2, <1>6, Zenon
  <2>2. CASE ~(ok /\ Exclusive(address, MappingsBut(h.slot)))
    <3> DEFINE u == [slot EXCEPT !.mappingUncertain = TRUE]
               z == [u EXCEPT !.state = "Quarantined"]
    <3>1. slots' = [slots EXCEPT ![h.slot] = z] /\ mapped' \in {mapped, mapped \cup {g}}
      BY <1>4, <2>2, Zenon DEF Quarantine, MapFailed
    <3>2. /\ u \in Slot /\ u.generation = slot.generation
          /\ u.mapAttempted = slot.mapAttempted
          /\ u.cpuSynchronized = slot.cpuSynchronized
      <4> HIDE DEF slot
      <4> QED  BY <1>6, ZenonT(30) DEF Slot, SlotStates
    <3>3. /\ z \in Slot /\ z.state = "Quarantined" /\ z.generation = u.generation
          /\ z.mapAttempted = u.mapAttempted
          /\ z.cpuSynchronized = u.cpuSynchronized
      <4> HIDE DEF u
      <4> QED  BY <3>2, ZenonT(30) DEF Slot, SlotStates
    <3>4. QED
      BY <3>1, <3>2, <3>3, <1>6, Zenon
  <2>3. QED
    BY <2>1, <2>2, ZenonT(30)
<1>8. PICK y \in Slot :
         /\ slots' = [slots EXCEPT ![h.slot] = y]
         /\ y.generation = g /\ y.mapAttempted = TRUE /\ y.cpuSynchronized = FALSE
         /\ \/ y.state = "Mapped" /\ y.mappingUncertain = FALSE /\ mapped' = mapped \cup {g}
            \/ y.state = "Quarantined" /\ mapped' \in {mapped, mapped \cup {g}}
  BY <1>7, ZenonT(30)
<1> HIDE DEF slot
<1>9. g \notin strays /\ g \in pinned
  BY <1>1, <1>2 DEF SlotInv, Sound, Backs
<1>10. Sound(y)' /\ Backs(y, holds[h.slot])' /\ Synced(y, holds[h.slot])'
  BY <1>1, <1>2, <1>3, <1>8, <1>9 DEF SlotInv, Sound, Backs, Synced
<1>11. OnlyFor(g) /\ WorldAt(g)
  BY <1>3, <1>8, <1>9 DEF OnlyFor, WorldAt, OwnerInv, WorldInv
<1>12. QED
  BY <1>2, <1>3, <1>8, <1>10, <1>11, OneSlot, Zenon DEF OwnerInv, OwnerTypeOK

\* The generation that allocate() is about to use is unknown to the world.
LEMMA FreshGeneration ==
    ASSUME OwnerInv
    PROVE  /\ generation \notin pinned \cup mapped \cup written \cup users \cup strays
           /\ \A s \in Slots : slots[s].generation # generation
<1>1. \A s \in Slots : slots[s].generation # generation
  BY DEF OwnerInv, SlotInv, Sound, OwnerTypeOK, Slot
<1>2. generation \notin pinned
  BY <1>1 DEF OwnerInv, WorldInv
<1>3. QED
  BY <1>1, <1>2 DEF OwnerInv, WorldInv

\* The record of a new slot.
LEMMA EmptyIsSlot == EmptySlot \in Slot
<1>1. "Empty" \in SlotStates /\ 0 \in 0 .. MaxGeneration - 1 /\ 0 \in Nat /\ NoToken \in Token
  BY GenerationAssumption DEF SlotStates, Token
<1>2. QED
  BY <1>1, Zenon DEF EmptySlot, Slot

Fresh(g, b, p, st) ==
    [EmptySlot EXCEPT !.generation = g, !.bytes = b, !.pin = p, !.state = st]

\* The record that allocate() fills in.
LEMMA NewSlot ==
    ASSUME NEW g \in 0 .. MaxGeneration - 1, NEW b \in Nat, NEW p \in Token,
           NEW st \in SlotStates
    PROVE  LET y == Fresh(g, b, p, st)
           IN  /\ y \in Slot /\ y.state = st /\ y.generation = g
               /\ ~y.mapAttempted /\ ~y.mappingUncertain
               /\ ~y.cpuSynchronized
<1> DEFINE y(x) == [x EXCEPT !.generation = g, !.bytes = b, !.pin = p, !.state = st]
<1>1. ASSUME NEW x \in Slot
      PROVE  /\ y(x) \in Slot /\ y(x).state = st /\ y(x).generation = g
             /\ y(x).mapAttempted = x.mapAttempted
             /\ y(x).mappingUncertain = x.mappingUncertain
             /\ y(x).cpuSynchronized = x.cpuSynchronized
  BY ZenonT(30) DEF Slot
<1>2. /\ ~EmptySlot.mapAttempted /\ ~EmptySlot.mappingUncertain
      /\ ~EmptySlot.cpuSynchronized
  BY Zenon DEF EmptySlot
<1>3. QED
  BY <1>1, <1>2, EmptyIsSlot, Zenon DEF Fresh

\* allocate() that pins backing, also when it cannot keep it.
LEMMA AllocateStep ==
    ASSUME OwnerInv, NEW bytes \in Sizes, Allocate(bytes)
    PROVE  OwnerInv'
<1> DEFINE g == generation
<1>1. /\ generation \in 1 .. MaxGeneration - 1 /\ generation' = generation + 1
      /\ UNCHANGED <<holds, quiesced, mapped, written, users, strays, ended>>
  BY GenerationAssumption DEF Allocate, OwnerInv, OwnerTypeOK, consumers
<1>2. PICK s \in Slots, ok \in BOOLEAN : \E pin \in Answers(generation, PinsBut(InUse, s)) :
         LET accepted == ok /\ Exclusive(pin, PinsBut(InUse, s))
             slot == [EmptySlot EXCEPT !.generation = generation,
                         !.bytes = bytes, !.pin = pin,
                         !.state = IF accepted THEN "Pinned" ELSE "Quarantined"]
         IN /\ IsFirstEmpty(s)
            /\ slots' = [slots EXCEPT ![s] = slot]
            /\ charged' = charged + bytes
            /\ draining' = ~accepted
            /\ pinned' \in {pinned \cup {generation}}
                           \cup IF pin = NoToken THEN {pinned} ELSE {}
  BY Zenon DEF Allocate
<1>3. PICK pin \in Answers(generation, PinsBut(InUse, s)) :
         LET accepted == ok /\ Exclusive(pin, PinsBut(InUse, s))
             slot == [EmptySlot EXCEPT !.generation = generation,
                         !.bytes = bytes, !.pin = pin,
                         !.state = IF accepted THEN "Pinned" ELSE "Quarantined"]
         IN /\ IsFirstEmpty(s)
            /\ slots' = [slots EXCEPT ![s] = slot]
            /\ charged' = charged + bytes
            /\ draining' = ~accepted
            /\ pinned' \in {pinned \cup {generation}}
                           \cup IF pin = NoToken THEN {pinned} ELSE {}
  BY <1>2, Zenon
<1>4. pin \in Token
  <2>1. PinsBut(InUse, s) \subseteq Token
    BY DEF PinsBut, InUse, OwnerInv, OwnerTypeOK, Slot
  <2>2. generation \in Generations
    BY <1>1 DEF Generations
  <2>3. QED
    BY <2>1, <2>2, AnswersAreTokens
<1>5. slots[s] = EmptySlot /\ slots[s].generation = 0 /\ holds[s] = 0
  <2>1. slots[s] = EmptySlot
    BY <1>3 DEF IsFirstEmpty, InUse, OwnerInv, SlotInv, Sound
  <2>2. slots[s].generation = 0
    BY <2>1 DEF EmptySlot
  <2>3. 0 \notin mapped
    BY DEF OwnerInv, WorldInv
  <2>4. QED
    BY <2>1, <2>2, <2>3 DEF OwnerInv, SlotInv, Backs
<1> DEFINE state == IF ok /\ Exclusive(pin, PinsBut(InUse, s)) THEN "Pinned" ELSE "Quarantined"
           slot == [EmptySlot EXCEPT !.generation = generation, !.bytes = bytes,
                                     !.pin = pin, !.state = state]
<1>6. /\ slots' = [slots EXCEPT ![s] = slot]
      /\ pinned' \in {pinned, pinned \cup {g}}
      /\ state = "Pinned" => g \in pinned'
  <2>1. slots' = [slots EXCEPT ![s] = slot]
    BY <1>3, Zenon
  <2>2. pinned' \in {pinned \cup {generation}} \cup IF pin = NoToken THEN {pinned} ELSE {}
    BY <1>3, Zenon
  <2>3. state = "Pinned" => pin # NoToken
    BY DEF Exclusive, NoToken
  <2>4. QED
    BY <2>1, <2>2, <2>3
<1>7. PICK y \in Slot : /\ y = slot /\ y.state = state /\ y.generation = g
                        /\ ~y.mapAttempted /\ ~y.mappingUncertain
                        /\ ~y.cpuSynchronized
  <2>1. state \in {"Pinned", "Quarantined"}
    OBVIOUS
  <2> HIDE DEF state
  <2>2. /\ state \in SlotStates /\ generation \in 0 .. MaxGeneration - 1 /\ bytes \in Nat
    BY <1>1, <2>1, SizesAssumption DEF SlotStates
  <2>3. slot = Fresh(generation, bytes, pin, state)
    BY DEF Fresh
  <2> HIDE DEF slot
  <2>4. /\ slot \in Slot /\ slot.state = state /\ slot.generation = g
        /\ ~slot.mapAttempted /\ ~slot.mappingUncertain
        /\ ~slot.cpuSynchronized
    <3>1. slot \in Slot
      BY <1>4, <2>2, <2>3, NewSlot, SMTT(30)
    <3>2. slot.state = state
      BY <1>4, <2>2, <2>3, NewSlot, SMTT(30)
    <3>3. slot.generation = g
      BY <1>4, <2>2, <2>3, NewSlot, SMTT(30)
    <3>4. ~slot.mapAttempted
      BY <1>4, <2>2, <2>3, NewSlot, SMTT(30)
    <3>5. ~slot.mappingUncertain
      BY <1>4, <2>2, <2>3, NewSlot, SMTT(30)
    <3>6. ~slot.cpuSynchronized
      BY <1>4, <2>2, <2>3, NewSlot, SMTT(30)
    <3>7. QED
      BY <3>1, <3>2, <3>3, <3>4, <3>5, <3>6, Zenon
  <2>5. QED
    BY <2>4, Zenon
<1>8. state \in {"Pinned", "Quarantined"}
  OBVIOUS
<1> HIDE DEF state, slot
<1>9. slots'[s] = y /\ \A t \in Slots \ {s} : slots'[t] = slots[t]
  BY <1>6, <1>7 DEF OwnerInv, OwnerTypeOK
<1>10. OwnerTypeOK'
  <2>1. generation' \in 1 .. MaxGeneration
    BY <1>1, GenerationAssumption
  <2>2. slots' = [slots EXCEPT ![s] = y] /\ slots \in [Slots -> Slot]
    BY <1>6, <1>7, Zenon DEF OwnerInv, OwnerTypeOK
  <2>3. slots' \in [Slots -> Slot]
    BY <2>2, Zenon
  <2>4. QED
    BY <1>1, <2>1, <2>3, Zenon DEF OwnerInv, OwnerTypeOK
<1>11. Distinct'
  BY <1>7, <1>9, FreshGeneration DEF OwnerInv, Distinct
<1>12. WorldInv'
  <2>1. \A u \in pinned' : u # 0 /\ \E t \in Slots : slots'[t].generation = u
    <3> SUFFICES ASSUME NEW u \in pinned' PROVE u # 0 /\ \E t \in Slots : slots'[t].generation = u
      OBVIOUS
    <3>1. CASE u = g
      BY <1>1, <1>7, <1>9, <3>1
    <3>2. CASE u # g
      BY <1>5, <1>6, <1>9, <3>2 DEF OwnerInv, WorldInv
    <3>3. QED
      BY <3>1, <3>2
  <2>2. QED
    BY <1>1, <1>6, <2>1 DEF OwnerInv, WorldInv
<1>13. ASSUME NEW t \in Slots PROVE SlotInv(t)'
  <2>1. CASE t = s
    <3>1. Sound(y)' /\ Backs(y, holds[s])' /\ Synced(y, holds[s])'
      BY <1>1, <1>5, <1>6, <1>7, <1>8, FreshGeneration DEF Sound, Backs, Synced
    <3>2. QED
      BY <2>1, <3>1, <1>9 DEF SlotInv
  <2>2. CASE t # s
    <3>1. OnlyFor(g)
      BY <1>1, <1>6 DEF OnlyFor
    <3>2. slots[t].generation # g
      BY FreshGeneration
    <3>3. slots[t].generation \in Int /\ generation \in Int /\ generation' \in Int
      BY <1>1 DEF OwnerInv, OwnerTypeOK, Slot
    <3>4. generation <= generation'
      BY <1>1
    <3>5. SlotInv(t) /\ slots'[t] = slots[t] /\ holds'[t] = holds[t] /\ quiesced' = quiesced
      BY <1>1, <1>9, <2>2 DEF OwnerInv
    <3>6. QED
      BY <3>1, <3>2, <3>3, <3>4, <3>5, OtherSlot, Zenon
  <2>3. QED
    BY <2>1, <2>2
<1>14. QED
  BY <1>10, <1>11, <1>12, <1>13 DEF OwnerInv

\* allocate() whose pin is rejected uses a generation up.
LEMMA AllocateRejectedStep ==
    ASSUME OwnerInv, NEW bytes \in Sizes, AllocateRejected(bytes)
    PROVE  OwnerInv'
<1>1. /\ generation \in 1 .. MaxGeneration - 1 /\ generation' = generation + 1
      /\ UNCHANGED <<slots, holds, quiesced, pinned, mapped, written, users, strays, ended>>
  BY GenerationAssumption DEF AllocateRejected, OwnerInv, OwnerTypeOK, consumers, world
<1>2. OwnerTypeOK' /\ Distinct' /\ WorldInv'
  BY <1>1, GenerationAssumption DEF OwnerInv, OwnerTypeOK, Distinct, WorldInv
<1>3. ASSUME NEW s \in Slots PROVE SlotInv(s)'
  <2>1. slots[s].generation \in Int
    BY DEF OwnerInv, OwnerTypeOK, Slot
  <2>2. Sound(slots[s])'
    BY <1>1, <2>1 DEF OwnerInv, SlotInv, Sound
  <2>3. Backs(slots[s], holds[s])' /\ Synced(slots[s], holds[s])'
    BY <1>1 DEF OwnerInv, SlotInv, Backs, Synced
  <2>4. QED
    BY <2>2, <2>3 DEF SlotInv
<1>4. QED
  BY <1>2, <1>3 DEF OwnerInv

-----------------------------------------------------------------------------
\* The slot x that cleanup() starts from says of slot s what the table said,
\* except that admission is gone and a synchronization may be forgotten.
BaseOK(s, x, stop) ==
    /\ x \in Slot /\ x.generation = slots[s].generation
    /\ x.mapAttempted = slots[s].mapAttempted
    /\ slots[s].mappingUncertain => x.mappingUncertain
    /\ x.state = "Empty" => x = EmptySlot
    /\ x.generation = 0 => x.state = "Empty"
    /\ x.state \in {"Pinned", "Mapped"} => x.state = slots[s].state /\ ~x.mappingUncertain
    /\ x.cpuSynchronized => slots[s].cpuSynchronized /\ (stop => quiesced)

\* What cleanup() makes of slot s: y is left of it, and the device's writes
\* were made visible or not, translation and backing kept or not.
CleanedOK(s, y, vis, map, pin, stop) ==
    LET g == slots[s].generation
    IN  /\ y \in Slot
        /\ (y = EmptySlot /\ ~pin) \/ (y.generation = g /\ y.state # "Empty")
        /\ ~pin => ~map /\ (g \in written => vis)
        /\ ~map => /\ holds[s] = 0
                   /\ stop \/ g \notin users \cup strays
        /\ y.state \in {"Pinned", "Mapped"} =>
              y.state = slots[s].state /\ ~y.mappingUncertain /\ map /\ pin
        /\ y.mapAttempted => slots[s].mapAttempted
        /\ ~y.mapAttempted => /\ map => g \notin mapped
                              /\ g \in written => vis
        /\ g \in strays /\ ~stop => y.mappingUncertain
        /\ y.cpuSynchronized /\ y.mapAttempted =>
              /\ holds[s] = 0 /\ (stop \/ g \notin users)
              /\ (stop \/ ~y.mappingUncertain) /\ g \in written => vis

Held(x) == [x EXCEPT !.state = "Quarantined"]
Failed(x) == [Held(x) EXCEPT !.cpuSynchronized = TRUE, !.mappingUncertain = TRUE]
Unmapped(x) == [Held(x) EXCEPT !.mapping = NoToken, !.mapAttempted = FALSE,
                               !.mappingUncertain = FALSE,
                               !.cpuSynchronized = @ \/ x.mapAttempted]
Syncs(x) == x.mapAttempted /\ ~x.cpuSynchronized

\* The four ways in which cleanup() ends: it leaves the slot alone, doubts it,
\* fails to unmap, or unmaps and possibly unpins.
OutcomeKind(s, x, stop, o) ==
    \/ /\ o = Outcome(x, FALSE, TRUE, TRUE)
       /\ holds[s] # 0 \/ (x.mapAttempted /\ ~x.mappingUncertain /\ ~stop)
    \/ /\ o = Outcome(Held(x), FALSE, TRUE, TRUE)
       /\ holds[s] = 0 /\ x.mapAttempted
       /\ x.mappingUncertain \/ stop \/ Retired(x.generation)
    \/ /\ \E map \in BOOLEAN : o = Outcome(Failed(x), Syncs(x), map, TRUE)
       /\ holds[s] = 0 /\ x.mapAttempted /\ (x.mappingUncertain => stop)
       /\ stop \/ Retired(x.generation)
    \/ /\ \/ \E pin \in BOOLEAN : o = Outcome(Unmapped(x), Syncs(x), FALSE, pin)
          \/ o = Outcome(EmptySlot, Syncs(x), FALSE, FALSE)
       /\ holds[s] = 0
       /\ x.mapAttempted => /\ x.mappingUncertain => stop
                            /\ stop \/ Retired(x.generation)

\* Outcomes has no others.
LEMMA OutcomeKinds ==
    ASSUME NEW s, NEW x, NEW stop, NEW T, NEW o \in Outcomes(s, x, stop, T)
    PROVE  OutcomeKind(s, x, stop, o)
  BY ZenonT(30) DEF OutcomeKind, Outcomes, Unheld, Unmappable, Held, Failed, Unmapped, Syncs

\* The records that the steps of a cleanup produce.
LEMMA CleanedFields ==
    ASSUME NEW x \in Slot
    PROVE  /\ Held(x) \in Slot /\ Held(x).generation = x.generation
           /\ Held(x).state = "Quarantined"
           /\ Held(x).mapAttempted = x.mapAttempted
           /\ Held(x).mappingUncertain = x.mappingUncertain
           /\ Held(x).cpuSynchronized = x.cpuSynchronized
           /\ Failed(x) \in Slot /\ Failed(x).generation = x.generation
           /\ Failed(x).state = "Quarantined"
           /\ Failed(x).mapAttempted = x.mapAttempted
           /\ Failed(x).mappingUncertain = TRUE
           /\ Unmapped(x) \in Slot /\ Unmapped(x).generation = x.generation
           /\ Unmapped(x).state = "Quarantined"
           /\ Unmapped(x).mapAttempted = FALSE
           /\ Unmapped(x).mappingUncertain = FALSE
<1>1. /\ Held(x) \in Slot /\ Held(x).generation = x.generation
      /\ Held(x).state = "Quarantined"
      /\ Held(x).mapAttempted = x.mapAttempted
      /\ Held(x).mappingUncertain = x.mappingUncertain
      /\ Held(x).cpuSynchronized = x.cpuSynchronized
  BY Zenon DEF Held, Slot, SlotStates
<1> DEFINE y(z) == [z EXCEPT !.cpuSynchronized = TRUE, !.mappingUncertain = TRUE]
           u(z, b) == [z EXCEPT !.mapping = NoToken, !.mapAttempted = FALSE,
                               !.mappingUncertain = FALSE, !.cpuSynchronized = @ \/ b]
<1>2. ASSUME NEW z \in Slot
      PROVE  /\ y(z) \in Slot /\ y(z).generation = z.generation
             /\ y(z).state = z.state
             /\ y(z).mapAttempted = z.mapAttempted
             /\ y(z).mappingUncertain = TRUE
  BY Zenon DEF Slot
<1>3. ASSUME NEW z \in Slot, NEW b \in BOOLEAN
      PROVE  /\ u(z, b) \in Slot /\ u(z, b).generation = z.generation
             /\ u(z, b).state = z.state
             /\ u(z, b).mapAttempted = FALSE
             /\ u(z, b).mappingUncertain = FALSE
  <2>1. NoToken \in Token
    BY DEF Token
  <2>2. QED
    BY <2>1, Zenon DEF Slot
<1>4. /\ Failed(x) \in Slot /\ Failed(x).generation = x.generation
      /\ Failed(x).state = "Quarantined"
      /\ Failed(x).mapAttempted = x.mapAttempted
      /\ Failed(x).mappingUncertain = TRUE
  BY <1>1, <1>2, Zenon DEF Failed
<1>5. /\ Unmapped(x) \in Slot /\ Unmapped(x).generation = x.generation
      /\ Unmapped(x).state = "Quarantined"
      /\ Unmapped(x).mapAttempted = FALSE
      /\ Unmapped(x).mappingUncertain = FALSE
  <2>1. x.mapAttempted \in BOOLEAN
    BY Zenon DEF Slot
  <2>2. QED
    BY <1>1, <1>3, <2>1, Zenon DEF Unmapped
<1>6. QED
  BY <1>1, <1>4, <1>5, Zenon

\* What the table says about the slot from which cleanup() starts.
LEMMA BaseFacts ==
    ASSUME OwnerInv, NEW s \in Slots, NEW x, NEW stop, quiesced => stop, BaseOK(s, x, stop)
    PROVE  LET g == slots[s].generation
           IN  /\ ~x.mapAttempted => g \notin mapped \cup written \cup strays \cup users
               /\ g \in strays => x.mappingUncertain
               /\ holds[s] # 0 \/ x.state = "Mapped" => g \in mapped
               /\ x.state \in {"Pinned", "Mapped"} => ~x.mappingUncertain /\ g \in pinned
               /\ x.cpuSynchronized /\ x.mapAttempted =>
                     /\ holds[s] = 0 /\ (stop \/ g \notin users)
                     /\ stop \/ ~x.mappingUncertain => g \notin written
<1> DEFINE g == slots[s].generation
<1>1. Sound(slots[s]) /\ Backs(slots[s], holds[s]) /\ Synced(slots[s], holds[s])
  BY DEF OwnerInv, SlotInv
<1>2. ~x.mapAttempted => g \notin mapped \cup written \cup strays \cup users
  BY <1>1 DEF OwnerInv, WorldInv, Backs, BaseOK
<1>3. g \in strays => x.mappingUncertain
  BY <1>1 DEF Backs, BaseOK
<1>4. holds[s] # 0 \/ x.state = "Mapped" => g \in mapped
  BY <1>1 DEF Backs, BaseOK
<1>5. x.state \in {"Pinned", "Mapped"} => ~x.mappingUncertain /\ g \in pinned
  BY <1>1 DEF Sound, Backs, BaseOK
<1>6. x.cpuSynchronized /\ x.mapAttempted =>
                     /\ holds[s] = 0 /\ (stop \/ g \notin users)
                     /\ stop \/ ~x.mappingUncertain => g \notin written
  BY <1>1 DEF OwnerInv, WorldInv, Synced, BaseOK
<1>7. QED
  BY <1>2, <1>3, <1>4, <1>5, <1>6, Zenon

\* Every outcome of cleanup() is consistent with the world.
LEMMA OutcomeFacts ==
    ASSUME OwnerInv, NEW s \in Slots, NEW x, NEW stop \in BOOLEAN, quiesced => stop,
           BaseOK(s, x, stop), x.state # "Empty", NEW T, NEW o \in Outcomes(s, x, stop, T)
    PROVE  CleanedOK(s, o.slot, o.visible, o.map, o.pin, stop)
<1> DEFINE g == slots[s].generation
<1>1. /\ x \in Slot /\ x.generation = g /\ x.mapAttempted = slots[s].mapAttempted
      /\ x.state \in {"Pinned", "Mapped"} => x.state = slots[s].state
  BY DEF BaseOK
<1>2. /\ ~x.mapAttempted => g \notin mapped \cup written \cup strays \cup users
      /\ g \in strays => x.mappingUncertain
      /\ holds[s] # 0 \/ x.state = "Mapped" => g \in mapped
      /\ x.state \in {"Pinned", "Mapped"} => ~x.mappingUncertain /\ g \in pinned
      /\ x.cpuSynchronized /\ x.mapAttempted =>
            /\ holds[s] = 0 /\ (stop \/ g \notin users)
            /\ stop \/ ~x.mappingUncertain => g \notin written
  BY BaseFacts
<1>3. CASE o = Outcome(x, FALSE, TRUE, TRUE)
  <2>1. CleanedOK(s, x, FALSE, TRUE, TRUE, stop)
    BY <1>1, <1>2 DEF CleanedOK
  <2>2. o.slot = x /\ o.visible = FALSE /\ o.map = TRUE /\ o.pin = TRUE
    BY <1>3, Zenon DEF Outcome
  <2>3. QED
    BY <2>1, <2>2, Zenon
<1>4. CASE /\ o = Outcome(Held(x), FALSE, TRUE, TRUE)
           /\ holds[s] = 0 /\ x.mapAttempted
           /\ x.mappingUncertain \/ stop \/ Retired(x.generation)
  <2>1. CleanedOK(s, Held(x), FALSE, TRUE, TRUE, stop)
    BY <1>1, <1>2, <1>4, CleanedFields, ZenonT(30) DEF CleanedOK
  <2>2. o.slot = Held(x) /\ o.visible = FALSE /\ o.map = TRUE /\ o.pin = TRUE
    BY <1>4, Zenon DEF Outcome
  <2>3. QED
    BY <2>1, <2>2, Zenon
<1>5. CASE /\ \E map \in BOOLEAN : o = Outcome(Failed(x), Syncs(x), map, TRUE)
           /\ holds[s] = 0 /\ x.mapAttempted /\ (x.mappingUncertain => stop)
           /\ stop \/ Retired(x.generation)
  <2>1. PICK map \in BOOLEAN : o = Outcome(Failed(x), Syncs(x), map, TRUE)
    BY <1>5, Zenon
  <2>2. CleanedOK(s, Failed(x), Syncs(x), map, TRUE, stop)
    BY <1>1, <1>2, <1>5, CleanedFields, ZenonT(30) DEF CleanedOK, Retired, Syncs
  <2>3. o.slot = Failed(x) /\ o.visible = Syncs(x) /\ o.map = map /\ o.pin = TRUE
    BY <2>1, Zenon DEF Outcome
  <2>4. QED
    BY <2>2, <2>3, Zenon
<1>6. CASE /\ \/ \E pin \in BOOLEAN : o = Outcome(Unmapped(x), Syncs(x), FALSE, pin)
              \/ o = Outcome(EmptySlot, Syncs(x), FALSE, FALSE)
           /\ holds[s] = 0
           /\ x.mapAttempted => /\ x.mappingUncertain => stop
                                /\ stop \/ Retired(x.generation)
  <2>1. g \in written => Syncs(x)
    BY <1>2, <1>6 DEF Syncs
  <2>2. stop \/ g \notin users \cup strays
    BY <1>1, <1>2, <1>6 DEF Retired
  <2>3. CASE \E pin \in BOOLEAN : o = Outcome(Unmapped(x), Syncs(x), FALSE, pin)
    <3>1. PICK pin \in BOOLEAN : o = Outcome(Unmapped(x), Syncs(x), FALSE, pin)
      BY <2>3, Zenon
    <3>2. CleanedOK(s, Unmapped(x), Syncs(x), FALSE, pin, stop)
      BY <1>1, <1>6, <2>1, <2>2, CleanedFields, ZenonT(30) DEF CleanedOK
    <3>3. o.slot = Unmapped(x) /\ o.visible = Syncs(x) /\ o.map = FALSE /\ o.pin = pin
      BY <3>1, Zenon DEF Outcome
    <3>4. QED
      BY <3>2, <3>3, Zenon
  <2>4. CASE o = Outcome(EmptySlot, Syncs(x), FALSE, FALSE)
    <3>1. /\ EmptySlot.state = "Empty" /\ ~EmptySlot.mapAttempted
          /\ ~EmptySlot.mappingUncertain
      BY Zenon DEF EmptySlot
    <3>2. CleanedOK(s, EmptySlot, Syncs(x), FALSE, FALSE, stop)
      BY <1>1, <1>6, <2>1, <2>2, <3>1, EmptyIsSlot DEF CleanedOK
    <3>3. o.slot = EmptySlot /\ o.visible = Syncs(x) /\ o.map = FALSE /\ o.pin = FALSE
      BY <2>4, Zenon DEF Outcome
    <3>4. QED
      BY <3>2, <3>3, Zenon
  <2>5. QED
    BY <1>6, <2>3, <2>4, Zenon
<1>7. OutcomeKind(s, x, stop, o)
  BY OutcomeKinds
<1>8. QED
  BY <1>3, <1>4, <1>5, <1>6, <1>7, Zenon DEF OutcomeKind

\* What Apply does to the table and to the world behind it.
Cleans(D, out, base) ==
    /\ slots' = [s \in Slots |-> IF s \in D THEN out[s].slot ELSE base[s]]
    /\ pinned' = pinned \ {base[s].generation : s \in {t \in D : ~out[t].pin}}
    /\ mapped' = mapped \ {base[s].generation : s \in {t \in D : ~out[t].map}}
    /\ written' = written \ {base[s].generation : s \in {t \in D : out[t].visible}}

\* A cleanup of some slots changes the world for those only.
LEMMA ApplyCleans ==
    ASSUME NEW D, NEW out, NEW base, Apply(D, out, base)
    PROVE  Cleans(D, out, base)
  BY Zenon DEF Apply, Cleans

\* cleanup() of the slots of D, whether or not the device was stopped before.
CleanupOK(D, out, base) ==
    /\ D \subseteq InUse /\ Cleans(D, out, base) /\ UNCHANGED <<holds, generation>>
    /\ quiesced' \in BOOLEAN /\ (quiesced => quiesced')
    /\ quiesced' => users' = {} /\ strays' = {}
    /\ ~quiesced' => users' = users /\ strays' = strays
    /\ ended \subseteq ended' /\ users' \cap ended' = {}
    /\ \A s \in Slots : BaseOK(s, base[s], quiesced')
    /\ \A s \in D :
          /\ CleanedOK(s, out[s].slot, out[s].visible, out[s].map, out[s].pin, quiesced')
          /\ out[s].slot.cpuSynchronized /\ out[s].slot.mapAttempted =>
                quiesced' \/ slots[s].generation \in ended'

\* retire(), quiesce() or close(), as far as the invariant is concerned.
CleansUp == \E D, out, base : CleanupOK(D, out, base)

\* It keeps the invariant.
LEMMA ApplyStep ==
    ASSUME OwnerInv, NEW D, NEW out, NEW base, CleanupOK(D, out, base)
    PROVE  OwnerInv'
<1> DEFINE G(s) == slots[s].generation
<1>a. /\ \A s \in D : s \in Slots /\ slots[s].state # "Empty"
      /\ holds' = holds /\ generation' = generation
  BY DEF CleanupOK, InUse
<1>b. /\ quiesced' \in BOOLEAN /\ (quiesced => quiesced')
      /\ quiesced' => users' = {} /\ strays' = {}
      /\ ~quiesced' => users' = users /\ strays' = strays
      /\ ended \subseteq ended' /\ users' \cap ended' = {}
  BY Zenon DEF CleanupOK
<1>c. \A s \in Slots : BaseOK(s, base[s], quiesced')
  BY Zenon DEF CleanupOK
<1>d. \A s \in D :
         /\ CleanedOK(s, out[s].slot, out[s].visible, out[s].map, out[s].pin, quiesced')
         /\ out[s].slot.cpuSynchronized /\ out[s].slot.mapAttempted =>
               quiesced' \/ G(s) \in ended'
  BY Zenon DEF CleanupOK
<1>0. /\ \A s \in Slots : G(s) \in 0 .. MaxGeneration - 1 /\ G(s) < generation
      /\ \A s, t \in Slots : G(s) = G(t) => s = t \/ G(s) = 0
      /\ 0 \notin pinned /\ mapped \subseteq pinned /\ written \subseteq pinned
      /\ users \subseteq mapped /\ strays \subseteq mapped
      /\ generation \in 1 .. MaxGeneration
  BY DEF OwnerInv, OwnerTypeOK, Distinct, WorldInv, SlotInv, Sound, Slot
<1>1. /\ slots' = [s \in Slots |-> IF s \in D THEN out[s].slot ELSE base[s]]
      /\ \A g : g \in pinned' <=> /\ g \in pinned
                                  /\ \A s \in D : base[s].generation = g => out[s].pin
      /\ \A g : g \in mapped' <=> /\ g \in mapped
                                  /\ \A s \in D : base[s].generation = g => out[s].map
      /\ \A g : g \in written' <=>
            /\ g \in written
            /\ \A s \in D : base[s].generation = g => ~out[s].visible
  BY Zenon DEF CleanupOK, Cleans
<1>2. \A s \in Slots : base[s] \in Slot /\ base[s].generation = G(s)
  BY <1>c DEF BaseOK
<1>3. /\ \A s \in D : slots'[s] = out[s].slot
      /\ \A s \in Slots \ D : slots'[s] = base[s]
  BY <1>1, <1>a
<1>4. /\ \A s \in D : /\ G(s) \in pinned' <=> G(s) \in pinned /\ out[s].pin
                      /\ G(s) \in mapped' <=> G(s) \in mapped /\ out[s].map
                      /\ G(s) \in written' <=> G(s) \in written /\ ~out[s].visible
      /\ \A s \in Slots \ D : /\ G(s) \in pinned' <=> G(s) \in pinned
                              /\ G(s) \in mapped' <=> G(s) \in mapped
                              /\ G(s) \in written' <=> G(s) \in written
  <2>1. ASSUME NEW s \in Slots, NEW t \in D, base[t].generation = G(s), G(s) \in pinned
        PROVE  t = s
    BY <1>0, <1>2, <1>a, <2>1
  <2>2. \A s \in D : base[s].generation = G(s)
    BY <1>2, <1>a
  <2>3. \A s \in Slots, t \in D : base[t].generation = G(s) /\ G(s) \in pinned => t = s
    BY <2>1
  <2>4. ASSUME NEW s \in D
        PROVE  /\ G(s) \in pinned' <=> G(s) \in pinned /\ out[s].pin
               /\ G(s) \in mapped' <=> G(s) \in mapped /\ out[s].map
               /\ G(s) \in written' <=> G(s) \in written /\ ~out[s].visible
    <3>1. \A t \in D : base[t].generation = G(s) /\ G(s) \in pinned => t = s
      BY <2>3, <1>a
    <3> HIDE DEF G
    <3>2. QED
      BY <1>0, <1>1, <2>2, <3>1, Zenon
  <2>5. ASSUME NEW s \in Slots \ D
        PROVE  /\ G(s) \in pinned' <=> G(s) \in pinned
               /\ G(s) \in mapped' <=> G(s) \in mapped
               /\ G(s) \in written' <=> G(s) \in written
    <3>1. \A t \in D : base[t].generation = G(s) => G(s) \notin pinned
      BY <2>3
    <3> HIDE DEF G
    <3>2. QED
      BY <1>0, <1>1, <3>1, Zenon
  <2>6. QED
    BY <2>4, <2>5
<1>5. OwnerTypeOK'
  <2>1. \A s \in Slots : slots'[s] \in Slot
    BY <1>2, <1>3, <1>a, <1>d, Zenon DEF CleanedOK
  <2>2. slots' \in [Slots -> Slot]
    BY <1>1, <2>1
  <2>3. QED
    BY <2>2, <1>a, <1>b, Zenon DEF OwnerInv, OwnerTypeOK
<1>6. \A s \in Slots : slots'[s].generation = G(s) \/ (s \in D /\ slots'[s] = EmptySlot)
  BY <1>2, <1>3, <1>a, <1>d, Zenon DEF CleanedOK
<1>7. EmptySlot.generation = 0
  BY Zenon DEF EmptySlot
<1>8. Distinct'
  BY <1>0, <1>6, <1>7, Zenon DEF Distinct
<1>9. ASSUME NEW s \in D
      PROVE  LET y == out[s].slot
             IN  Sound(y)' /\ Backs(y, holds[s])' /\ Synced(y, holds[s])'
  <2> DEFINE y == out[s].slot
  <2>1. CleanedOK(s, y, out[s].visible, out[s].map, out[s].pin, quiesced')
    BY <1>d
  <2>2. /\ G(s) \in pinned' <=> G(s) \in pinned /\ out[s].pin
        /\ G(s) \in mapped' <=> G(s) \in mapped /\ out[s].map
        /\ G(s) \in written' <=> G(s) \in written /\ ~out[s].visible
        /\ strays' = {} \/ strays' = strays
        /\ generation' = generation /\ holds'[s] = holds[s]
    BY <1>4, <1>a, <1>b
  <2>3. /\ Backs(slots[s], holds[s]) /\ G(s) # 0
    BY <1>a DEF OwnerInv, SlotInv, Sound
  <2>4. CASE y = EmptySlot /\ ~out[s].pin
    <3>1. /\ y.state = "Empty" /\ ~y.mapAttempted /\ ~y.mappingUncertain
          /\ y.generation = 0
      <4>1. /\ EmptySlot.state = "Empty" /\ ~EmptySlot.mapAttempted
            /\ ~EmptySlot.mappingUncertain /\ EmptySlot.generation = 0
        BY Zenon DEF EmptySlot
      <4>2. QED
        BY <2>4, <4>1
    <3>2. Sound(y)'
      BY <1>0, <2>2, <2>4, <3>1 DEF Sound
    <3>3. holds'[s] = 0
      BY <2>1, <2>2, <2>4, Zenon DEF CleanedOK
    <3>4. 0 \notin mapped' \cup written' \cup strays'
      BY <1>0, <1>1, <2>2
    <3>5. Backs(y, holds[s])'
      BY <3>1, <3>3, <3>4 DEF Backs
    <3>6. Synced(y, holds[s])'
      BY <3>1 DEF Synced
    <3>7. QED
      BY <3>2, <3>5, <3>6
  <2>5. CASE y.generation = G(s) /\ y.state # "Empty"
    <3>1. y.state \in {"Pinned", "Mapped"} =>
             y.state = slots[s].state /\ ~y.mappingUncertain /\ out[s].map /\ out[s].pin
      BY <2>1, Zenon DEF CleanedOK
    <3>2. Sound(y)'
      BY <1>0, <1>a, <2>2, <2>3, <2>5, <3>1 DEF Sound
    <3>3. y.state \in {"Pinned", "Mapped"} => y.generation \in pinned'
      BY <2>2, <2>3, <2>5, <3>1 DEF Backs
    <3>4. y.state = "Mapped" \/ holds'[s] # 0 => y.generation \in mapped'
      <4>1. holds[s] # 0 => out[s].map
        BY <2>1, Zenon DEF CleanedOK
      <4>2. QED
        BY <2>2, <2>3, <2>5, <3>1, <4>1 DEF Backs
    <3>5. y.generation \in mapped' \cup written' => y.mapAttempted
      BY <2>1, <2>2, <2>5, Zenon DEF CleanedOK
    <3>6. y.generation \in strays' => y.mappingUncertain
      BY <1>b, <2>1, <2>2, <2>5, Zenon DEF CleanedOK
    <3>7. Synced(y, holds[s])'
      BY <1>d, <2>1, <2>2, <2>5, Zenon DEF CleanedOK, Synced
    <3>8. QED
      BY <3>2, <3>3, <3>4, <3>5, <3>6, <3>7 DEF Backs
  <2>6. QED
    BY <2>1, <2>4, <2>5, Zenon DEF CleanedOK
<1>10. ASSUME NEW s \in Slots \ D
       PROVE  LET x == base[s]
              IN  Sound(x)' /\ Backs(x, holds[s])' /\ Synced(x, holds[s])'
  <2> DEFINE x == base[s]
  <2>1. BaseOK(s, x, quiesced')
    BY <1>c
  <2>2. /\ G(s) \in pinned' <=> G(s) \in pinned
        /\ G(s) \in mapped' <=> G(s) \in mapped
        /\ G(s) \in written' <=> G(s) \in written
        /\ strays' = {} \/ strays' = strays
        /\ generation' = generation /\ holds'[s] = holds[s]
    BY <1>4, <1>a, <1>b
  <2>3. SlotInv(s) /\ x.generation = G(s)
    BY <1>2 DEF OwnerInv
  <2>4. Sound(x)'
    BY <1>0, <2>1, <2>2, <2>3, Zenon DEF BaseOK, SlotInv, Sound
  <2>5. Backs(x, holds[s])'
    BY <2>1, <2>2, <2>3, Zenon DEF BaseOK, SlotInv, Backs
  <2>6. Synced(x, holds[s])'
    BY <1>b, <2>1, <2>2, <2>3, Zenon DEF BaseOK, SlotInv, Synced
  <2>7. QED
    BY <2>4, <2>5, <2>6
<1>11. \A s \in Slots : SlotInv(s)'
  BY <1>3, <1>9, <1>10, Zenon DEF SlotInv
<1>12. WorldInv'
  <2>1. ASSUME NEW g \in pinned' PROVE g # 0 /\ \E s \in Slots : slots'[s].generation = g
    <3>1. g # 0 /\ g \in pinned
      BY <1>0, <1>1
    <3>2. PICK s \in Slots : G(s) = g
      BY <3>1 DEF OwnerInv, WorldInv
    <3>3. CASE s \in D
      <4>1. out[s].pin
        BY <1>4, <3>2, <3>3
      <4>2. out[s].slot.generation = G(s)
        BY <1>d, <3>3, <4>1, Zenon DEF CleanedOK
      <4>3. QED
        BY <1>3, <3>1, <3>2, <3>3, <4>2
    <3>4. CASE s \notin D
      BY <1>2, <1>3, <3>1, <3>2, <3>4
    <3>5. QED
      BY <3>3, <3>4
  <2>2. ASSUME NEW g \in pinned
        PROVE  /\ g \in mapped' => g \in pinned'
               /\ g \in written' => g \in pinned'
               /\ g \in users' \cup strays' => g \in mapped'
    <3>1. PICK s \in Slots : G(s) = g
      BY DEF OwnerInv, WorldInv
    <3>2. CASE s \in D
      <4>1. /\ ~out[s].pin => ~out[s].map /\ (G(s) \in written => out[s].visible)
            /\ ~out[s].map => quiesced' \/ G(s) \notin users \cup strays
        BY <1>d, <3>2, Zenon DEF CleanedOK
      <4>2. QED
        BY <1>0, <1>4, <1>b, <3>1, <3>2, <4>1
    <3>3. CASE s \notin D
      BY <1>0, <1>4, <1>b, <3>1, <3>3
    <3>4. QED
      BY <3>2, <3>3
  <2>3. mapped' \subseteq pinned /\ written' \subseteq pinned /\ users' \cup strays' \subseteq pinned
    BY <1>0, <1>1, <1>b
  <2>4. QED
    BY <1>b, <2>1, <2>2, <2>3 DEF WorldInv
<1>13. QED
  BY <1>5, <1>8, <1>11, <1>12 DEF OwnerInv

\* The table itself is what cleanup() may start from.
LEMMA TableIsBase ==
    ASSUME OwnerInv, NEW s \in Slots, NEW stop, stop => quiesced
    PROVE  BaseOK(s, slots[s], stop)
  BY ZenonT(30) DEF OwnerInv, OwnerTypeOK, SlotInv, Sound, BaseOK

\* retire(), quiesce() and close() are such steps.
LEMMA RetireCleans ==
    ASSUME OwnerInv, NEW h \in Handle, Retire(h)
    PROVE  CleansUp
<1> DEFINE s == h.slot
           g == h.generation
<1>1. s \in Slots /\ g = slots[s].generation /\ slots[s].state # "Empty" /\ slots[s] \in Slot
  BY DEF Handle, Retire, Lookup, OwnerInv, OwnerTypeOK
<1>2. /\ UNCHANGED <<holds, generation>> /\ quiesced' = quiesced
      /\ users' = users /\ strays' = strays
  BY DEF Retire
<1>3. PICK x : /\ x = [slots[s] EXCEPT !.state = IF @ = "Quarantined" THEN @ ELSE "Retiring"]
               /\ \E o \in Outcomes(s, x, quiesced, InUse) :
                     /\ Apply({s}, [t \in {s} |-> o], slots)
                     /\ ended' = ended \cup IF x.mapAttempted /\ Retired(g)
                                            THEN {g} ELSE {}
  BY Zenon DEF Retire
<1>4. PICK o \in Outcomes(s, x, quiesced, InUse) :
                     /\ Apply({s}, [t \in {s} |-> o], slots)
                     /\ ended' = ended \cup IF x.mapAttempted /\ Retired(g)
                                            THEN {g} ELSE {}
  BY <1>3, Zenon
<1>5. BaseOK(s, x, quiesced) /\ x.state # "Empty"
  <2>1. ASSUME NEW z \in Slot, z.state # "Empty"
        PROVE  LET w == [z EXCEPT !.state = IF @ = "Quarantined" THEN @ ELSE "Retiring"]
               IN  /\ w \in Slot /\ w.generation = z.generation
                   /\ w.mapAttempted = z.mapAttempted
                   /\ w.mappingUncertain = z.mappingUncertain
                   /\ w.cpuSynchronized = z.cpuSynchronized
                   /\ w.state \in {"Quarantined", "Retiring"}
    BY Zenon DEF Slot, SlotStates
  <2>2. /\ x \in Slot /\ x.generation = g
        /\ x.mapAttempted = slots[s].mapAttempted
        /\ x.mappingUncertain = slots[s].mappingUncertain
        /\ x.cpuSynchronized = slots[s].cpuSynchronized
        /\ x.state \in {"Quarantined", "Retiring"}
    BY <1>1, <1>3, <2>1, Zenon
  <2>3. g # 0
    BY <1>1 DEF OwnerInv, SlotInv, Sound
  <2>4. QED
    BY <1>1, <2>2, <2>3 DEF BaseOK
<1>6. CleanedOK(s, o.slot, o.visible, o.map, o.pin, quiesced)
  <2>1. quiesced \in BOOLEAN
    BY DEF OwnerInv, OwnerTypeOK
  <2>2. QED
    BY <1>1, <1>5, <2>1, OutcomeFacts
<1>7. PICK out : out = [t \in {s} |-> o]
  BY Zenon
<1>8. out[s] = o /\ Cleans({s}, out, slots)
  BY <1>4, <1>7, ApplyCleans
<1>9. \A t \in Slots : BaseOK(t, slots[t], quiesced')
  BY <1>2, TableIsBase
<1>10. \A t \in {s} : CleanedOK(t, out[t].slot, out[t].visible, out[t].map, out[t].pin, quiesced')
  BY <1>2, <1>6, <1>8
<1>11. /\ ended \subseteq ended' /\ users' \cap ended' = {}
       /\ x.mapAttempted /\ g \notin users => g \in ended'
  BY <1>2, <1>4 DEF Retired, OwnerInv, WorldInv
<1>12. \A t \in {s} : out[t].slot.cpuSynchronized /\ out[t].slot.mapAttempted =>
                         quiesced' \/ slots[t].generation \in ended'
  <2>1. o.slot.cpuSynchronized /\ o.slot.mapAttempted => quiesced \/ g \in ended'
    BY <1>1, <1>5, <1>6, <1>11, Zenon DEF CleanedOK, BaseOK
  <2>2. QED
    BY <1>1, <1>2, <1>8, <2>1
<1>13. {s} \subseteq InUse
  BY <1>1 DEF InUse
<1>14. /\ quiesced' \in BOOLEAN /\ (quiesced => quiesced')
       /\ quiesced' => users' = {} /\ strays' = {}
  BY <1>2, Zenon DEF OwnerInv, OwnerTypeOK, WorldInv
<1>15. CleanupOK({s}, out, slots)
  BY <1>2, <1>8, <1>9, <1>10, <1>11, <1>12, <1>13, <1>14, Zenon DEF CleanupOK
<1>16. QED
  BY <1>15, Zenon DEF CleansUp

\* Clearing a flag that is clear changes nothing.
LEMMA SyncSame ==
    ASSUME NEW z \in Slot, z.cpuSynchronized = FALSE
    PROVE  [z EXCEPT !.cpuSynchronized = FALSE] = z
  BY DEF Slot

\* What quiesce() leaves of a slot, and what a failed one does.
LEMMA QuiescedFields ==
    ASSUME OwnerInv, NEW s \in Slots
    PROVE  /\ Quiesced[s] = [slots[s] EXCEPT !.cpuSynchronized = FALSE]
           /\ BaseOK(s, Quiesced[s], TRUE) /\ BaseOK(s, Quiesced[s], FALSE)
           /\ Quiesced[s].state = slots[s].state
           /\ ~Quiesced[s].cpuSynchronized /\ Quiesced[s] \in Slot
           /\ Quiesced[s].mapAttempted = slots[s].mapAttempted
           /\ Quiesced[s].mappingUncertain = slots[s].mappingUncertain
           /\ Quiesced[s].generation = slots[s].generation
<1>1. PICK x : x = slots[s]
  BY Zenon
<1>2. x \in Slot /\ BaseOK(s, x, FALSE)
  BY <1>1, TableIsBase DEF BaseOK
<1>3. PICK y \in Slot : /\ y = [x EXCEPT !.cpuSynchronized = FALSE]
                        /\ y.state = x.state /\ y.generation = x.generation
                        /\ y.mapAttempted = x.mapAttempted
                        /\ y.mappingUncertain = x.mappingUncertain /\ ~y.cpuSynchronized
  BY <1>2, SyncField, Zenon
<1>4. Quiesced[s] = y
  BY <1>1, <1>3, Zenon DEF Quiesced, Unsynchronized
<1>5. y.state = "Empty" => y = EmptySlot
  <2>1. x.state = "Empty" => x = EmptySlot
    BY <1>2, Zenon DEF BaseOK
  <2>2. EmptySlot.cpuSynchronized = FALSE
    BY Zenon DEF EmptySlot
  <2>3. QED
    BY <1>2, <1>3, <2>1, <2>2, SyncSame, Zenon
<1>6. BaseOK(s, y, TRUE) /\ BaseOK(s, y, FALSE)
  BY <1>2, <1>3, <1>5, Zenon DEF BaseOK
<1>7. QED
  BY <1>1, <1>3, <1>4, <1>6, Zenon

\* quiesce() stops all users and cleans no slot up.
LEMMA QuiesceCleans ==
    ASSUME OwnerInv, Quiesce
    PROVE  CleansUp
<1>1. /\ slots' = Quiesced /\ quiesced' = TRUE /\ users' = {} /\ strays' = {}
      /\ UNCHANGED <<holds, generation, pinned, mapped, ended, written>>
  BY DEF Quiesce
<1>2. PICK base : base = Quiesced
  BY Zenon
<1>3. \A s \in Slots : BaseOK(s, base[s], quiesced')
  BY <1>1, <1>2, QuiescedFields, Zenon
<1>4. slots' = [s \in Slots |-> base[s]]
  BY <1>1, <1>2 DEF Quiesced
<1>5. Cleans({}, <<>>, base)
  BY <1>1, <1>4, Zenon DEF Cleans
<1>6. CleanupOK({}, <<>>, base)
  BY <1>1, <1>3, <1>5, Zenon DEF CleanupOK
<1>7. QED
  BY <1>6, Zenon DEF CleansUp

\* quiesce() that fails.
LEMMA QuiesceFailsCleans ==
    ASSUME OwnerInv, QuiesceFails
    PROVE  CleansUp
<1> DEFINE B(s) == IF s \notin InUse THEN slots[s] ELSE
                    [Quiesced[s] EXCEPT !.state = "Quarantined",
                                        !.mappingUncertain = @ \/ slots[s].mapAttempted]
<1>1. /\ slots' = [s \in Slots |-> B(s)]
      /\ UNCHANGED <<holds, generation, quiesced, pinned, mapped, ended, written, users, strays>>
  BY Zenon DEF QuiesceFails, world, consumers
<1>2. PICK base : base = [s \in Slots |-> B(s)]
  BY Zenon
<1>3. ASSUME NEW s \in Slots PROVE BaseOK(s, base[s], quiesced')
  <2>1. CASE s \notin InUse
    <3>1. base[s] = slots[s]
      BY <1>2, <2>1, Zenon
    <3>2. QED
      BY <1>1, <3>1, TableIsBase, Zenon
  <2>2. CASE s \in InUse
    <3>1. PICK z \in Slot : /\ z = Quiesced[s] /\ ~z.cpuSynchronized
                            /\ z.mapAttempted = slots[s].mapAttempted
                            /\ z.mappingUncertain = slots[s].mappingUncertain
                            /\ z.generation = slots[s].generation
      BY QuiescedFields, Zenon
    <3>2. PICK b \in BOOLEAN : b = slots[s].mapAttempted
      BY Zenon DEF OwnerInv, OwnerTypeOK, Slot
    <3>3. base[s] = [z EXCEPT !.state = "Quarantined", !.mappingUncertain = @ \/ b]
      BY <1>2, <2>2, <3>1, <3>2, Zenon
    <3>4. PICK y \in Slot :
             /\ y = [z EXCEPT !.state = "Quarantined", !.mappingUncertain = @ \/ b]
             /\ y.state = "Quarantined" /\ y.generation = z.generation
             /\ y.mapAttempted = z.mapAttempted /\ ~y.cpuSynchronized
             /\ z.mappingUncertain => y.mappingUncertain
      <4> DEFINE w == [z EXCEPT !.state = "Quarantined", !.mappingUncertain = @ \/ b]
      <4>1. /\ w \in Slot /\ w.state = "Quarantined" /\ w.generation = z.generation
            /\ w.mapAttempted = z.mapAttempted /\ w.cpuSynchronized = z.cpuSynchronized
            /\ w.mappingUncertain = (z.mappingUncertain \/ b)
        BY Zenon DEF Slot, SlotStates
      <4>2. QED
        BY <3>1, <4>1, Zenon
    <3>5. slots[s].generation # 0
      BY <2>2, Zenon DEF InUse, OwnerInv, SlotInv, Sound
    <3>6. QED
      BY <3>1, <3>3, <3>4, <3>5 DEF BaseOK
  <2>3. QED
    BY <2>1, <2>2, Zenon
<1>4. slots' = [s \in Slots |-> base[s]]
  BY <1>1, <1>2, Zenon
<1>5. Cleans({}, <<>>, base)
  BY <1>1, <1>4, Zenon DEF Cleans
<1>6. /\ quiesced' \in BOOLEAN /\ users' \cap ended' = {}
      /\ quiesced' => users' = {} /\ strays' = {}
  BY <1>1, Zenon DEF OwnerInv, OwnerTypeOK, WorldInv
<1>7. CleanupOK({}, <<>>, base)
  BY <1>1, <1>3, <1>5, <1>6, Zenon DEF CleanupOK
<1>8. QED
  BY <1>7, Zenon DEF CleansUp

\* The slots that close() cleans up, all of them or up to the first failure.
ClosesFrom(base) ==
    LET Earlier(s) == {t \in InUse : Before(t, s)}
        Can(s) == Outcomes(s, base[s], TRUE, InUse \ Earlier(s))
        Succeeds(s) == \E o \in Can(s) : o.slot.state = "Empty"
        First(s) == CHOOSE o \in Can(s) : o.slot.state = "Empty"
    IN  \/ /\ \A s \in InUse : Succeeds(s)
           /\ Apply(InUse, [s \in InUse |-> First(s)], base)
        \/ \E last \in InUse :
              /\ \A s \in Earlier(last) : Succeeds(s)
              /\ \E o \in Can(last) :
                   Apply(Earlier(last) \cup {last},
                         [s \in Earlier(last) \cup {last} |->
                            IF s = last THEN o ELSE First(s)], base)

\* close() cleans every slot up.
LEMMA CloseCleans ==
    ASSUME OwnerInv, Close
    PROVE  CleansUp
<1>1. /\ quiesced' = TRUE /\ users' = {} /\ strays' = {}
      /\ UNCHANGED <<holds, generation, ended>>
  BY DEF Close
<1>2. PICK base : base = IF quiesced THEN slots ELSE Quiesced
  BY Zenon
<1> DEFINE Earlier(s) == {t \in InUse : Before(t, s)}
           Can(s) == Outcomes(s, base[s], TRUE, InUse \ Earlier(s))
           Succeeds(s) == \E o \in Can(s) : o.slot.state = "Empty"
           First(s) == CHOOSE o \in Can(s) : o.slot.state = "Empty"
<1>3. \/ /\ \A s \in InUse : Succeeds(s)
         /\ Apply(InUse, [s \in InUse |-> First(s)], base)
      \/ \E last \in InUse :
            /\ \A s \in Earlier(last) : Succeeds(s)
            /\ \E o \in Can(last) :
                 Apply(Earlier(last) \cup {last},
                       [s \in Earlier(last) \cup {last} |-> IF s = last THEN o ELSE First(s)],
                       base)
  <2>1. ClosesFrom(IF quiesced THEN slots ELSE Quiesced)
    BY Zenon DEF Close, ClosesFrom
  <2>2. ClosesFrom(base)
    BY <1>2, <2>1, Zenon
  <2>3. QED
    BY <2>2, Zenon DEF ClosesFrom
<1>4. \A s \in Slots : BaseOK(s, base[s], TRUE)
  <2>1. CASE quiesced
    BY <1>2, <2>1, TableIsBase, Zenon
  <2>2. CASE ~quiesced
    BY <1>2, <2>2, QuiescedFields, Zenon
  <2>3. QED
    BY <2>1, <2>2, Zenon
<1>5. \A s \in InUse : s \in Slots /\ base[s].state # "Empty"
  <2>1. CASE quiesced
    BY <1>2, <2>1, Zenon DEF InUse
  <2>2. CASE ~quiesced
    BY <1>2, <2>2, QuiescedFields, Zenon DEF InUse
  <2>3. QED
    BY <2>1, <2>2, Zenon
<1>6. ASSUME NEW s \in InUse, NEW o \in Can(s)
      PROVE  CleanedOK(s, o.slot, o.visible, o.map, o.pin, TRUE)
  <2>1. s \in Slots /\ BaseOK(s, base[s], TRUE) /\ base[s].state # "Empty"
    BY <1>4, <1>5, Zenon
  <2>2. TRUE \in BOOLEAN /\ (quiesced => TRUE)
    OBVIOUS
  <2>3. QED
    BY <2>1, <2>2, OutcomeFacts, Zenon
<1>7. \A s : Succeeds(s) => First(s) \in Can(s)
  BY Zenon
<1>8. ASSUME NEW D, NEW out, D \subseteq InUse, \A s \in D : out[s] \in Can(s),
             Apply(D, out, base)
      PROVE  CleansUp
  <2>1. Cleans(D, out, base)
    BY <1>8, ApplyCleans, Zenon
  <2>2. \A s \in D : CleanedOK(s, out[s].slot, out[s].visible, out[s].map, out[s].pin, TRUE)
    BY <1>6, <1>8, Zenon
  <2>3. CleanupOK(D, out, base)
    BY <1>1, <1>4, <1>8, <2>1, <2>2, Zenon DEF CleanupOK
  <2>4. QED
    BY <2>3, Zenon DEF CleansUp
<1> HIDE DEF Can
<1>9. CASE /\ \A s \in InUse : Succeeds(s)
           /\ Apply(InUse, [s \in InUse |-> First(s)], base)
  <2>1. PICK out : out = [s \in InUse |-> First(s)]
    BY Zenon
  <2>2. \A s \in InUse : out[s] \in Can(s)
    BY <1>7, <1>9, <2>1, Zenon
  <2>3. PICK D : D = InUse
    BY Zenon
  <2>4. Apply(D, out, base) /\ D \subseteq InUse /\ \A s \in D : out[s] \in Can(s)
    BY <1>9, <2>1, <2>2, <2>3, Zenon
  <2>5. QED
    BY <1>8, <2>4, Zenon
<1>10. CASE \E last \in InUse :
            /\ \A s \in Earlier(last) : Succeeds(s)
            /\ \E o \in Can(last) :
                 Apply(Earlier(last) \cup {last},
                       [s \in Earlier(last) \cup {last} |-> IF s = last THEN o ELSE First(s)],
                       base)
  <2>0. PICK last \in InUse :
            /\ \A s \in Earlier(last) : Succeeds(s)
            /\ \E o \in Can(last) :
                 Apply(Earlier(last) \cup {last},
                       [s \in Earlier(last) \cup {last} |-> IF s = last THEN o ELSE First(s)],
                       base)
    BY <1>10, Zenon
  <2>1. PICK o \in Can(last) :
            Apply(Earlier(last) \cup {last},
                  [s \in Earlier(last) \cup {last} |-> IF s = last THEN o ELSE First(s)],
                  base)
    BY <2>0, Zenon
  <2>2. PICK D : D = Earlier(last) \cup {last}
    BY Zenon
  <2>3. PICK out : out = [s \in D |-> IF s = last THEN o ELSE First(s)]
    BY Zenon
  <2>4. Apply(D, out, base) /\ D \subseteq InUse
    BY <2>1, <2>2, <2>3, Zenon
  <2>5. \A s \in D : out[s] \in Can(s)
    BY <1>7, <2>0, <2>1, <2>2, <2>3, Zenon
  <2>6. QED
    BY <1>8, <2>4, <2>5, Zenon
<1>11. QED
  BY <1>3, <1>9, <1>10, Zenon

-----------------------------------------------------------------------------
\* The device and its consumers use and write what the table allows them to.
LEMMA WorldKeeps ==
    ASSUME OwnerInv, UNCHANGED <<owner, pinned, mapped, ended>>,
           users' \subseteq mapped, strays' \subseteq mapped, written' \subseteq pinned,
           users' \cap ended = {}, quiesced => users' = {} /\ strays' = {},
           \A s \in Slots :
              /\ slots[s].generation \in written' => slots[s].mapAttempted
              /\ slots[s].generation \in strays' => slots[s].mappingUncertain
              /\ slots[s].cpuSynchronized /\ slots[s].mapAttempted
                 /\ (quiesced \/ ~slots[s].mappingUncertain) =>
                    slots[s].generation \notin written'
    PROVE  OwnerInv'
<1>1. UNCHANGED <<slots, holds, generation, quiesced>>
  BY DEF owner
<1>2. OwnerTypeOK' /\ Distinct'
  BY <1>1, Zenon DEF OwnerInv, OwnerTypeOK, Distinct
<1>3. WorldInv'
  BY <1>1, Zenon DEF OwnerInv, WorldInv
<1>4. ASSUME NEW s \in Slots PROVE SlotInv(s)'
  <2>1. Sound(slots[s])'
    BY <1>1, Zenon DEF OwnerInv, SlotInv, Sound
  <2>2. Backs(slots[s], holds[s])'
    BY <1>1, Zenon DEF OwnerInv, SlotInv, Backs
  <2>3. Synced(slots[s], holds[s])'
    BY <1>1, Zenon DEF OwnerInv, SlotInv, Synced
  <2>4. QED
    BY <2>1, <2>2, <2>3 DEF SlotInv
<1>5. QED
  BY <1>2, <1>3, <1>4, Zenon DEF OwnerInv

\* The device's own steps.
LEMMA WorldStepKeeps ==
    ASSUME OwnerInv, WorldStep
    PROVE  OwnerInv'
<1>1. ASSUME NEW s \in Slots PROVE Sound(slots[s]) /\ Backs(slots[s], holds[s])
                                   /\ Synced(slots[s], holds[s])
  BY DEF OwnerInv, SlotInv
<1>2. \A s, t \in Slots : slots[s].generation \in pinned
                          /\ slots[s].generation = slots[t].generation => s = t
  BY DEF OwnerInv, WorldInv, Distinct
<1>3. ASSUME NEW s \in Slots, DeviceWrites(s) PROVE OwnerInv'
  <2> DEFINE g == slots[s].generation
  <2>1. /\ g \in mapped /\ ~quiesced /\ written' = written \cup {g}
        /\ holds[s] # 0 \/ g \in users \cup strays
        /\ UNCHANGED <<owner, pinned, mapped, users, strays, ended>>
    BY <1>3 DEF DeviceWrites, consumers
  <2>2. slots[s].mapAttempted
    BY <1>1, <2>1 DEF Backs
  <2>3. slots[s].cpuSynchronized => slots[s].mappingUncertain
    BY <1>1, <2>1, <2>2 DEF Backs, Synced, OwnerInv, WorldInv
  <2>4. g \in pinned
    BY <2>1 DEF OwnerInv, WorldInv
  <2>5. ASSUME NEW t \in Slots
        PROVE  /\ slots[t].generation \in written' => slots[t].mapAttempted
               /\ slots[t].generation \in strays' => slots[t].mappingUncertain
               /\ slots[t].cpuSynchronized /\ slots[t].mapAttempted
                  /\ (quiesced \/ ~slots[t].mappingUncertain) =>
                     slots[t].generation \notin written'
    <3>1. slots[t].generation = g => t = s
      BY <1>2, <2>4
    <3>2. QED
      BY <1>1, <2>1, <2>2, <2>3, <3>1, Zenon DEF Backs, Synced
  <2>6. /\ users' \subseteq mapped /\ strays' \subseteq mapped /\ written' \subseteq pinned
        /\ users' \cap ended = {} /\ (quiesced => users' = {} /\ strays' = {})
    BY <2>1, <2>4, Zenon DEF OwnerInv, WorldInv
  <2>7. QED
    BY <2>1, <2>5, <2>6, WorldKeeps, Zenon
<1>4. ASSUME NEW s \in Slots, ConsumerStarts(s) PROVE OwnerInv'
  <2>1. /\ slots[s].state = "Mapped" /\ slots[s].generation \notin ended /\ ~quiesced
        /\ users' = users \cup {slots[s].generation}
        /\ UNCHANGED <<owner, pinned, mapped, strays, ended, written>>
    BY <1>4 DEF ConsumerStarts
  <2>2. slots[s].generation \in mapped
    BY <1>1, <2>1 DEF Backs
  <2>3. /\ users' \subseteq mapped /\ strays' \subseteq mapped /\ written' \subseteq pinned
        /\ users' \cap ended = {} /\ (quiesced => users' = {} /\ strays' = {})
    BY <2>1, <2>2, Zenon DEF OwnerInv, WorldInv
  <2>4. ASSUME NEW t \in Slots
        PROVE  /\ slots[t].generation \in written' => slots[t].mapAttempted
               /\ slots[t].generation \in strays' => slots[t].mappingUncertain
               /\ slots[t].cpuSynchronized /\ slots[t].mapAttempted
                  /\ (quiesced \/ ~slots[t].mappingUncertain) =>
                     slots[t].generation \notin written'
    BY <1>1, <2>1, Zenon DEF Backs, Synced
  <2>5. QED
    BY <2>1, <2>3, <2>4, WorldKeeps, Zenon
<1>5. ASSUME NEW s \in Slots, DeviceStrays(s) PROVE OwnerInv'
  <2> DEFINE g == slots[s].generation
  <2>1. /\ slots[s].mappingUncertain /\ g \in mapped /\ ~quiesced
        /\ strays' = strays \cup {g}
        /\ UNCHANGED <<owner, pinned, mapped, users, ended, written>>
    BY <1>5 DEF DeviceStrays
  <2>2. g \in pinned
    BY <2>1 DEF OwnerInv, WorldInv
  <2>3. /\ users' \subseteq mapped /\ strays' \subseteq mapped /\ written' \subseteq pinned
        /\ users' \cap ended = {} /\ (quiesced => users' = {} /\ strays' = {})
    BY <2>1, Zenon DEF OwnerInv, WorldInv
  <2>4. ASSUME NEW t \in Slots
        PROVE  /\ slots[t].generation \in written' => slots[t].mapAttempted
               /\ slots[t].generation \in strays' => slots[t].mappingUncertain
               /\ slots[t].cpuSynchronized /\ slots[t].mapAttempted
                  /\ (quiesced \/ ~slots[t].mappingUncertain) =>
                     slots[t].generation \notin written'
    <3>1. slots[t].generation = g => t = s
      BY <1>2, <2>2
    <3>2. QED
      BY <1>1, <2>1, <3>1, Zenon DEF Backs, Synced
  <2>5. QED
    BY <2>1, <2>3, <2>4, WorldKeeps, Zenon
<1>6. ASSUME NEW g \in users, ConsumerEnds(g) PROVE OwnerInv'
  <2>1. /\ users' = users \ {g}
        /\ UNCHANGED <<owner, pinned, mapped, strays, ended, written>>
    BY <1>6 DEF ConsumerEnds
  <2>2. /\ users' \subseteq mapped /\ strays' \subseteq mapped /\ written' \subseteq pinned
        /\ users' \cap ended = {} /\ (quiesced => users' = {} /\ strays' = {})
    BY <2>1, Zenon DEF OwnerInv, WorldInv
  <2>3. ASSUME NEW t \in Slots
        PROVE  /\ slots[t].generation \in written' => slots[t].mapAttempted
               /\ slots[t].generation \in strays' => slots[t].mappingUncertain
               /\ slots[t].cpuSynchronized /\ slots[t].mapAttempted
                  /\ (quiesced \/ ~slots[t].mappingUncertain) =>
                     slots[t].generation \notin written'
    BY <1>1, <2>1, Zenon DEF Backs, Synced
  <2>4. QED
    BY <2>1, <2>2, <2>3, WorldKeeps, Zenon
<1>7. QED
  BY <1>3, <1>4, <1>5, <1>6, Zenon DEF WorldStep

\* The empty table satisfies the invariant.
LEMMA OwnerInvInit == OwnerInit => OwnerInv
<1> SUFFICES ASSUME OwnerInit PROVE OwnerInv
  OBVIOUS
<1>1. /\ slots = [s \in Slots |-> EmptySlot] /\ holds = [s \in Slots |-> 0]
      /\ generation = 1 /\ quiesced = FALSE /\ pinned = {} /\ mapped = {} /\ written = {}
      /\ users = {} /\ strays = {} /\ ended = {}
  BY DEF OwnerInit
<1>2. /\ EmptySlot.state = "Empty" /\ EmptySlot.generation = 0
      /\ ~EmptySlot.mapAttempted /\ ~EmptySlot.mappingUncertain
  BY Zenon DEF EmptySlot
<1>3. \A s \in Slots : slots[s] = EmptySlot /\ holds[s] = 0
  BY <1>1, Zenon
<1>4. OwnerTypeOK
  <2>1. 0 \in Nat /\ generation \in 1 .. MaxGeneration
    BY <1>1, GenerationAssumption
  <2>2. QED
    BY <1>1, <2>1, EmptyIsSlot, Zenon DEF OwnerTypeOK
<1>5. \A s \in Slots : SlotInv(s)
  BY <1>1, <1>2, <1>3 DEF SlotInv, Sound, Backs, Synced
<1>6. Distinct /\ WorldInv
  BY <1>1, <1>2, <1>3 DEF Distinct, WorldInv
<1>7. QED
  BY <1>4, <1>5, <1>6 DEF OwnerInv

\* A step that leaves the owner and its world alone keeps the invariant.
LEMMA OwnerStutter ==
    ASSUME OwnerInv, UNCHANGED ownerVars
    PROVE  OwnerInv'
<1>1. UNCHANGED <<slots, holds, generation, quiesced, pinned, mapped, written, users, strays,
                  ended>>
  BY DEF ownerVars, owner, world, consumers
<1>2. QED
  BY <1>1, Zenon DEF OwnerInv, OwnerTypeOK, SlotInv, Sound, Backs, Synced, Distinct, WorldInv

\* Every call of the owner keeps it.
LEMMA OwnerCalls ==
    ASSUME OwnerInv, ClientStep \/ RetireStep \/ StopStep \/ HoldStep
    PROVE  OwnerInv'
<1>c. CleansUp => OwnerInv'
  BY ApplyStep, Zenon DEF CleansUp
<1>1. CASE ClientStep
  BY <1>1, AllocateStep, AllocateRejectedStep, MapUnavailableStep, MapStep, SyncStep, Zenon
     DEF ClientStep
<1>2. CASE RetireStep
  BY <1>2, RetireCleans, <1>c, Zenon DEF RetireStep
<1>3. CASE StopStep
  BY <1>3, SynchronizeFailsStep, DoubtedStep, QuiesceCleans, QuiesceFailsCleans, CloseCleans,
     <1>c, Zenon DEF StopStep
<1>4. CASE HoldStep
  BY <1>4, RetainStep, ReleaseStep, SyncRetainedStep, Zenon DEF HoldStep
<1>5. QED
  BY <1>1, <1>2, <1>3, <1>4

\* OwnerInv is an invariant of the owner, for every number of slots, every
\* quota, careful and careless backends, with and without other consumers.
THEOREM OwnerInvariant == OwnerSpec => []OwnerInv
<1>1. OwnerInv /\ [OwnerNext]_ownerVars => OwnerInv'
  BY OwnerCalls, WorldStepKeeps, OwnerStutter DEF OwnerNext
<1>2. QED
  BY OwnerInvInit, <1>1, PTL DEF OwnerSpec

\* No GPU translation outlives its backing, and both belong to a slot until
\* the backend has confirmed that they are gone.
THEOREM BackingStaysOwned == OwnerSpec => []BackingIsOwned
<1>1. OwnerInv => BackingIsOwned
  BY DEF OwnerInv, WorldInv, SlotInv, Backs, BackingIsOwned
<1>2. QED
  BY <1>1, OwnerInvariant, PTL

\* What a job holds or another consumer uses stays translated and backed.
THEOREM UseStaysMapped == OwnerSpec => []UsedIsMapped
<1>1. OwnerInv => UsedIsMapped
  BY DEF OwnerInv, WorldInv, SlotInv, Backs, UsedIsMapped
<1>2. QED
  BY <1>1, OwnerInvariant, PTL

\* No backing is given back while the CPU may miss a write of the device.
THEOREM NoWriteIsLost == OwnerSpec => []WritesAreVisible
<1>1. OwnerInv => WritesAreVisible
  BY DEF OwnerInv, WorldInv, WritesAreVisible
<1>2. QED
  BY <1>1, OwnerInvariant, PTL

-----------------------------------------------------------------------------
\* No call of a client and no fault takes a held allocation out of its slot.
HeldKept ==
    /\ holds' = holds
    /\ \A s \in Slots : holds[s] # 0 => slots'[s].generation = slots[s].generation

\* Slots change hands one way only: one is filled, or some are emptied.
Filled == \E s \in Slots :
    /\ slots[s].state = "Empty" /\ quiesced' = quiesced
    /\ \A t \in Slots \ {s} : slots'[t] = slots[t]

Emptied == \A s \in Slots : slots'[s].state # "Empty" =>
    slots[s].state # "Empty" /\ slots'[s].generation = slots[s].generation

OwnerMove == HeldKept /\ (quiesced => quiesced') /\ (Filled \/ Emptied)

\* A held slot is in use, translated and backed.
LEMMA HeldInUse ==
    ASSUME OwnerInv, NEW s \in Slots, holds[s] # 0
    PROVE  slots[s].state # "Empty" /\ slots[s].generation \in mapped \cap pinned
           /\ slots[s].generation # 0
<1>1. slots[s].generation \in mapped \cap pinned /\ slots[s].generation # 0
  BY DEF OwnerInv, SlotInv, Backs, WorldInv
<1>2. EmptySlot.generation = 0
  BY Zenon DEF EmptySlot
<1>3. QED
  BY <1>1, <1>2 DEF OwnerInv, SlotInv, Sound

\* A call that assigns fields of one slot, but not its generation.
LEMMA OneSlotMove ==
    ASSUME OwnerInv, NEW h \in Handle, Lookup(h), NEW y,
           slots' = [slots EXCEPT ![h.slot] = y], y.generation = slots[h.slot].generation,
           holds' = holds, quiesced' = quiesced
    PROVE  OwnerMove
<1>1. h.slot \in Slots /\ slots[h.slot].state # "Empty"
      /\ slots'[h.slot] = y /\ \A t \in Slots \ {h.slot} : slots'[t] = slots[t]
  BY DEF Handle, Lookup, OwnerInv, OwnerTypeOK
<1>2. HeldKept /\ Emptied
  BY <1>1 DEF HeldKept, Emptied
<1>3. QED
  BY <1>2 DEF OwnerMove

\* allocate() fills a slot.
LEMMA AllocateMoves ==
    ASSUME OwnerInv, NEW bytes \in Sizes, Allocate(bytes) \/ AllocateRejected(bytes)
    PROVE  OwnerMove
<1>1. CASE Allocate(bytes)
  <2>1. PICK s \in Slots : slots[s].state = "Empty" /\ \E y : slots' = [slots EXCEPT ![s] = y]
    BY <1>1, ZenonT(30) DEF Allocate, IsFirstEmpty, InUse
  <2>2. holds' = holds /\ quiesced' = quiesced
    BY <1>1, Zenon DEF Allocate
  <2>3. \A t \in Slots \ {s} : slots'[t] = slots[t]
    BY <2>1 DEF OwnerInv, OwnerTypeOK
  <2>4. holds[s] = 0
    BY <2>1, HeldInUse
  <2>5. QED
    BY <2>1, <2>2, <2>3, <2>4 DEF OwnerMove, HeldKept, Filled
<1>2. CASE AllocateRejected(bytes)
  BY <1>2 DEF AllocateRejected, OwnerMove, HeldKept, Emptied
<1>3. QED
  BY <1>1, <1>2

\* The generation is none of the fields that the calls assign.
LEMMA GenerationKept ==
    ASSUME NEW x \in Slot
    PROVE  /\ [x EXCEPT !.state = "Quarantined"].generation = x.generation
           /\ \A b \in BOOLEAN : [x EXCEPT !.cpuSynchronized = b].generation = x.generation
           /\ [x EXCEPT !.mappingUncertain = TRUE] \in Slot
           /\ [x EXCEPT !.mappingUncertain = TRUE].generation = x.generation
<1>1. ASSUME NEW b \in BOOLEAN PROVE [x EXCEPT !.cpuSynchronized = b].generation = x.generation
  BY Zenon DEF Slot
<1>2. /\ [x EXCEPT !.state = "Quarantined"].generation = x.generation
      /\ [x EXCEPT !.mappingUncertain = TRUE] \in Slot
      /\ [x EXCEPT !.mappingUncertain = TRUE].generation = x.generation
  BY Zenon DEF Slot
<1>3. QED
  BY <1>1, <1>2, Zenon

\* map() leaves the allocation in its slot.
LEMMA MapMoves ==
    ASSUME OwnerInv, NEW h \in Handle, Map(h)
    PROVE  OwnerMove
<1> DEFINE x == slots[h.slot]
<1>1. Lookup(h) /\ holds' = holds /\ quiesced' = quiesced /\ x \in Slot
  BY LookupFacts, Zenon DEF Map, Mappable, OnlySlot
<1>2. PICK address \in Answers(h.generation, MappingsBut(h.slot)) :
         LET slot == [x EXCEPT !.cpuSynchronized = FALSE,
                               !.mapAttempted = TRUE, !.mapping = address]
         IN  \/ slots' = [slots EXCEPT ![h.slot] = [slot EXCEPT !.state = "Mapped"]]
             \/ Quarantine(h.slot, MapFailed(slot))
  BY Zenon DEF Map
<1> DEFINE slot == [x EXCEPT !.cpuSynchronized = FALSE, !.mapAttempted = TRUE,
                             !.mapping = address]
<1>3. address \in Token
  <2>1. MappingsBut(h.slot) \subseteq Token
    BY DEF MappingsBut, OwnerInv, OwnerTypeOK, Slot
  <2>2. h.generation \in Generations
    BY DEF Handle
  <2>3. QED
    BY <2>1, <2>2, AnswersAreTokens
<1>4. slot \in Slot /\ slot.generation = x.generation
  BY <1>1, <1>3, ZenonT(30) DEF Slot
<1>5. CASE slots' = [slots EXCEPT ![h.slot] = [slot EXCEPT !.state = "Mapped"]]
  <2>1. [slot EXCEPT !.state = "Mapped"].generation = x.generation
    <3> HIDE DEF slot
    <3>1. QED
      BY <1>4, Zenon DEF Slot
  <2>2. QED
    BY <1>1, <1>5, <2>1, OneSlotMove, Zenon
<1>6. CASE Quarantine(h.slot, MapFailed(slot))
  <2> DEFINE y == [MapFailed(slot) EXCEPT !.state = "Quarantined"]
  <2>1. slots' = [slots EXCEPT ![h.slot] = y]
    BY <1>6, Zenon DEF Quarantine
  <2>2. y.generation = x.generation
    <3> HIDE DEF slot
    <3>1. MapFailed(slot) \in Slot /\ MapFailed(slot).generation = x.generation
      BY <1>4, GenerationKept, Zenon DEF MapFailed
    <3>2. QED
      BY <3>1, GenerationKept, Zenon
  <2>3. QED
    BY <1>1, <2>1, <2>2, OneSlotMove, Zenon
<1>7. QED
  BY <1>2, <1>5, <1>6, Zenon

\* So do synchronization and the calls that fail.
LEMMA CallMoves ==
    ASSUME OwnerInv, NEW h \in Handle,
           MapUnavailable(h) \/ Sync(h) \/ SynchronizeFails(h) \/ Doubted(h)
    PROVE  OwnerMove
<1> DEFINE x == slots[h.slot]
<1>1. Lookup(h) /\ holds' = holds /\ quiesced' = quiesced
  BY Zenon DEF MapUnavailable, Mappable, Sync, SynchronizeFails, Doubted, OnlySlot
<1>2. x \in Slot
  BY <1>1, LookupFacts
<1>3. \/ \E b \in BOOLEAN : slots' = [slots EXCEPT ![h.slot] = [x EXCEPT !.cpuSynchronized = b]]
      \/ slots' = [slots EXCEPT ![h.slot] = [x EXCEPT !.state = "Quarantined"]]
      \/ slots' = [slots EXCEPT ![h.slot] =
                      [[x EXCEPT !.mappingUncertain = TRUE] EXCEPT !.state = "Quarantined"]]
  BY ZenonT(30) DEF MapUnavailable, Sync, SynchronizeFails, Doubted, Quarantine
<1>4. CASE \E b \in BOOLEAN :
              slots' = [slots EXCEPT ![h.slot] = [x EXCEPT !.cpuSynchronized = b]]
  <2>1. PICK b \in BOOLEAN :
              slots' = [slots EXCEPT ![h.slot] = [x EXCEPT !.cpuSynchronized = b]]
    BY <1>4, Zenon
  <2>2. PICK y : y = [x EXCEPT !.cpuSynchronized = b]
    BY Zenon
  <2>3. y.generation = x.generation /\ slots' = [slots EXCEPT ![h.slot] = y]
    BY <1>2, <2>1, <2>2, GenerationKept, Zenon
  <2>4. QED
    BY <1>1, <2>3, OneSlotMove, Zenon
<1>5. CASE slots' = [slots EXCEPT ![h.slot] = [x EXCEPT !.state = "Quarantined"]]
  <2>1. PICK y : y = [x EXCEPT !.state = "Quarantined"]
    BY Zenon
  <2>2. y.generation = x.generation /\ slots' = [slots EXCEPT ![h.slot] = y]
    BY <1>2, <1>5, <2>1, GenerationKept, Zenon
  <2>3. QED
    BY <1>1, <2>2, OneSlotMove, Zenon
<1>6. CASE slots' = [slots EXCEPT ![h.slot] =
                      [[x EXCEPT !.mappingUncertain = TRUE] EXCEPT !.state = "Quarantined"]]
  <2>1. PICK z \in Slot : z = [x EXCEPT !.mappingUncertain = TRUE] /\ z.generation = x.generation
    BY <1>2, GenerationKept, Zenon
  <2>2. PICK y : y = [z EXCEPT !.state = "Quarantined"]
    BY Zenon
  <2>3. y.generation = x.generation /\ slots' = [slots EXCEPT ![h.slot] = y]
    BY <1>6, <2>1, <2>2, GenerationKept, Zenon
  <2>4. QED
    BY <1>1, <2>3, OneSlotMove, Zenon
<1>7. QED
  BY <1>3, <1>4, <1>5, <1>6, Zenon

\* retire(), quiesce() and close() leave held slots alone.
LEMMA CleanupMoves ==
    ASSUME OwnerInv, CleansUp
    PROVE  OwnerMove
<1>1. PICK D, out, base : CleanupOK(D, out, base)
  BY Zenon DEF CleansUp
<1>2. /\ slots' = [s \in Slots |-> IF s \in D THEN out[s].slot ELSE base[s]]
      /\ holds' = holds /\ (quiesced => quiesced') /\ D \subseteq InUse
  BY <1>1, Zenon DEF CleanupOK, Cleans
<1>3. EmptySlot.state = "Empty"
  BY Zenon DEF EmptySlot
<1>4. ASSUME NEW s \in D
      PROVE  /\ holds[s] # 0 => slots'[s].generation = slots[s].generation
             /\ slots'[s].state # "Empty" =>
                   slots[s].state # "Empty" /\ slots'[s].generation = slots[s].generation
  <2>1. s \in Slots /\ slots[s].state # "Empty" /\ slots'[s] = out[s].slot
    BY <1>2, Zenon DEF InUse
  <2>2. CleanedOK(s, out[s].slot, out[s].visible, out[s].map, out[s].pin, quiesced')
    BY <1>1, Zenon DEF CleanupOK
  <2>3. QED
    BY <1>3, <2>1, <2>2, Zenon DEF CleanedOK
<1>5. ASSUME NEW s \in Slots \ D
      PROVE  /\ slots'[s].generation = slots[s].generation
             /\ slots'[s].state # "Empty" => slots[s].state # "Empty"
  <2>1. slots'[s] = base[s] /\ BaseOK(s, base[s], quiesced')
    BY <1>1, <1>2, Zenon DEF CleanupOK
  <2>2. slots[s].state = "Empty" => slots[s].generation = 0
    <3>1. EmptySlot.generation = 0
      BY Zenon DEF EmptySlot
    <3>2. QED
      BY <3>1, Zenon DEF OwnerInv, SlotInv, Sound
  <2>3. QED
    BY <2>1, <2>2, Zenon DEF BaseOK
<1>6. HeldKept /\ Emptied
  BY <1>2, <1>4, <1>5, Zenon DEF HeldKept, Emptied
<1>7. QED
  BY <1>2, <1>6, Zenon DEF OwnerMove

\* Every call of a client, every retire() and every fault.
LEMMA OwnerMoves ==
    ASSUME OwnerInv, ClientStep \/ RetireStep \/ StopStep
    PROVE  OwnerMove
<1>2. CASE ClientStep
  BY <1>2, AllocateMoves, MapMoves, CallMoves, Zenon DEF ClientStep
<1>3. CASE RetireStep
  BY <1>3, RetireCleans, CleanupMoves, Zenon DEF RetireStep
<1>4. CASE StopStep
  BY <1>4, CallMoves, QuiesceCleans, QuiesceFailsCleans, CloseCleans, CleanupMoves, Zenon
     DEF StopStep
<1>5. QED
  BY <1>2, <1>3, <1>4
=============================================================================
