--------------------------- MODULE XeMemoryProofs ---------------------------
(***************************************************************************)
(* The safety of VirtualMemory for every capacity, address space, set of   *)
(* owners and sequence of Backend failures.  None of the three properties  *)
(* is inductive alone.  MappedIsPinned needs that generations are distinct *)
(* (RecordsDisjoint), so that the record named by a page is the one a call *)
(* changes, and that a record which may be bound has a pin (Backed).       *)
(* RecordedWorkMapped needs that a record's last fence is on the timeline  *)
(* of all its earlier ones and not before them (UsesCovered).                  *)
(***************************************************************************)
EXTENDS XeMemory, TLAPS

RecordStates == {"Free", "Reserved", "Excluded", "Pinned", "Bound", "Retiring", "Quarantined"}

Allocations ==
    [state : RecordStates, owner : Owners \cup {NoOwner}, generation : Nat, address : Nat,
     pages : Nat, pin : {"none", "valid", "partial"}, lastUse : Fence \cup {NoFence}]

VmTypeOK ==
    /\ slots \in [Slots -> Allocations]
    /\ nextGeneration \in Nat \ {0}
    /\ pte \in [Pages -> Nat]
    /\ completed \in [Timelines -> Nat]
    /\ recorded \subseteq [generation : Nat, fence : Fence]

\* A record whose memory may be mapped has its pin.
Backed ==
    \A s \in Slots : slots[s].state \in {"Pinned", "Bound", "Retiring"} =>
        slots[s].generation \in pins

\* The last fence of record s stands for the recorded use r.
StandsFor(s, r) ==
    /\ slots[s].generation = r.generation
    /\ slots[s].state \in {"Bound", "Retiring"}
    /\ slots[s].lastUse.timeline = r.fence.timeline
    /\ r.fence.value <= slots[s].lastUse.value

UsesCovered ==
    \A r \in recorded : FenceComplete(r.fence) \/ \E s \in Slots : StandsFor(s, r)

\* A record that may be used is mapped on all its pages.
BoundIsMapped ==
    \A s \in Slots : slots[s].state \in {"Bound", "Retiring"} =>
        \A p \in SpanOf(s) : pte[p] = slots[s].generation

VmInv ==
    /\ VmTypeOK /\ RecordsDisjoint /\ Backed /\ MappedIsPinned
    /\ BoundIsMapped /\ UsesCovered

-----------------------------------------------------------------------------
\* A call that changes record k alone, keeps its place and generation, and
\* leaves it in state st.
Moves(k, st) ==
    /\ slots' \in [Slots -> Allocations]
    /\ \A s \in Slots : s # k => slots'[s] = slots[s]
    /\ slots'[k].state = st
    /\ slots'[k].address = slots[k].address
    /\ slots'[k].pages = slots[k].pages
    /\ slots'[k].generation = slots[k].generation
    /\ slots'[k].lastUse = slots[k].lastUse

\* A call that frees record k.
Frees(k) ==
    /\ slots' \in [Slots -> Allocations]
    /\ \A s \in Slots : s # k => slots'[s] = slots[s]
    /\ slots'[k].state = "Free"

\* The empty record is a record.
LEMMA FreeIsAllocation == FreeAllocation \in Allocations /\ FreeAllocation.state = "Free"
  BY DEF FreeAllocation, Allocations, RecordStates

\* What a successful lookup() says of the record.
LEMMA LookupFacts ==
    ASSUME VmInv, NEW o \in Owners, NEW h \in Handle, NEW S, Lookup(o, h, S)
    PROVE  /\ h.slot \in Slots /\ h.generation \in Nat \ {0}
           /\ slots[h.slot] \in Allocations
           /\ slots[h.slot].state \in S /\ slots[h.slot].state # "Free"
           /\ slots[h.slot].generation = h.generation
  BY MaxGenerationAssumption DEF Lookup, VmInv, VmTypeOK, Handle

\* Changing the state of a record moves it, quarantine included.
LEMMA StateMoves ==
    ASSUME VmInv, NEW k \in Slots, NEW st \in RecordStates,
           slots' = [slots EXCEPT ![k].state = st]
    PROVE  Moves(k, st)
  BY DEF VmInv, VmTypeOK, Moves, Allocations

\* So does changing it together with the pin receipt.
LEMMA PinMoves ==
    ASSUME VmInv, NEW k \in Slots, NEW st \in RecordStates, NEW receipt \in {"valid", "partial"},
           slots' = [slots EXCEPT ![k].state = st, ![k].pin = receipt]
    PROVE  Moves(k, st)
  BY ZenonT(30) DEF VmInv, VmTypeOK, Moves, Allocations

\* Resetting a record frees it.
LEMMA FreedFrees ==
    ASSUME VmInv, NEW k \in Slots, Freed(k)
    PROVE  Frees(k)
  BY FreeIsAllocation DEF VmInv, VmTypeOK, Frees, Freed

\* Records stay apart when one of them changes its state.
LEMMA MovesKeepsDisjoint ==
    ASSUME VmInv, NEW k \in Slots, NEW st, slots[k].state # "Free", Moves(k, st),
           nextGeneration' = nextGeneration
    PROVE  RecordsDisjoint'
<1>1. ASSUME NEW s \in Slots
      PROVE  /\ SpanOf(s)' = SpanOf(s) /\ slots'[s].generation = slots[s].generation
             /\ slots'[s].state # "Free" => slots[s].state # "Free"
  BY DEF Moves, SpanOf
<1>2. QED
  BY <1>1 DEF VmInv, RecordsDisjoint

\* Records stay apart when one of them is freed.
LEMMA FreesKeepsDisjoint ==
    ASSUME VmInv, NEW k \in Slots, Frees(k), nextGeneration' = nextGeneration
    PROVE  RecordsDisjoint'
<1>1. ASSUME NEW s \in Slots, slots'[s].state # "Free"
      PROVE  SpanOf(s)' = SpanOf(s) /\ slots'[s] = slots[s]
  BY <1>1 DEF Frees, SpanOf
<1>2. QED
  BY <1>1 DEF VmInv, RecordsDisjoint

-----------------------------------------------------------------------------
\* A page that maps a record's generation lies in that record's interval; a
\* record that was never bound is mapped nowhere.
LEMMA MappedFacts ==
    ASSUME VmInv, NEW k \in Slots, slots[k].state # "Free",
           NEW p \in Pages, pte[p] # 0, pte[p] = slots[k].generation
    PROVE  /\ p \in SpanOf(k) /\ pte[p] \in pins
           /\ slots[k].state \in {"Bound", "Retiring", "Quarantined"}
<1>1. PICK s \in Slots : /\ slots[s].state \in {"Bound", "Retiring", "Quarantined"}
                         /\ slots[s].generation = pte[p] /\ p \in SpanOf(s)
  BY DEF VmInv, MappedIsPinned
<1>2. s = k
  BY <1>1 DEF VmInv, RecordsDisjoint
<1>3. QED
  BY <1>1, <1>2 DEF VmInv, MappedIsPinned

\* No pin but that of generation g may be given up.
PinsKeptBut(g) == \A x \in pins : x # g => x \in pins'

\* Pins stay with the records that may be mapped.
LEMMA MovesKeepsBacked ==
    ASSUME VmInv, NEW k \in Slots, NEW st, slots[k].state # "Free", Moves(k, st),
           PinsKeptBut(slots[k].generation),
           st \in {"Pinned", "Bound", "Retiring"} => slots[k].generation \in pins'
    PROVE  Backed'
<1>1. SUFFICES ASSUME NEW s \in Slots, slots'[s].state \in {"Pinned", "Bound", "Retiring"}
               PROVE  slots'[s].generation \in pins'
  BY DEF Backed
<1>2. CASE s = k
  BY <1>1, <1>2 DEF Moves
<1>3. CASE s # k
  <2>1. slots'[s] = slots[s]
    BY <1>3 DEF Moves
  <2>2. slots[s].generation \in pins /\ slots[s].generation # slots[k].generation
    BY <1>1, <1>3, <2>1 DEF VmInv, Backed, RecordsDisjoint
  <2>3. QED
    BY <2>1, <2>2 DEF PinsKeptBut
<1>4. QED
  BY <1>2, <1>3

\* Freeing a record takes no other record's pin.
LEMMA FreesKeepsBacked ==
    ASSUME VmInv, NEW k \in Slots, slots[k].state # "Free", Frees(k),
           PinsKeptBut(slots[k].generation)
    PROVE  Backed'
<1>1. SUFFICES ASSUME NEW s \in Slots, slots'[s].state \in {"Pinned", "Bound", "Retiring"}
               PROVE  slots'[s].generation \in pins'
  BY DEF Backed
<1>2. s # k /\ slots'[s] = slots[s]
  BY <1>1 DEF Frees
<1>3. slots[s].generation \in pins /\ slots[s].generation # slots[k].generation
  BY <1>1, <1>2 DEF VmInv, Backed, RecordsDisjoint
<1>4. QED
  BY <1>2, <1>3 DEF PinsKeptBut

\* Every page maps what it did, of another record than k, or it maps k, which
\* is pinned and in a state that owns its mapping.
LEMMA MovesKeepsMapped ==
    ASSUME VmInv, NEW k \in Slots, NEW st, slots[k].state # "Free", Moves(k, st),
           PinsKeptBut(slots[k].generation),
           \A p \in Pages : pte'[p] # 0 =>
              \/ pte'[p] = pte[p] /\ pte[p] # slots[k].generation
              \/ /\ pte'[p] = slots[k].generation /\ p \in SpanOf(k)
                 /\ slots[k].generation \in pins'
                 /\ st \in {"Bound", "Retiring", "Quarantined"}
    PROVE  MappedIsPinned'
<1>1. SUFFICES ASSUME NEW p \in Pages, pte'[p] # 0
               PROVE  /\ pte'[p] \in pins'
                      /\ \E s \in Slots :
                            /\ slots'[s].state \in {"Bound", "Retiring", "Quarantined"}
                            /\ slots'[s].generation = pte'[p]
                            /\ p \in SpanOf(s)'
  BY DEF MappedIsPinned
<1>2. CASE pte'[p] = pte[p] /\ pte[p] # slots[k].generation
  <2>1. PICK s \in Slots : /\ slots[s].state \in {"Bound", "Retiring", "Quarantined"}
                           /\ slots[s].generation = pte[p] /\ p \in SpanOf(s)
    BY <1>1, <1>2 DEF VmInv, MappedIsPinned
  <2>2. slots'[s] = slots[s] /\ SpanOf(s)' = SpanOf(s)
    BY <1>2, <2>1 DEF Moves, SpanOf
  <2>3. pte[p] \in pins'
    BY <1>1, <1>2 DEF VmInv, MappedIsPinned, PinsKeptBut
  <2>4. QED
    BY <1>2, <2>1, <2>2, <2>3
<1>3. CASE pte'[p] = slots[k].generation /\ p \in SpanOf(k) /\ slots[k].generation \in pins'
           /\ st \in {"Bound", "Retiring", "Quarantined"}
  <2>1. SpanOf(k)' = SpanOf(k) /\ slots'[k].generation = slots[k].generation /\ slots'[k].state = st
    BY DEF Moves, SpanOf
  <2>2. QED
    BY <1>3, <2>1
<1>4. QED
  BY <1>1, <1>2, <1>3

\* A record is freed only when no page maps it.
LEMMA FreesKeepsMapped ==
    ASSUME VmInv, NEW k \in Slots, slots[k].state # "Free", Frees(k),
           PinsKeptBut(slots[k].generation),
           \A p \in Pages : pte'[p] # 0 => pte'[p] = pte[p] /\ pte[p] # slots[k].generation
    PROVE  MappedIsPinned'
<1>1. SUFFICES ASSUME NEW p \in Pages, pte'[p] # 0
               PROVE  /\ pte'[p] \in pins'
                      /\ \E s \in Slots :
                            /\ slots'[s].state \in {"Bound", "Retiring", "Quarantined"}
                            /\ slots'[s].generation = pte'[p]
                            /\ p \in SpanOf(s)'
  BY DEF MappedIsPinned
<1>2. PICK s \in Slots : /\ slots[s].state \in {"Bound", "Retiring", "Quarantined"}
                         /\ slots[s].generation = pte[p] /\ p \in SpanOf(s)
  BY <1>1 DEF VmInv, MappedIsPinned
<1>3. slots'[s] = slots[s] /\ SpanOf(s)' = SpanOf(s)
  BY <1>1, <1>2 DEF Frees, SpanOf
<1>4. pte[p] \in pins'
  BY <1>1 DEF VmInv, MappedIsPinned, PinsKeptBut
<1>5. QED
  BY <1>1, <1>2, <1>3, <1>4

\* Pages change only inside the interval of the record, and as its state says.
LEMMA MovesKeepsBound ==
    ASSUME VmInv, NEW k \in Slots, NEW st, slots[k].state # "Free", Moves(k, st),
           \A p \in Pages : p \notin SpanOf(k) => pte'[p] = pte[p],
           st \in {"Bound", "Retiring"} => \A p \in SpanOf(k) : pte'[p] = slots[k].generation
    PROVE  BoundIsMapped'
<1>1. SUFFICES ASSUME NEW s \in Slots, slots'[s].state \in {"Bound", "Retiring"},
                      NEW p \in SpanOf(s)'
               PROVE  pte'[p] = slots'[s].generation
  BY DEF BoundIsMapped
<1>2. SpanOf(s)' = SpanOf(s) /\ slots'[s].generation = slots[s].generation
  BY DEF Moves, SpanOf
<1>3. CASE s = k
  BY <1>1, <1>2, <1>3 DEF Moves
<1>4. CASE s # k
  <2>1. slots'[s] = slots[s]
    BY <1>4 DEF Moves
  <2>2. p \in Pages /\ p \notin SpanOf(k)
    BY <1>1, <1>2, <1>4, <2>1 DEF VmInv, RecordsDisjoint
  <2>3. QED
    BY <1>1, <1>2, <2>1, <2>2 DEF VmInv, BoundIsMapped
<1>5. QED
  BY <1>3, <1>4

\* So it is when the record is freed.
LEMMA FreesKeepsBound ==
    ASSUME VmInv, NEW k \in Slots, slots[k].state # "Free", Frees(k),
           \A p \in Pages : p \notin SpanOf(k) => pte'[p] = pte[p]
    PROVE  BoundIsMapped'
<1>1. SUFFICES ASSUME NEW s \in Slots, slots'[s].state \in {"Bound", "Retiring"},
                      NEW p \in SpanOf(s)'
               PROVE  pte'[p] = slots'[s].generation
  BY DEF BoundIsMapped
<1>2. s # k /\ slots'[s] = slots[s] /\ SpanOf(s)' = SpanOf(s)
  BY <1>1 DEF Frees, SpanOf
<1>3. p \in Pages /\ p \notin SpanOf(k)
  BY <1>1, <1>2 DEF VmInv, RecordsDisjoint
<1>4. QED
  BY <1>1, <1>2, <1>3 DEF VmInv, BoundIsMapped

-----------------------------------------------------------------------------
\* When the last fence of a record has completed, so has all that it covers.
LEMMA CompleteCovers ==
    ASSUME VmInv, NEW s \in Slots, NEW r \in recorded, StandsFor(s, r),
           FenceComplete(slots[s].lastUse)
    PROVE  FenceComplete(r.fence)
<1>1. r.fence \in Fence /\ slots[s].lastUse \in Fence \cup {NoFence} /\ completed \in [Timelines -> Nat]
  BY DEF VmInv, VmTypeOK, Allocations
<1>2. r.fence.value \in Nat \ {0} /\ slots[s].lastUse.value \in Nat /\ r.fence.timeline \in Timelines
  BY <1>1, MaxValueAssumption DEF Fence, NoFence
<1>3. QED
  BY <1>1, <1>2 DEF StandsFor, FenceComplete

\* A record stops answering for its recorded work only when that has completed.
LEMMA MovesKeepsCovered ==
    ASSUME VmInv, NEW k \in Slots, NEW st, Moves(k, st),
           recorded' = recorded, completed' = completed,
           slots[k].state \in {"Bound", "Retiring"} =>
              st \in {"Bound", "Retiring"} \/ FenceComplete(slots[k].lastUse)
    PROVE  UsesCovered'
<1>1. SUFFICES ASSUME NEW r \in recorded, ~FenceComplete(r.fence)
               PROVE  \E s \in Slots : StandsFor(s, r)'
  BY DEF UsesCovered, FenceComplete
<1>2. PICK s \in Slots : StandsFor(s, r)
  BY <1>1 DEF VmInv, UsesCovered
<1>3. CASE s = k
  <2>1. st \in {"Bound", "Retiring"}
    BY <1>1, <1>2, <1>3, CompleteCovers DEF StandsFor
  <2>2. QED
    BY <1>2, <1>3, <2>1 DEF StandsFor, Moves
<1>4. CASE s # k
  BY <1>2, <1>4 DEF StandsFor, Moves
<1>5. QED
  BY <1>3, <1>4

\* Nor is a record freed before.
LEMMA FreesKeepsCovered ==
    ASSUME VmInv, NEW k \in Slots, Frees(k), recorded' = recorded, completed' = completed,
           slots[k].state \in {"Bound", "Retiring"} => FenceComplete(slots[k].lastUse)
    PROVE  UsesCovered'
<1>1. SUFFICES ASSUME NEW r \in recorded, ~FenceComplete(r.fence)
               PROVE  \E s \in Slots : StandsFor(s, r)'
  BY DEF UsesCovered, FenceComplete
<1>2. PICK s \in Slots : StandsFor(s, r)
  BY <1>1 DEF VmInv, UsesCovered
<1>3. s # k
  BY <1>1, <1>2, CompleteCovers DEF StandsFor
<1>4. QED
  BY <1>2, <1>3 DEF StandsFor, Frees

-----------------------------------------------------------------------------
\* insert() puts the new record where no other is, under a fresh generation.
LEMMA InsertKeepsInv ==
    ASSUME VmInv, NEW o \in Owners \cup {NoOwner}, NEW address, NEW n \in Sizes,
           NEW st \in {"Reserved", "Excluded"}, Insert(o, address, n, st)
    PROVE  VmInv'
<1>1. PICK k \in Slots :
         /\ IsFirstFreeSlot(k)
         /\ slots' = [slots EXCEPT ![k] =
               [FreeAllocation EXCEPT !.state = st, !.owner = o, !.address = address,
                                      !.pages = n, !.generation = nextGeneration]]
  BY Zenon DEF Insert
<1>2. /\ slots[k].state = "Free" /\ address \in Pages /\ address \in Nat /\ n \in Nat \ {0}
      /\ address + n <= LimitVa
      /\ \A s \in Slots : ~Overlaps(s, address, n)
      /\ nextGeneration' = nextGeneration + 1 /\ nextGeneration \in Nat \ {0}
      /\ pte' = pte /\ pins' = pins /\ completed' = completed /\ recorded' = recorded
  BY <1>1, VaAssumption, SizeAssumption DEF Insert, Available, IsFirstFreeSlot, Pages, VmInv, VmTypeOK
<1>3. /\ slots' \in [Slots -> Allocations]
      /\ \A s \in Slots : s # k => slots'[s] = slots[s]
      /\ slots'[k].state = st /\ slots'[k].address = address /\ slots'[k].pages = n
      /\ slots'[k].generation = nextGeneration
  BY <1>1, <1>2, Zenon DEF VmInv, VmTypeOK, FreeAllocation, Allocations, RecordStates
<1>4. VmTypeOK'
  BY <1>2, <1>3 DEF VmInv, VmTypeOK
<1>5. RecordsDisjoint'
  <2>1. SpanOf(k)' = address .. address + n - 1
    BY <1>3 DEF SpanOf, Span
  <2>2. SpanOf(k)' \subseteq Pages
    BY <1>2, <2>1, VaAssumption DEF Pages
  <2>3. ASSUME NEW s \in Slots, s # k, slots'[s].state # "Free"
        PROVE  /\ SpanOf(s)' = SpanOf(s) /\ slots'[s].generation = slots[s].generation
               /\ slots[s].state # "Free" /\ SpanOf(s) \cap SpanOf(k)' = {}
               /\ slots[s].generation \in Nat /\ slots[s].generation < nextGeneration
    <3>1. slots'[s] = slots[s] /\ slots[s].address \in Nat /\ slots[s].pages \in Nat
          /\ slots[s].generation \in Nat
      BY <1>3, <2>3 DEF VmInv, VmTypeOK, Allocations
    <3>2. ~(address < slots[s].address + slots[s].pages /\ slots[s].address < address + n)
      BY <1>2, <2>3, <3>1 DEF Overlaps
    <3>3. (slots[s].address .. slots[s].address + slots[s].pages - 1) \cap (address .. address + n - 1) = {}
      BY <1>2, <3>1, <3>2
    <3>4. SpanOf(s) = slots[s].address .. slots[s].address + slots[s].pages - 1
      BY DEF SpanOf, Span
    <3>5. SpanOf(s)' = SpanOf(s)
      BY <3>1 DEF SpanOf
    <3>6. QED
      BY <2>1, <2>3, <3>1, <3>3, <3>4, <3>5 DEF VmInv, RecordsDisjoint
  <2>4. QED
    BY <1>2, <1>3, <2>2, <2>3 DEF VmInv, RecordsDisjoint
<1>6. Backed'
  BY <1>2, <1>3 DEF VmInv, Backed
<1>7. MappedIsPinned'
  <2>1. ASSUME NEW s \in Slots, slots[s].state # "Free"
        PROVE  slots'[s] = slots[s] /\ SpanOf(s)' = SpanOf(s)
    BY <1>2, <1>3, <2>1 DEF SpanOf
  <2>2. QED
    BY <1>2, <2>1 DEF VmInv, MappedIsPinned
<1>8. UsesCovered'
  <2>1. ASSUME NEW s \in Slots, NEW r \in recorded, StandsFor(s, r)
        PROVE  StandsFor(s, r)'
    BY <1>2, <1>3, <2>1 DEF StandsFor
  <2>2. QED
    BY <1>2, <2>1 DEF VmInv, UsesCovered, FenceComplete
<1>9. BoundIsMapped'
  <2>1. ASSUME NEW s \in Slots, slots'[s].state \in {"Bound", "Retiring"}
        PROVE  slots'[s] = slots[s] /\ SpanOf(s)' = SpanOf(s)
    BY <1>3, <2>1 DEF SpanOf
  <2>2. QED
    BY <1>2, <2>1 DEF VmInv, BoundIsMapped
<1>10. QED
  BY <1>4, <1>5, <1>6, <1>7, <1>8, <1>9 DEF VmInv

-----------------------------------------------------------------------------
\* The answers of pin(), and the retirement of a mapping: no page changes, and
\* no pin is lost.
LEMMA PinKeepsInv ==
    ASSUME VmInv, NEW o \in Owners, NEW h \in Handle,
           Pin(o, h) \/ PinUncertain(o, h) \/ RetireMapping(o, h)
    PROVE  VmInv'
<1> DEFINE k == h.slot
<1>1. PICK st \in {"Pinned", "Quarantined", "Retiring"} :
         /\ Moves(k, st) /\ k \in Slots /\ slots[k].state # "Free"
         /\ slots[k].generation = h.generation
         /\ pins \subseteq pins' /\ (st \in {"Pinned", "Retiring"} => h.generation \in pins')
         /\ slots[k].state \in {"Bound", "Retiring"} => st = "Retiring"
         /\ \/ slots[k].state = "Reserved" /\ st # "Retiring"
            \/ slots[k].state = "Bound" /\ st = "Retiring"
  <2>1. CASE Pin(o, h)
    <3>1. k \in Slots /\ slots[k].state = "Reserved" /\ slots[k].generation = h.generation
      BY <2>1, LookupFacts DEF Pin
    <3>2. Moves(k, "Pinned")
      BY <2>1, <3>1, PinMoves, Zenon DEF Pin, RecordStates
    <3>3. QED
      BY <2>1, <3>1, <3>2 DEF Pin
  <2>2. CASE PinUncertain(o, h)
    <3>1. k \in Slots /\ slots[k].state = "Reserved" /\ slots[k].generation = h.generation
      BY <2>2, LookupFacts DEF PinUncertain
    <3>2. Moves(k, "Quarantined")
      BY <2>2, <3>1, PinMoves, Zenon DEF PinUncertain, RecordStates
    <3>3. QED
      BY <2>2, <3>1, <3>2 DEF PinUncertain
  <2>3. CASE RetireMapping(o, h)
    <3>1. k \in Slots /\ slots[k].state = "Bound" /\ slots[k].generation = h.generation
      BY <2>3, LookupFacts DEF RetireMapping
    <3>2. Moves(k, "Retiring")
      BY <2>3, <3>1, StateMoves, ZenonT(30) DEF RetireMapping, RecordStates
    <3>3. h.generation \in pins
      BY <3>1 DEF VmInv, Backed
    <3>4. QED
      BY <2>3, <3>1, <3>2, <3>3 DEF RetireMapping
  <2>4. QED
    BY <2>1, <2>2, <2>3
<1>2. nextGeneration' = nextGeneration /\ pte' = pte /\ completed' = completed /\ recorded' = recorded
  BY ZenonT(30) DEF Pin, PinUncertain, RetireMapping
<1> HIDE DEF k
<1>3. VmTypeOK'
  BY <1>1, <1>2 DEF VmInv, VmTypeOK, Moves
<1>4. RecordsDisjoint'
  BY <1>1, <1>2, MovesKeepsDisjoint
<1>5. Backed'
  BY <1>1, MovesKeepsBacked DEF PinsKeptBut
<1>6. MappedIsPinned'
  <2>1. ASSUME NEW p \in Pages, pte'[p] # 0
        PROVE  \/ pte'[p] = pte[p] /\ pte[p] # slots[k].generation
               \/ /\ pte'[p] = slots[k].generation /\ p \in SpanOf(k)
                  /\ slots[k].generation \in pins'
                  /\ st \in {"Bound", "Retiring", "Quarantined"}
    BY <1>1, <1>2, <2>1, MappedFacts, Zenon
  <2>2. QED
    BY <1>1, <2>1, MovesKeepsMapped, Zenon DEF PinsKeptBut
<1>7. UsesCovered'
  BY <1>1, <1>2, MovesKeepsCovered
<1>8. BoundIsMapped'
  <2>1. st \in {"Bound", "Retiring"} => \A p \in SpanOf(k) : pte[p] = slots[k].generation
    BY <1>1 DEF VmInv, BoundIsMapped
  <2>2. QED
    BY <1>1, <1>2, <2>1, MovesKeepsBound
<1>9. QED
  BY <1>3, <1>4, <1>5, <1>6, <1>7, <1>8, ZenonT(30) DEF VmInv

\* bind(), complete or interrupted: the pages it reached map a pinned record
\* that is bound or in quarantine.
LEMMA BindKeepsInv ==
    ASSUME VmInv, NEW o \in Owners, NEW h \in Handle, NEW P \in SUBSET Pages,
           Bind(o, h) \/ BindUncertain(o, h, P)
    PROVE  VmInv'
<1> DEFINE k == h.slot
<1>1. /\ k \in Slots /\ slots[k].state = "Pinned" /\ slots[k].generation = h.generation
      /\ h.generation \in Nat
  BY LookupFacts DEF Bind, BindUncertain
<1>2. PICK st \in {"Bound", "Quarantined"}, Q \in SUBSET SpanOf(k) :
         Moves(k, st) /\ pte' = Mapping(Q, h.generation) /\ (st = "Bound" => Q = SpanOf(k))
  <2>1. CASE Bind(o, h)
    <3>1. Moves(k, "Bound")
      BY <1>1, <2>1, StateMoves, Zenon DEF Bind, RecordStates
    <3>2. QED
      BY <2>1, <3>1 DEF Bind
  <2>2. CASE BindUncertain(o, h, P)
    <3>1. Moves(k, "Quarantined")
      BY <1>1, <2>2, StateMoves, Zenon DEF BindUncertain, RecordStates
    <3>2. QED
      BY <2>2, <3>1 DEF BindUncertain
  <2>3. QED
    BY <2>1, <2>2
<1>3. /\ nextGeneration' = nextGeneration /\ pins' = pins
      /\ completed' = completed /\ recorded' = recorded
  BY DEF Bind, BindUncertain
<1> HIDE DEF k
<1>4. h.generation \in pins
  BY <1>1 DEF VmInv, Backed
<1>5. VmTypeOK'
  BY <1>1, <1>2, <1>3 DEF VmInv, VmTypeOK, Moves, Mapping
<1>6. RecordsDisjoint'
  BY <1>1, <1>2, <1>3, MovesKeepsDisjoint
<1>7. Backed'
  BY <1>1, <1>2, <1>3, <1>4, MovesKeepsBacked, ZenonT(30) DEF PinsKeptBut
<1>8. MappedIsPinned'
  <2>1. ASSUME NEW p \in Pages, pte'[p] # 0
        PROVE  \/ pte'[p] = pte[p] /\ pte[p] # slots[k].generation
               \/ pte'[p] = slots[k].generation /\ p \in SpanOf(k)
    BY <1>1, <1>2, <2>1, MappedFacts, ZenonT(30) DEF Mapping
  <2>2. QED
    BY <1>1, <1>2, <1>3, <1>4, <2>1, MovesKeepsMapped DEF PinsKeptBut
<1>9. UsesCovered'
  BY <1>1, <1>2, <1>3, MovesKeepsCovered
<1>10. BoundIsMapped'
  <2>1. SpanOf(k) \subseteq Pages
    BY <1>1, ZenonT(30) DEF VmInv, RecordsDisjoint
  <2>2. \A p \in Pages : p \notin SpanOf(k) => pte'[p] = pte[p]
    BY <1>2 DEF Mapping
  <2>3. st = "Bound" => \A p \in SpanOf(k) : pte'[p] = slots[k].generation
    BY <1>1, <1>2, <2>1 DEF Mapping
  <2>4. QED
    BY <1>1, <1>2, <2>2, <2>3, MovesKeepsBound, Zenon
<1>11. QED
  BY <1>5, <1>6, <1>7, <1>8, <1>9, <1>10 DEF VmInv

\* recordUse(): the new last fence is on the timeline of the old one and after
\* it, so it stands for everything recorded so far.
LEMMA RecordKeepsInv ==
    ASSUME VmInv, NEW o \in Owners, NEW h \in Handle, NEW f \in Fence, RecordUse(o, h, f)
    PROVE  VmInv'
<1> DEFINE k == h.slot
<1>1. /\ k \in Slots /\ slots[k].state = "Bound" /\ slots[k].generation = h.generation
      /\ h.generation \in Nat /\ slots[k] \in Allocations
  BY LookupFacts DEF RecordUse
<1>2. /\ slots' = [slots EXCEPT ![k].lastUse = f] /\ Recordable(slots[k].lastUse, f)
      /\ recorded' = recorded \cup {[generation |-> h.generation, fence |-> f]}
      /\ nextGeneration' = nextGeneration /\ pins' = pins /\ pte' = pte /\ completed' = completed
  BY DEF RecordUse
<1> HIDE DEF k
<1>3. /\ slots' \in [Slots -> Allocations]
      /\ \A s \in Slots : s # k => slots'[s] = slots[s]
      /\ slots'[k].lastUse = f
      /\ \A s \in Slots : /\ slots'[s].state = slots[s].state
                           /\ slots'[s].address = slots[s].address
                           /\ slots'[s].pages = slots[s].pages
                           /\ slots'[s].generation = slots[s].generation
  BY <1>1, <1>2 DEF VmInv, VmTypeOK, Allocations
<1>4. VmTypeOK'
  BY <1>1, <1>2, <1>3 DEF VmInv, VmTypeOK
<1>5. \A s \in Slots : SpanOf(s)' = SpanOf(s)
  BY <1>3 DEF SpanOf
<1>6. RecordsDisjoint' /\ Backed' /\ MappedIsPinned' /\ BoundIsMapped'
  BY <1>2, <1>3, <1>5 DEF VmInv, RecordsDisjoint, Backed, MappedIsPinned, BoundIsMapped
<1>7. UsesCovered'
  <2>1. f.value \in Nat /\ slots[k].lastUse.value \in Nat
    BY <1>1, MaxValueAssumption DEF Fence, NoFence, Allocations
  <2>2. ASSUME NEW r \in recorded, NEW s \in Slots, StandsFor(s, r)
        PROVE  StandsFor(s, r)'
    <3>1. r.fence.value \in Nat \ {0}
      BY MaxValueAssumption DEF VmInv, VmTypeOK, Fence
    <3>2. CASE s = k
      BY <1>2, <1>3, <2>1, <2>2, <3>1, <3>2, SMTT(60) DEF StandsFor, Recordable
    <3>3. CASE s # k
      BY <1>3, <2>2, <3>3, Zenon DEF StandsFor
    <3>4. QED
      BY <3>2, <3>3
  <2>3. ASSUME NEW r \in recorded', r = [generation |-> h.generation, fence |-> f]
        PROVE  StandsFor(k, r)'
    BY <1>1, <1>3, <2>1, <2>3, SMTT(60) DEF StandsFor
  <2>4. QED
    BY <1>1, <1>2, <2>2, <2>3 DEF VmInv, UsesCovered, FenceComplete
<1>8. QED
  BY <1>4, <1>6, <1>7 DEF VmInv

-----------------------------------------------------------------------------
\* The unpin tail of reclaim(), once no page maps the record and its recorded
\* work has completed.
LEMMA UnpinKeepsInv ==
    ASSUME VmInv, NEW h \in Handle, h.slot \in Slots, slots[h.slot].state # "Free",
           slots[h.slot].generation = h.generation, Unpin(h), VmTypeOK',
           \A p \in Pages : pte'[p] # 0 => pte'[p] = pte[p] /\ pte[p] # h.generation,
           slots[h.slot].state \in {"Bound", "Retiring"} => FenceComplete(slots[h.slot].lastUse),
           \A p \in Pages : p \notin SpanOf(h.slot) => pte'[p] = pte[p],
           nextGeneration' = nextGeneration, completed' = completed, recorded' = recorded
    PROVE  VmInv'
<1> DEFINE k == h.slot
<1>1. PinsKeptBut(slots[k].generation)
  BY Zenon DEF Unpin, PinsKeptBut
<1>2. CASE Freed(k)
  <2>1. Frees(k)
    BY <1>2, FreedFrees, Zenon
  <2>2. RecordsDisjoint' /\ Backed'
    BY <1>1, <2>1, FreesKeepsDisjoint, FreesKeepsBacked, Zenon
  <2>3. MappedIsPinned'
    BY <1>1, <2>1, FreesKeepsMapped, Zenon
  <2>4. UsesCovered' /\ BoundIsMapped'
    BY <2>1, FreesKeepsCovered, FreesKeepsBound, Zenon
  <2>5. QED
    BY <2>2, <2>3, <2>4, Zenon DEF VmInv
<1>3. CASE Quarantined(k)
  <2>1. Moves(k, "Quarantined")
    BY <1>3, StateMoves, Zenon DEF Quarantined, RecordStates
  <2>2. RecordsDisjoint' /\ Backed'
    BY <1>1, <2>1, MovesKeepsDisjoint, MovesKeepsBacked, Zenon
  <2>3. MappedIsPinned'
    BY <1>1, <2>1, MovesKeepsMapped, SMTT(60)
  <2>4. UsesCovered' /\ BoundIsMapped'
    BY <2>1, MovesKeepsCovered, MovesKeepsBound
  <2>5. QED
    BY <2>2, <2>3, <2>4 DEF VmInv
<1>4. QED
  BY <1>2, <1>3, Zenon DEF Unpin

\* Types after a record was freed or quarantined.
LEMMA UnpinTypes ==
    ASSUME VmInv, NEW k \in Slots, Freed(k) \/ Quarantined(k),
           pte' \in [Pages -> Nat], nextGeneration' = nextGeneration,
           completed' = completed, recorded' = recorded
    PROVE  VmTypeOK'
<1>1. CASE Freed(k)
  BY <1>1, FreedFrees DEF Frees, VmInv, VmTypeOK
<1>2. CASE Quarantined(k)
  <2>1. Moves(k, "Quarantined")
    BY <1>2, StateMoves, ZenonT(30) DEF Quarantined, RecordStates
  <2>2. QED
    BY <2>1 DEF Moves, VmInv, VmTypeOK
<1>3. QED
  BY <1>1, <1>2

\* reclaim() of a record that was never bound.
LEMMA ReclaimUnboundKeepsInv ==
    ASSUME VmInv, NEW o \in Owners, NEW h \in Handle,
           ReclaimReserved(o, h) \/ ReclaimPinned(o, h)
    PROVE  VmInv'
<1>1. /\ h.slot \in Slots /\ slots[h.slot].state \in {"Reserved", "Pinned"}
      /\ slots[h.slot].generation = h.generation
  BY LookupFacts DEF ReclaimReserved, ReclaimPinned
<1>2. /\ nextGeneration' = nextGeneration /\ pte' = pte
      /\ completed' = completed /\ recorded' = recorded
  BY DEF ReclaimReserved, ReclaimPinned
<1>3. \A p \in Pages : pte'[p] # 0 => pte'[p] = pte[p] /\ pte[p] # h.generation
  BY <1>1, <1>2, MappedFacts
<1>4. CASE ReclaimReserved(o, h)
  <2>1. Frees(h.slot) /\ PinsKeptBut(slots[h.slot].generation)
    BY <1>1, <1>4, FreedFrees DEF ReclaimReserved, PinsKeptBut
  <2>2. VmTypeOK'
    BY <1>2, <2>1, Zenon DEF Frees, VmInv, VmTypeOK
  <2>3. RecordsDisjoint' /\ Backed' /\ MappedIsPinned' /\ UsesCovered' /\ BoundIsMapped'
    BY <1>1, <1>2, <1>3, <2>1, FreesKeepsDisjoint, FreesKeepsBacked, FreesKeepsMapped,
       FreesKeepsCovered, FreesKeepsBound, ZenonT(30)
  <2>4. QED
    BY <2>2, <2>3 DEF VmInv
<1>5. CASE ReclaimPinned(o, h)
  <2>1. Unpin(h) /\ (Freed(h.slot) \/ Quarantined(h.slot))
    BY <1>5, Zenon DEF ReclaimPinned, Unpin
  <2>2. VmTypeOK'
    BY <1>1, <1>2, <2>1, UnpinTypes DEF VmInv, VmTypeOK
  <2>3. QED
    BY <1>1, <1>2, <1>3, <2>1, <2>2, UnpinKeepsInv, Zenon
<1>6. QED
  BY <1>4, <1>5

\* reclaim() of a retiring mapping, whose unbind may fail half-way.
LEMMA ReclaimRetiringKeepsInv ==
    ASSUME VmInv, NEW o \in Owners, NEW h \in Handle, NEW P \in SUBSET Pages,
           ReclaimRetiring(o, h) \/ ReclaimUncertain(o, h, P)
    PROVE  VmInv'
<1> DEFINE k == h.slot
<1>1. /\ k \in Slots /\ slots[k].state = "Retiring" /\ slots[k].generation = h.generation
      /\ FenceComplete(slots[k].lastUse)
  BY LookupFacts DEF ReclaimRetiring, ReclaimUncertain, Unbindable
<1>2. nextGeneration' = nextGeneration /\ completed' = completed /\ recorded' = recorded
  BY Zenon DEF ReclaimRetiring, ReclaimUncertain
<1>3. CASE ReclaimRetiring(o, h)
  <2>1. Unpin(h) /\ (Freed(k) \/ Quarantined(k)) /\ pte' = Mapping(SpanOf(k), 0)
    BY <1>3 DEF ReclaimRetiring, Unpin
  <2>2. pte' \in [Pages -> Nat]
    BY <2>1, Zenon DEF VmInv, VmTypeOK, Mapping
  <2>3. VmTypeOK'
    BY <1>1, <1>2, <2>1, <2>2, UnpinTypes, ZenonT(30)
  <2>4. ASSUME NEW p \in Pages, pte'[p] # 0
        PROVE  pte'[p] = pte[p] /\ pte[p] # h.generation
    <3>1. p \notin SpanOf(k) /\ pte'[p] = pte[p]
      BY <2>1, <2>4 DEF Mapping
    <3>2. QED
      BY <1>1, <2>4, <3>1, MappedFacts
  <2>5. \A p \in Pages : p \notin SpanOf(k) => pte'[p] = pte[p]
    BY <2>1 DEF Mapping
  <2>6. QED
    BY <1>1, <1>2, <2>1, <2>3, <2>4, <2>5, UnpinKeepsInv, Zenon
<1>4. CASE ReclaimUncertain(o, h, P)
  <2>1. Quarantined(k) /\ pte' = Mapping(P, 0) /\ pins' = pins /\ P \subseteq SpanOf(k)
    BY <1>4 DEF ReclaimUncertain
  <2>2. Moves(k, "Quarantined")
    BY <1>1, <2>1, StateMoves, Zenon DEF Quarantined, RecordStates
  <2>3. VmTypeOK'
    BY <1>2, <2>1, <2>2, Zenon DEF Moves, Mapping, VmInv, VmTypeOK
  <2>4. RecordsDisjoint' /\ Backed' /\ UsesCovered'
    BY <1>1, <1>2, <2>1, <2>2, MovesKeepsDisjoint, MovesKeepsBacked, MovesKeepsCovered, ZenonT(30) DEF PinsKeptBut
  <2>5. ASSUME NEW p \in Pages, pte'[p] # 0
        PROVE  \/ pte'[p] = pte[p] /\ pte[p] # slots[k].generation
               \/ /\ pte'[p] = slots[k].generation /\ p \in SpanOf(k)
                  /\ slots[k].generation \in pins'
    <3>1. pte'[p] = pte[p]
      BY <2>1, <2>5, Zenon DEF Mapping
    <3>2. QED
      BY <1>1, <2>1, <2>5, <3>1, MappedFacts
  <2>6. MappedIsPinned'
    BY <1>1, <2>1, <2>2, <2>5, MovesKeepsMapped, ZenonT(30) DEF PinsKeptBut
  <2>7. BoundIsMapped'
    <3>1. \A p \in Pages : p \notin SpanOf(k) => pte'[p] = pte[p]
      BY <2>1 DEF Mapping
    <3>2. QED
      BY <1>1, <2>2, <3>1, MovesKeepsBound, Zenon
  <2>8. QED
    BY <2>3, <2>4, <2>6, <2>7 DEF VmInv
<1>5. QED
  BY <1>3, <1>4, Zenon

-----------------------------------------------------------------------------
\* initialize(): no record is in use and nothing is mapped.
LEMMA VmInitInv == VmInit => VmInv
<1> SUFFICES ASSUME VmInit PROVE VmInv
  OBVIOUS
<1>1. VmTypeOK
  BY FreeIsAllocation DEF VmInit, VmTypeOK
<1>2. RecordsDisjoint /\ Backed
  BY FreeIsAllocation DEF VmInit, RecordsDisjoint, Backed
<1>3. MappedIsPinned /\ UsesCovered /\ BoundIsMapped
  BY FreeIsAllocation DEF VmInit, MappedIsPinned, UsesCovered, BoundIsMapped
<1>4. QED
  BY <1>1, <1>2, <1>3 DEF VmInv

\* A step that leaves the records, the mapping and the pins alone, as holds do,
\* or only advances a timeline.
LEMMA QuietKeepsInv ==
    ASSUME VmInv, slots' = slots, nextGeneration' = nextGeneration, pte' = pte, pins' = pins,
           recorded' = recorded, completed' \in [Timelines -> Nat],
           \A t \in Timelines : completed[t] <= completed'[t]
    PROVE  VmInv'
<1>1. VmTypeOK' /\ Backed'
  BY DEF VmInv, VmTypeOK, Backed
<1>2. \A s \in Slots : SpanOf(s)' = SpanOf(s)
  BY DEF SpanOf
<1>3. RecordsDisjoint' /\ MappedIsPinned' /\ BoundIsMapped'
  BY <1>2 DEF VmInv, RecordsDisjoint, MappedIsPinned, BoundIsMapped
<1>4. UsesCovered'
  <2>1. ASSUME NEW r \in recorded, FenceComplete(r.fence)
        PROVE  FenceComplete(r.fence)'
    <3>1. r.fence.timeline \in Timelines /\ r.fence.value \in Nat /\ completed \in [Timelines -> Nat]
      BY MaxValueAssumption DEF VmInv, VmTypeOK, Fence
    <3>2. QED
      BY <2>1, <3>1 DEF FenceComplete
  <2>2. ASSUME NEW r \in recorded, NEW s \in Slots, StandsFor(s, r)
        PROVE  StandsFor(s, r)'
    BY <2>2 DEF StandsFor
  <2>3. QED
    BY <2>1, <2>2 DEF VmInv, UsesCovered
<1>5. QED
  BY <1>1, <1>3, <1>4 DEF VmInv

\* Every call keeps the invariant, whatever handle it is given and whatever the
\* Backend answers.
LEMMA VmNextInv == VmInv /\ [VmNext]_vmVars => VmInv'
<1> SUFFICES ASSUME VmInv, [VmNext]_vmVars PROVE VmInv'
  OBVIOUS
<1>1. CASE PlacementStep
  BY <1>1, InsertKeepsInv DEF PlacementStep, Exclude, ReserveAt
<1>2. ASSUME NEW o \in Owners, NEW n \in Sizes, NEW a \in Alignments, Reserve(o, n, a)
      PROVE  VmInv'
  BY <1>2, InsertKeepsInv DEF Reserve
<1>3. ASSUME NEW o \in Owners, NEW h \in Handle,
             Pin(o, h) \/ PinUncertain(o, h) \/ RetireMapping(o, h)
      PROVE  VmInv'
  BY <1>3, PinKeepsInv
<1>4. ASSUME NEW o \in Owners, NEW h \in Handle, NEW P \in SUBSET Pages,
             Bind(o, h) \/ BindUncertain(o, h, P)
      PROVE  VmInv'
  BY <1>4, BindKeepsInv
<1>5. ASSUME NEW o \in Owners, NEW h \in Handle, NEW f \in Fence, RecordUse(o, h, f)
      PROVE  VmInv'
  BY <1>5, RecordKeepsInv
<1>6. ASSUME NEW o \in Owners, NEW h \in Handle, ReclaimReserved(o, h) \/ ReclaimPinned(o, h)
      PROVE  VmInv'
  BY <1>6, ReclaimUnboundKeepsInv
<1>7. ASSUME NEW o \in Owners, NEW h \in Handle, NEW P \in SUBSET Pages,
             ReclaimRetiring(o, h) \/ ReclaimUncertain(o, h, P)
      PROVE  VmInv'
  BY <1>7, ReclaimRetiringKeepsInv
<1>8. completed \in [Timelines -> Nat]
  BY DEF VmInv, VmTypeOK
<1>9. ASSUME NEW t \in Timelines, TimelineAdvances(t) PROVE VmInv'
  <2>1. completed' \in [Timelines -> Nat] /\ \A u \in Timelines : completed[u] <= completed'[u]
    BY <1>8, <1>9 DEF TimelineAdvances
  <2>2. QED
    BY <1>9, <2>1, QuietKeepsInv DEF TimelineAdvances
<1>10. \A u \in Timelines : completed[u] <= completed[u]
  BY <1>8
<1>11. ASSUME NEW o \in Owners, NEW h \in Handle, RetainUse(o, h) \/ ReleaseUse(o, h)
       PROVE  VmInv'
  BY <1>8, <1>10, <1>11, QuietKeepsInv DEF RetainUse, ReleaseUse
<1>12. CASE UNCHANGED vmVars
  BY <1>8, <1>10, <1>12, QuietKeepsInv DEF vmVars
<1>13. {} \in SUBSET Pages
  OBVIOUS
<1>14. CASE ClientStep
  BY <1>2, <1>3, <1>4, <1>5, <1>6, <1>7, <1>9, <1>13, <1>14 DEF ClientStep
<1>15. QED
  BY <1>1, <1>11, <1>12, <1>14 DEF VmNext

\* A fence that a record answers for has a mapping behind it.
LEMMA CoveredIsMapped == UsesCovered => RecordedWorkMapped
  BY DEF UsesCovered, RecordedWorkMapped, StandsFor

\* The invariant holds in every behaviour.
THEOREM VmInvariant == VmSpec => []VmInv
<1>1. QED
  BY VmInitInv, VmNextInv, PTL DEF VmSpec

\* No GPU translation outlives its memory: a mapped page belongs to a record
\* that still owns it and whose backing is pinned, whatever pin, bind, unbind
\* and unpin fail, and however many records, pages and owners there are.
THEOREM MappedStaysPinned == VmSpec => []MappedIsPinned
<1>1. VmInv => MappedIsPinned
  BY DEF VmInv
<1>2. QED
  BY VmInvariant, <1>1, PTL

\* Records in use never overlap or share a generation, so a stale handle never
\* names a reused record.
THEOREM RecordsStayDisjoint == VmSpec => []RecordsDisjoint
<1>1. VmInv => RecordsDisjoint
  BY DEF VmInv
<1>2. QED
  BY VmInvariant, <1>1, PTL

\* reclaim() looks at the last fence only; the mapping is nevertheless in place
\* while any fence that recordUse() accepted is incomplete.
THEOREM RecordedWorkStaysMapped == VmSpec => []RecordedWorkMapped
<1>1. VmInv => RecordedWorkMapped
  BY CoveredIsMapped DEF VmInv
<1>2. QED
  BY VmInvariant, <1>1, PTL
=============================================================================
