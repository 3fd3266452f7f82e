---------------------------- MODULE GpFifoQueue ----------------------------
(***************************************************************************)
(* MellowNativeNvidia::GpFifoQueue (Drivers/NativeNvidia/GpFifoQueue.cpp)  *)
(* over its memory owner: binding a channel, publishing jobs in the GPFIFO *)
(* ring, polling the tracking fence, expiry and reset.                     *)
(*                                                                         *)
(* Calls are serialised with the memory owner's; clients call the owner    *)
(* between queue calls, and the channel fetches and executes entries at    *)
(* any time.  Deadlines are abstracted: any submitted job may expire.      *)
(***************************************************************************)
EXTENDS MemoryOwner, Sequences

CONSTANTS
    MaxJobs,            \* job records (32 in the code)
    MaxDataResources,   \* data allocations of one job (8 in the code)
    MaxSequence,        \* last fence payload (UINT32_MAX in the code)
    MaxQueueGeneration, \* generation_ bound (UINT64_MAX in the code)
    Bindings,           \* pairs of slots tried as ring and fence
    Setups              \* the channels and surroundings considered

ASSUME JobsAssumption == MaxJobs \in Nat \ {0} /\ MaxDataResources \in Nat
ASSUME TableAssumption == MaxAllocations < MaxGeneration
ASSUME SequenceAssumption == MaxSequence \in Nat
ASSUME QueueGenerationAssumption == MaxQueueGeneration \in Nat \ {0}

\* The entries of the ring, a power of two; GP_PUT and fence payload at which a
\* channel may be claimed; the last generation_; whether other clients are
\* active, and whether the owner is stopped meanwhile.
ASSUME SetupsAssumption == \A u \in Setups :
    /\ u.entries \in Nat /\ u.entries >= 2
    /\ u.generations \in 1 .. MaxQueueGeneration
    /\ u.starts \subseteq (0 .. u.entries - 1) \X (0 .. MaxSequence)
    /\ u.clients \in BOOLEAN /\ u.stops \in BOOLEAN

VARIABLES
    setup,      \* the channel and its surroundings, fixed for a behaviour
    qstate,     \* state_
    qgen,       \* generation_
    bound,      \* binding_: the handles of ring and fence, both held, or none
    put, pending, nextSequence, completed, \* put_, pending_, nextSequence_, completed_
    claimed, stopped, verified, \* claimed_, stopped_, bindingVerified_
    jobs,       \* jobs_
    lease,      \* channel: uses ring and fence
    halted,     \* channel: stopped for good
    ring,       \* channel: entries of the ring in memory
    get, gpPut, \* channel: GP_GET and GP_PUT
    fetched,    \* channel: sequence of the last entry fetched
    visible,    \* channel: sequence of the last entry GP_PUT exposed
    running,    \* channel: entries fetched and not finished
    fence,      \* channel: payload of the tracking fence
    finished    \* tokens of the jobs the channel has finished

queue == <<setup, qstate, qgen, bound, put, pending, nextSequence, completed, claimed,
           stopped, verified, jobs>>
channel == <<lease, halted, ring, get, gpPut, fetched, visible, running, fence, finished>>
fifoVars == <<ownerVars, queue, channel>>

JobIds == 1 .. MaxJobs
Sequences == 0 .. MaxSequence
Indices == 0 .. setup.entries - 1
NoHandle == [slot |-> 0, generation |-> 0]
FreeJob == [state |-> "Free", gen |-> 0, seq |-> 0, commands |-> NoHandle,
            held |-> {}, ringPending |-> FALSE]
NoEntry == [gen |-> 0, seq |-> 0, res |-> {}]
Bound == {bound[i] : i \in DOMAIN bound}

\* The owner's table when the queue is created: some client has mapped all
\* slots.
FifoInit ==
    /\ setup \in Setups
    /\ slots = [s \in Slots |-> [EmptySlot EXCEPT !.state = "Mapped",
          !.generation = s + 1, !.bytes = 1, !.pin = s + 1, !.mapping = s + 1,
          !.mapAttempted = TRUE]]
    /\ holds = [s \in Slots |-> 0]
    /\ generation = MaxAllocations + 1 /\ charged = MaxAllocations
    /\ draining = FALSE /\ quiesced = FALSE /\ closed = FALSE
    /\ pinned = 1 .. MaxAllocations /\ mapped = 1 .. MaxAllocations
    /\ users = {} /\ strays = {} /\ ended = {} /\ written = {}
    /\ qstate = "Detached" /\ qgen = 1 /\ bound = <<>>
    /\ put = 0 /\ pending = 0 /\ nextSequence = 0 /\ completed = 0
    /\ claimed = FALSE /\ stopped = FALSE /\ verified = FALSE
    /\ jobs = [j \in JobIds |-> FreeJob]
    /\ lease = FALSE /\ halted = FALSE /\ ring = [i \in Indices |-> NoEntry]
    /\ get = 0 /\ gpPut = 0 /\ fetched = 0 /\ visible = 0
    /\ running = {} /\ fence = 0 /\ finished = {}

-----------------------------------------------------------------------------
\* view(): a live mapped allocation.  Its holds play no part here.
View(h) == Lookup(h) /\ slots[h.slot].state = "Mapped"

SlotsOf(H) == {h.slot : h \in H}

\* The slots after memory_.retain() of every handle of H.
Retained(H) == [s \in Slots |-> IF s \in SlotsOf(H) THEN RetainedSlot(slots[s])
                                ELSE slots[s]]
OtherMemory == UNCHANGED <<generation, charged, quiesced, closed, world>>

RetainAll(H) ==
    /\ holds' = [s \in Slots |-> holds[s] + IF s \in SlotsOf(H) THEN 1 ELSE 0]
    /\ slots' = Retained(H)
    /\ UNCHANGED draining /\ OtherMemory

\* retain() and then release() of every handle of H.  Faulty variant: the
\* release is forgotten.
RolledBackNot(H) == RetainAll(H)
RolledBack(H) ==
    /\ slots' = Retained(H)
    /\ UNCHANGED <<holds, draining>> /\ OtherMemory

\* releaseJob() of the jobs J, whose records still name what they hold.
ReleaseJobs(J) ==
    /\ holds' = [s \in Slots |->
          holds[s] - Cardinality({j \in J : s \in SlotsOf(jobs[j].held)})]
    /\ UNCHANGED <<slots, draining>> /\ OtherMemory

\* bind() of two distinct unused mappings, which the owner lets the queue hold.
\* The claim of the channel is rejected, fails or is unknown, or succeeds on
\* an idle channel.
Bindable(r, f) ==
    /\ qstate = "Detached" /\ bound = <<>> /\ qgen # setup.generations
    /\ <<r.slot, f.slot>> \in Bindings /\ r # f /\ Retainable(r) /\ Retainable(f)
    /\ holds[r.slot] = 0 /\ holds[f.slot] = 0

BindRejected(r, f) ==
    /\ Bindable(r, f)
    /\ RolledBack({r, f})
    /\ UNCHANGED <<queue, channel>>

BindUnknown(r, f) ==
    /\ Bindable(r, f)
    /\ RetainAll({r, f})
    /\ bound' = <<r, f>> /\ claimed' = TRUE /\ stopped' = FALSE /\ qstate' = "NeedsReset"
    /\ lease' \in BOOLEAN /\ halted' = FALSE
    /\ UNCHANGED <<setup, qgen, put, pending, nextSequence, completed, verified, jobs, ring,
                   get, gpPut, fetched, visible, running, fence, finished>>

Bind(r, f, index, payload) ==
    /\ Bindable(r, f)
    /\ RetainAll({r, f})
    /\ bound' = <<r, f>> /\ claimed' = TRUE /\ stopped' = FALSE /\ qstate' = "Ready"
    /\ verified' = TRUE
    /\ put' = index /\ pending' = 0 /\ nextSequence' = payload /\ completed' = payload
    /\ lease' = TRUE /\ halted' = FALSE /\ get' = index /\ gpPut' = index
    /\ fetched' = payload /\ visible' = payload /\ fence' = payload
    /\ UNCHANGED <<setup, qgen, jobs, ring, running, finished>>

-----------------------------------------------------------------------------
\* One ring entry always stays unused.  Faulty variant: the ring may fill up.
RoomFull == pending < setup.entries
Room == pending < setup.entries - 1

Unused(c) == holds[c.slot] = 0

\* submit() of a command allocation c with data D, up to the first retain().
Submittable(j, c, D) ==
    /\ qstate = "Ready" /\ nextSequence # MaxSequence /\ Room
    /\ jobs[j].state = "Free" /\ \A i \in 1 .. j - 1 : jobs[i].state # "Free"
    /\ Cardinality(D) <= MaxDataResources
    /\ \A h \in {c} \cup D : View(h) /\ h \notin Bound
    /\ Unused(c) /\ c \notin D
    /\ \A i \in JobIds : jobs[i].held # {} => jobs[i].commands \notin D

\* Everything was retained; the ring entry at put_ is the job's.
Admitted(j, c, D) == Submittable(j, c, D) /\ \A h \in {c} \cup D : Retainable(h)
Entry(c, D) == [gen |-> qgen, seq |-> nextSequence + 1, res |-> {c} \cup D]
NextPut == (put + 1) % setup.entries

\* After the first handles R were retained, the owner refuses the next one or,
\* having lost its admission, the synchronization of all of them.
SubmitUnretained(j, c, D) ==
    /\ Submittable(j, c, D)
    /\ \E R \in SUBSET ({c} \cup D) :
          /\ R = {} \/ c \in R
          /\ \A h \in R : Retainable(h)
          /\ RolledBack(R)
          /\ ring' \in {ring} \cup IF R # {c} \cup D THEN {}
                                   ELSE {[ring EXCEPT ![put] = Entry(c, D)]}
    /\ qstate' = "NeedsReset"
    /\ UNCHANGED <<setup, qgen, bound, put, pending, nextSequence, completed, claimed,
                   stopped, verified, jobs, lease, halted, get, gpPut, fetched,
                   visible, running, fence, finished>>

\* Sealing, ordering or GP_PUT is rejected: the job is rolled back.
SubmitRejected(j, c, D) ==
    /\ Admitted(j, c, D)
    /\ RolledBack({c} \cup D)
    /\ ring' \in {ring, [ring EXCEPT ![put] = Entry(c, D)]}
    /\ UNCHANGED <<queue, lease, halted, get, gpPut, fetched, visible, running,
                   fence, finished>>

\* A synchronization for the device fails, which quarantines that slot.
SubmitUnsynchronized(j, c, D) ==
    /\ Admitted(j, c, D)
    /\ \E h \in {c, bound[1]} \cup D :
          slots' = [Retained({c} \cup D) EXCEPT ![h.slot].state = "Quarantined"]
    /\ draining' = TRUE /\ qstate' = "NeedsReset"
    /\ ring' \in {ring, [ring EXCEPT ![put] = Entry(c, D)]}
    /\ UNCHANGED holds /\ OtherMemory
    /\ UNCHANGED <<setup, qgen, bound, put, pending, nextSequence, completed, claimed,
                   stopped, verified, jobs, lease, halted, get, gpPut, fetched,
                   visible, running, fence, finished>>

\* GP_PUT is written, or may have been: the doorbell only decides what the
\* caller is told.  Faulty variant: a failed doorbell gives the holds up.
HeldIfSubmitted(state, H) == IF state = "Submitted" THEN H ELSE {}
HeldAfterPut(state, H) == H

Submit(j, c, D) ==
    /\ Admitted(j, c, D)
    /\ \E state \in {"Submitted", "PublicationUnknown"}, exposed \in BOOLEAN :
          /\ state = "Submitted" => exposed
          /\ jobs' = [jobs EXCEPT ![j] =
                [state |-> state, gen |-> qgen, seq |-> nextSequence + 1,
                 commands |-> c, held |-> HeldAfterPut(state, {c} \cup D),
                 ringPending |-> TRUE]]
          /\ RetainAll(HeldAfterPut(state, {c} \cup D))
          /\ qstate' = IF state = "Submitted" THEN "Ready" ELSE "NeedsReset"
          /\ gpPut' = IF exposed THEN NextPut ELSE gpPut
          /\ visible' = IF exposed THEN nextSequence + 1 ELSE visible
    /\ put' = NextPut /\ pending' = pending + 1 /\ nextSequence' = nextSequence + 1
    /\ ring' = [ring EXCEPT ![put] = Entry(c, D)]
    /\ UNCHANGED <<setup, qgen, bound, completed, claimed, stopped, verified, lease,
                   halted, get, fetched, running, fence, finished>>

-----------------------------------------------------------------------------
\* expire(): submitted jobs past their deadline; a new set of records.
ExpiredJobs(js, S) ==
    [j \in JobIds |-> IF j \in S THEN [js[j] EXCEPT !.state = "TimedOut"] ELSE js[j]]

Expire(S) ==
    /\ qstate # "Detached" /\ S # {}
    /\ \A j \in S : jobs[j].state = "Submitted"
    /\ jobs' = ExpiredJobs(jobs, S) /\ qstate' = "NeedsReset"
    /\ UNCHANGED <<ownerVars, setup, qgen, bound, put, pending, nextSequence, completed,
                   claimed, stopped, verified, channel>>

Pollable == qstate # "Detached" /\ claimed /\ ~stopped /\ verified

\* The jobs a fence payload completes.  Faulty variant: the next one, too.
CoveredByOne(n) == {j \in JobIds :
    jobs[j].ringPending /\ jobs[j].gen = qgen /\ jobs[j].seq <= n + 1}
Covered(n) == {j \in JobIds :
    jobs[j].ringPending /\ jobs[j].gen = qgen /\ jobs[j].seq <= n}

\* poll() reading payload n, then expire().
Poll(n, S) ==
    /\ Pollable /\ Live /\ slots[bound[2].slot].state = "Mapped"
    /\ n \in completed .. fence
    /\ \A j \in S : jobs[j].state = "Submitted" /\ j \notin Covered(n)
    /\ completed' = n
    /\ jobs' = ExpiredJobs([j \in JobIds |-> IF j \notin Covered(n) THEN jobs[j] ELSE
                  [jobs[j] EXCEPT !.state = "Completed", !.held = {},
                                  !.ringPending = FALSE]], S)
    /\ pending' = pending - Cardinality(Covered(n))
    /\ qstate' = IF S = {} THEN qstate ELSE "NeedsReset"
    /\ ReleaseJobs(Covered(n))
    /\ UNCHANGED <<setup, qgen, bound, put, nextSequence, claimed, stopped, verified, channel>>

\* The fence cannot be synchronized or read, or its payload is impossible.
PollFails ==
    /\ Pollable
    /\ qstate' = "NeedsReset"
    /\ \/ UNCHANGED ownerVars
       \/ SynchronizeFails(bound[2])
    /\ UNCHANGED <<setup, qgen, bound, put, pending, nextSequence, completed, claimed,
                   stopped, verified, jobs, channel>>

\* reset(): stop, end and release every job, then give the channel back.
ResetFails ==
    /\ qstate # "Detached" /\ ~stopped
    /\ qstate' = "NeedsReset" /\ verified' = FALSE
    /\ UNCHANGED <<ownerVars, setup, qgen, bound, put, pending, nextSequence, completed,
                   claimed, stopped, jobs, channel>>

\* Ring and fence are released with the channel.  Faulty variant: in any case.
ReleasedBindingAlways(done) == SlotsOf(Bound)
ReleasedBinding(done) == IF done THEN SlotsOf(Bound) ELSE {}

Reset(done) ==
    /\ qstate # "Detached"
    /\ stopped' = TRUE /\ halted' = TRUE /\ running' = {} /\ verified' = FALSE
    /\ jobs' = [j \in JobIds |-> IF jobs[j].state = "Free" THEN jobs[j] ELSE
                  [jobs[j] EXCEPT !.held = {}, !.ringPending = FALSE,
                     !.state = IF @ = "Completed" THEN @ ELSE "Reset"]]
    /\ holds' = [s \in Slots |-> holds[s]
          - Cardinality({j \in JobIds : s \in SlotsOf(jobs[j].held)})
          - IF s \in ReleasedBinding(done) THEN 1 ELSE 0]
    /\ IF done
       THEN /\ qstate' = "Detached" /\ bound' = <<>> /\ claimed' = FALSE
            /\ put' = 0 /\ pending' = 0 /\ nextSequence' = 0 /\ completed' = 0
            /\ qgen' = qgen + 1 /\ lease' = FALSE
            /\ ring' = [i \in Indices |-> NoEntry]
            /\ gpPut' = 0 /\ visible' = 0 /\ fence' = 0
       ELSE /\ qstate' = "NeedsReset" /\ pending' = 0
            /\ lease' \in {lease, FALSE}
            /\ UNCHANGED <<bound, claimed, put, nextSequence, completed, qgen,
                           ring, gpPut, visible, fence>>
    /\ get' = gpPut' /\ fetched' = visible'
    /\ UNCHANGED <<setup, slots, draining, finished>>
    /\ OtherMemory

RetireJob(j) ==
    /\ jobs[j].state \in {"Completed", "Reset"}
    /\ jobs[j].held = {} /\ ~jobs[j].ringPending
    /\ jobs' = [jobs EXCEPT ![j] = FreeJob]
    /\ UNCHANGED <<ownerVars, setup, qstate, qgen, bound, put, pending, nextSequence,
                   completed, claimed, stopped, verified, channel>>

-----------------------------------------------------------------------------
\* The channel runs until it, or the whole device, is stopped.
Active == lease /\ ~halted /\ ~quiesced
Distance == (gpPut - get) % setup.entries
Unread == {ring[(get + i) % setup.entries] : i \in 0 .. Distance - 1}

\* It fetches the entries that GP_PUT exposes, in ring order.
Fetch ==
    /\ Active /\ get # gpPut
    /\ running' = running \cup {ring[get]}
    /\ get' = (get + 1) % setup.entries /\ fetched' = fetched + 1
    /\ UNCHANGED <<ownerVars, queue, lease, halted, ring, gpPut, visible, fence,
                   finished>>

\* The oldest entry ends with the release of its payload to the fence.
Finish ==
    /\ Active
    /\ \E e \in running :
          /\ \A o \in running : e.seq <= o.seq
          /\ running' = running \ {e}
          /\ fence' = e.seq
          /\ finished' = finished \cup {[gen |-> e.gen, seq |-> e.seq]}
    /\ UNCHANGED <<ownerVars, queue, lease, halted, ring, get, gpPut, fetched, visible>>

\* The handles that lookup() accepts; calls with any other change nothing.
Handles == {[slot |-> s, generation |-> slots[s].generation] : s \in InUse}

QueueStep ==
    \/ \E r, f \in Handles :
          \/ BindRejected(r, f) \/ BindUnknown(r, f)
          \/ \E start \in setup.starts : Bind(r, f, start[1], start[2])
    \/ \E j \in JobIds, c \in Handles : \E D \in SUBSET (Handles \ {c}) :
          \/ SubmitUnretained(j, c, D) \/ SubmitRejected(j, c, D)
          \/ SubmitUnsynchronized(j, c, D) \/ Submit(j, c, D)
    \/ \E S \in SUBSET JobIds : Expire(S) \/ \E n \in Sequences : Poll(n, S)
    \/ PollFails \/ ResetFails \/ \E done \in BOOLEAN : Reset(done)
    \/ \E j \in JobIds : RetireJob(j)

FifoNext ==
    \/ QueueStep
    \/ setup.clients /\ ClientStep /\ UNCHANGED <<queue, channel>>
    \/ setup.stops /\ StopStep /\ UNCHANGED <<queue, channel>>
    \/ (setup.clients \/ setup.stops) /\ RetireStep /\ UNCHANGED <<queue, channel>>
    \/ Fetch \/ Finish

FifoSpec == FifoInit /\ [][FifoNext]_fifoVars

-----------------------------------------------------------------------------
\* A slot's jobHolds is the number of jobs that hold it, plus one for the
\* binding: every rollback, failed publication, late fence and retried reset
\* gives each hold back once.  release() therefore never fails.
HoldsAreExact ==
    \A s \in Slots : holds[s] =
        Cardinality({j \in JobIds : s \in SlotsOf(jobs[j].held)})
        + IF s \in SlotsOf(Bound) THEN 1 ELSE 0

\* What the channel can reach: entries exposed by GP_PUT or running, and, as
\* long as it has its lease, ring and fence.
Accesses ==
    (IF ~Active THEN {} ELSE
       UNION {{<<[gen |-> e.gen, seq |-> e.seq], h>> : h \in e.res} :
                 e \in Unread \cup running})
    \cup (IF ~lease \/ quiesced THEN {} ELSE {<<[gen |-> qgen, seq |-> -1], h>> :
                                                 h \in Bound})

\* All of it is still mapped and backed, whatever clients retire, quarantine or
\* close and whatever the queue was told about its publication.
AccessIsMapped ==
    \A a \in Accesses : Lookup(a[2]) /\ a[2].generation \in mapped \cap pinned

\* The channel will fetch exactly the published jobs, in order: the ring never
\* overruns, and no entry is overwritten before it is fetched.
EntriesIntact ==
    Active /\ verified =>
        /\ Distance = visible - fetched
        /\ \A i \in 0 .. Distance - 1 :
              LET e == ring[(get + i) % setup.entries]
              IN  e.gen = qgen /\ e.seq = fetched + 1 + i

\* A job is reported Completed only when the channel has finished it.
JobsReallyComplete ==
    \A j \in JobIds : jobs[j].state = "Completed" =>
        [gen |-> jobs[j].gen, seq |-> jobs[j].seq] \in finished

Ownership == INSTANCE DmaOwnership WITH
    Work <- [gen : 1 .. MaxQueueGeneration, seq : -1 .. MaxSequence],
    Memory <- Handle,
    owned <- {h \in Handle : Lookup(h)}, access <- Accesses

\* Queue and owner together implement the ownership contract.
ImplementsOwnership == Ownership!Spec
=============================================================================
