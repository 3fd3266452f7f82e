---------------------------- MODULE XeSubmission ----------------------------
(***************************************************************************)
(* MellowXe::SubmissionQueue (Mellow/XeSubmission.cpp): a bounded table of *)
(* jobs whose DMA resources stay retained until an ordered hardware fence, *)
(* a confirmed rejection or a confirmed quiesce says the device is done.   *)
(*                                                                         *)
(* Calls are serialised by the owner, so one action is one call.  What the *)
(* SubmissionBackend answers is an input of the action.  dma and hwDone    *)
(* are the device: the batches it may still be accessing, and the sequence *)
(* number it has written to the fence slot of every queue generation.      *)
(***************************************************************************)
EXTENDS Integers, FiniteSets

CONSTANTS
    MaxJobs,            \* maxJobs: entries of jobs_
    Resources,          \* what a Resource can name
    MaxResources,       \* maxResources: resources of one batch
    MaxSequence,        \* last fence sequence (0xFFFFFFFF in the code)
    MaxQueueGeneration, \* last reset epoch (UINT64_MAX in the code)
    MaxTime             \* caller clock readings and deadlines are 0..MaxTime

ASSUME MaxJobsAssumption == MaxJobs \in Nat \ {0}
ASSUME MaxSequenceAssumption == MaxSequence \in Nat \ {0}
ASSUME MaxQueueGenerationAssumption == MaxQueueGeneration \in Nat \ {0}
ASSUME MaxTimeAssumption == MaxTime \in Nat

VARIABLES
    qstate,         \* state_
    qgen,           \* generation_
    lastTime,       \* lastTime_
    nextSeq,        \* nextSequence_
    lastSubmitted,  \* lastSubmitted_
    lastObserved,   \* lastObserved_
    exhausted,      \* exhausted_
    jobs,           \* jobs_
    dma,            \* device: batches it may still access
    hwDone          \* device: completed sequence, per generation

software == <<qstate, qgen, lastTime, nextSeq, lastSubmitted, lastObserved,
              exhausted, jobs>>
queueVars == <<qstate, qgen, lastTime, nextSeq, lastSubmitted, lastObserved,
               exhausted, jobs, dma, hwDone>>

JobIds == 1 .. MaxJobs
Sequences == 1 .. MaxSequence
Generations == 1 .. MaxQueueGeneration
Times == 0 .. MaxTime

QueueStates == {"Inactive", "Ready", "NeedsReset"}
JobStates == {"Free", "Submitted", "AcceptanceUnknown", "Completed",
              "TimedOut", "Reset"}

\* Job: the snapshot (token, deadline, resources), state and the held flag.
Job == [state : JobStates, gen : Nat, seq : Nat, deadline : Nat,
        res : SUBSET Resources, held : BOOLEAN]

\* *job = {}
FreeJob == [state |-> "Free", gen |-> 0, seq |-> 0, deadline |-> 0,
            res |-> {}, held |-> FALSE]

\* What the device keeps of an accepted batch.
Batch == [gen : Nat, seq : Nat, res : SUBSET Resources]

QueueInit ==
    /\ qstate = "Inactive"
    /\ qgen = 1
    /\ lastTime = 0
    /\ nextSeq = 1
    /\ lastSubmitted = 0
    /\ lastObserved = 0
    /\ exhausted = FALSE
    /\ jobs = [j \in JobIds |-> FreeJob]
    /\ dma = {}
    /\ hwDone = [g \in Generations |-> 0]

-----------------------------------------------------------------------------
\* The monotone clock check; a call that regresses changes nothing.
Tick(now) ==
    /\ now >= lastTime
    /\ lastTime' = now

\* activate(): firmware and all readiness bits verified by the backend.
Activate ==
    /\ qstate = "Inactive"
    /\ qstate' = "Ready"
    /\ UNCHANGED <<qgen, lastTime, nextSeq, lastSubmitted, lastObserved,
                   exhausted, jobs, dma, hwDone>>

FreeJobs == {j \in JobIds : jobs[j].state = "Free"}

\* The loop over jobs_ takes the first free entry.
IsFirstFree(j) == j \in FreeJobs /\ \A k \in FreeJobs : j <= k

\* A batch's resources: at least one, at most maxResources.
ResourceSets == {R \in SUBSET Resources :
                    R # {} /\ Cardinality(R) <= MaxResources}

\* The prefix of submit() that every later outcome shares.
SubmitAdmitted(j, now, deadline, R) ==
    /\ qstate = "Ready"
    /\ Tick(now)
    /\ deadline > now
    /\ R \in ResourceSets
    /\ ~exhausted
    /\ IsFirstFree(j)

\* The frozen copy of the caller's batch.
Snapshot(state, deadline, R, held) ==
    [state |-> state, gen |-> qgen, seq |-> nextSeq, deadline |-> deadline,
     res |-> R, held |-> held]

\* submit() returning after tick() and before a slot is chosen: a deadline
\* that has passed, bad arguments, SequenceExhausted or Capacity.
SubmitRefused(now) ==
    /\ qstate = "Ready"
    /\ Tick(now)
    /\ UNCHANGED <<qstate, qgen, nextSeq, lastSubmitted, lastObserved,
                   exhausted, jobs, dma, hwDone>>

\* Validation fails after the snapshot: the entry stays Free but keeps the
\* rejected batch.  Its token matters to find() and to the fence loop; its
\* deadline and resources are only ever read of an entry in use.
SubmitInvalid(j, now, deadline, R) ==
    /\ SubmitAdmitted(j, now, deadline, R)
    /\ jobs' = [jobs EXCEPT ![j] = Snapshot("Free", 0, {}, FALSE)]
    /\ UNCHANGED <<qstate, qgen, nextSeq, lastSubmitted, lastObserved,
                   exhausted, dma, hwDone>>

\* A retain fails (the retained prefix is rolled back), or the backend
\* rejects the batch (everything is released): the entry is cleared and the
\* sequence number is not consumed.
SubmitNotAccepted(j, now, deadline, R) ==
    /\ SubmitAdmitted(j, now, deadline, R)
    /\ jobs' = [jobs EXCEPT ![j] = FreeJob]
    /\ UNCHANGED <<qstate, qgen, nextSeq, lastSubmitted, lastObserved,
                   exhausted, dma, hwDone>>

\* The token is consumed; the last sequence number exhausts the generation.
ConsumeSequence ==
    /\ lastSubmitted' = nextSeq
    /\ exhausted' = (nextSeq = MaxSequence)
    /\ nextSeq' = IF nextSeq = MaxSequence THEN nextSeq ELSE nextSeq + 1

\* Everything retained and the backend answered Accepted.
SubmitAccepted(j, now, deadline, R) ==
    /\ SubmitAdmitted(j, now, deadline, R)
    /\ jobs' = [jobs EXCEPT ![j] = Snapshot("Submitted", deadline, R, TRUE)]
    /\ ConsumeSequence
    /\ dma' = dma \cup {[gen |-> qgen, seq |-> nextSeq, res |-> R]}
    /\ UNCHANGED <<qstate, qgen, lastObserved, hwDone>>

\* The backend cannot tell whether the device got the batch: started says
\* what really happened.
SubmitUnknown(j, now, deadline, R, started) ==
    /\ SubmitAdmitted(j, now, deadline, R)
    /\ jobs' = [jobs EXCEPT ![j] =
                    Snapshot("AcceptanceUnknown", deadline, R, TRUE)]
    /\ ConsumeSequence
    /\ qstate' = "NeedsReset"
    /\ dma' = IF started
              THEN dma \cup {[gen |-> qgen, seq |-> nextSeq, res |-> R]}
              ELSE dma
    /\ UNCHANGED <<qgen, lastObserved, hwDone>>

-----------------------------------------------------------------------------
Overdue(j, now) == jobs[j].state = "Submitted" /\ now >= jobs[j].deadline

\* Faulty variant: a timeout is taken for the end of DMA.
ExpiredReleasing(now) == [j \in JobIds |->
    IF Overdue(j, now)
    THEN [jobs[j] EXCEPT !.state = "TimedOut", !.held = FALSE] ELSE jobs[j]]

\* The loop of expire(): the deadline passed, the resources stay held.
Expired(now) == [j \in JobIds |->
    IF Overdue(j, now) THEN [jobs[j] EXCEPT !.state = "TimedOut"] ELSE jobs[j]]

ExpiredState(now) ==
    IF \E j \in JobIds : Overdue(j, now) THEN "NeedsReset" ELSE qstate

Expire(now) ==
    /\ Tick(now)
    /\ jobs' = Expired(now)
    /\ qstate' = ExpiredState(now)
    /\ UNCHANGED <<qgen, nextSeq, lastSubmitted, lastObserved, exhausted, dma,
                   hwDone>>

\* Faulty variant: the fence value is not compared with the job's.
CoveredAlways(job, n) == job.gen = qgen

\* A job of this generation that the observed fence value n covers.
Covered(job, n) == job.gen = qgen /\ job.seq <= n

\* Faulty variant: a late fence completes jobs already reported otherwise.
ObservedLate(job, n) ==
    IF Covered(job, n) /\ job.state \in {"Submitted", "TimedOut",
                                         "AcceptanceUnknown"}
    THEN [job EXCEPT !.held = FALSE, !.state = "Completed"] ELSE job

\* One turn of the loop of onInterrupt(): a job still Submitted completes;
\* a late fence releases a timed-out or unknown job and keeps its result.
Observed(job, n) ==
    IF Covered(job, n) /\ job.state \in {"Submitted", "TimedOut",
                                         "AcceptanceUnknown"}
    THEN [job EXCEPT !.held = FALSE,
                     !.state = IF @ = "Submitted" THEN "Completed" ELSE @]
    ELSE job

\* The conditions of onInterrupt() before the fence is read.
InterruptAdmitted(irqGeneration, now) ==
    /\ irqGeneration = qgen
    /\ qstate # "Inactive"
    /\ Tick(now)

\* Faulty variant: a fence from the future is believed.
PlausibleFenceUnbounded(n) == lastObserved <= n

\* The plausibility window of an observation.
PlausibleFence(n) == lastObserved <= n /\ n <= lastSubmitted

\* readFence() failed, or its observation is invalid, unordered, of another
\* identity or outside the window: only the expiry took effect.
InterruptUnobserved(irqGeneration, now) ==
    /\ InterruptAdmitted(irqGeneration, now)
    /\ jobs' = Expired(now)
    /\ qstate' = ExpiredState(now)
    /\ UNCHANGED <<qgen, nextSeq, lastSubmitted, lastObserved, exhausted, dma,
                   hwDone>>

\* A valid, acquire-ordered observation n is applied.
OnInterrupt(irqGeneration, now, n) ==
    /\ InterruptAdmitted(irqGeneration, now)
    /\ PlausibleFence(n)
    /\ lastObserved' = n
    /\ jobs' = [j \in JobIds |-> Observed(Expired(now)[j], n)]
    /\ qstate' = ExpiredState(now)
    /\ UNCHANGED <<qgen, nextSeq, lastSubmitted, exhausted, dma, hwDone>>

\* What readFence() can return as valid: the value the device wrote, or a
\* corrupt one.  Corruption inside the window cannot be told from progress
\* by any reader and is outside the backend's contract.
FenceReadings == {hwDone[qgen]} \cup
                 {n \in 0 .. MaxSequence + 1 :
                     n < lastObserved \/ n > lastSubmitted}

-----------------------------------------------------------------------------
\* reset() up to a failed quiesce, or at the last generation: the queue is
\* left in NeedsReset with every resource and the generation kept.
ResetFailed(now) ==
    /\ Tick(now)
    /\ qstate' = "NeedsReset"
    /\ UNCHANGED <<qgen, nextSeq, lastSubmitted, lastObserved, exhausted,
                   jobs, dma, hwDone>>

\* The loop of reset(): undecided jobs become Reset, every hold is returned.
ResetJob(job) ==
    [job EXCEPT !.held = FALSE,
                !.state = IF @ \in {"Submitted", "AcceptanceUnknown"}
                          THEN "Reset" ELSE @]

\* Faulty variant: sequences restart without a new generation.
ResetQueueSameEpoch(now) ==
    /\ Tick(now)
    /\ jobs' = [j \in JobIds |-> ResetJob(jobs[j])]
    /\ nextSeq' = 1
    /\ lastSubmitted' = 0
    /\ lastObserved' = 0
    /\ exhausted' = FALSE
    /\ qstate' = "Inactive"
    /\ dma' = {}
    /\ UNCHANGED <<qgen, hwDone>>

\* reset() with a confirmed quiesce: the device no longer accesses anything.
ResetQueue(now) ==
    /\ Tick(now)
    /\ qgen # MaxQueueGeneration
    /\ jobs' = [j \in JobIds |-> ResetJob(jobs[j])]
    /\ qgen' = qgen + 1
    /\ nextSeq' = 1
    /\ lastSubmitted' = 0
    /\ lastObserved' = 0
    /\ exhausted' = FALSE
    /\ qstate' = "Inactive"
    /\ dma' = {}
    /\ UNCHANGED hwDone

\* find(): the first entry in use with this token.
HasToken(j, gen, seq) ==
    jobs[j].state # "Free" /\ jobs[j].gen = gen /\ jobs[j].seq = seq

IsFound(j, gen, seq) ==
    HasToken(j, gen, seq) /\ \A k \in JobIds : HasToken(k, gen, seq) => j <= k

\* retire(): the caller gives the token of a finished job back.
RetireJob(gen, seq) ==
    \E j \in JobIds :
        /\ IsFound(j, gen, seq)
        /\ ~jobs[j].held
        /\ jobs[j].state # "Submitted"
        /\ jobs' = [jobs EXCEPT ![j] = FreeJob]
        /\ UNCHANGED <<qstate, qgen, lastTime, nextSeq, lastSubmitted,
                       lastObserved, exhausted, dma, hwDone>>

\* The device finishes batches in order and writes the fence slot.
DeviceCompletes ==
    \E b \in dma :
        /\ hwDone' = [hwDone EXCEPT ![b.gen] = b.seq]
        /\ dma' = {c \in dma : c.seq > b.seq}
        /\ UNCHANGED software

Submitting ==
    \E j \in JobIds, now \in Times, deadline \in Times, R \in ResourceSets :
        \/ SubmitInvalid(j, now, deadline, R)
        \/ SubmitNotAccepted(j, now, deadline, R)
        \/ SubmitAccepted(j, now, deadline, R)
        \/ \E started \in BOOLEAN : SubmitUnknown(j, now, deadline, R, started)

Interrupted ==
    \E g \in Generations, now \in Times :
        \/ InterruptUnobserved(g, now)
        \/ \E n \in FenceReadings : OnInterrupt(g, now, n)

QueueNext ==
    \/ Activate
    \/ Submitting
    \/ \E now \in Times :
          SubmitRefused(now) \/ Expire(now) \/ ResetFailed(now) \/ ResetQueue(now)
    \/ Interrupted
    \/ \E gen \in Generations, seq \in Sequences : RetireJob(gen, seq)
    \/ DeviceCompletes

QueueSpec == QueueInit /\ [][QueueNext]_queueVars

-----------------------------------------------------------------------------
\* Every variable of the queue and of the device has its declared shape.
QueueTypeOK ==
    /\ qstate \in QueueStates
    /\ qgen \in Generations
    /\ lastTime \in Times
    /\ nextSeq \in Sequences
    /\ lastSubmitted \in 0 .. MaxSequence
    /\ lastObserved \in 0 .. MaxSequence
    /\ exhausted \in BOOLEAN
    /\ jobs \in [JobIds -> Job]
    /\ dma \subseteq Batch
    /\ hwDone \in [Generations -> 0 .. MaxSequence]

\* Every batch the device may still be accessing belongs to a job of the
\* current generation that still holds the batch's resources: no timeout,
\* late fence, failed reset or slot reuse returns DMA memory too early.
DmaHeld ==
    \A b \in dma : \E j \in JobIds :
        /\ jobs[j].held
        /\ jobs[j].gen = b.gen /\ jobs[j].seq = b.seq /\ jobs[j].res = b.res
        /\ b.gen = qgen

\* Completed is only ever reported for a batch whose fence value the device
\* itself wrote, in the generation the batch was submitted in.
CompletedIsReal ==
    \A j \in JobIds : jobs[j].state = "Completed" =>
        jobs[j].gen \in Generations /\ jobs[j].seq <= hwDone[jobs[j].gen]

\* The tokens in the table are distinct, and none is one that submit() can
\* still hand out: find() is never ambiguous, across resets included.
TokensUnique ==
    \A j \in JobIds : jobs[j].state # "Free" =>
        /\ jobs[j].gen <= qgen
        /\ jobs[j].gen = qgen => jobs[j].seq < nextSeq \/ exhausted
        /\ \A k \in JobIds : k # j /\ jobs[k].state # "Free" =>
              jobs[j].gen # jobs[k].gen \/ jobs[j].seq # jobs[k].seq

\* submit() is open only while nothing is uncertain: in Ready every hold
\* belongs to a job that is plainly Submitted, and in Inactive there is no
\* hold and no device access at all.
AdmissionIsClean ==
    /\ qstate = "Ready" => \A j \in JobIds :
          jobs[j].held => jobs[j].state = "Submitted" /\ jobs[j].gen = qgen
    /\ qstate = "Inactive" => dma = {} /\ \A j \in JobIds : ~jobs[j].held

\* A job's result, once query() can report it, never changes: a late fence
\* does not turn a timeout or an unknown acceptance into success, and a
\* reset only decides the jobs that had no result.
Outcome(job, later) ==
    \/ later.state = job.state
    \/ job.state = "AcceptanceUnknown" /\ later.state = "Reset"
    \/ later.state = "Free" /\ ~job.held

ResultsAreFinal ==
    [][\A j \in JobIds : jobs[j].state \notin {"Free", "Submitted"} =>
           Outcome(jobs[j], jobs'[j])]_queueVars
=============================================================================
