------------------------- MODULE XeSubmissionProofs -------------------------
(***************************************************************************)
(* The safety of the submission queue for every table size, sequence range,*)
(* generation range and clock range.                                       *)
(***************************************************************************)
EXTENDS XeSubmission, TLAPS

Undecided == {"Submitted", "AcceptanceUnknown", "TimedOut"}

\* The fence window: what was observed, what the device wrote, what was
\* submitted, in that order; later generations have not started.
FenceOrder ==
    /\ lastObserved <= hwDone[qgen]
    /\ hwDone[qgen] <= lastSubmitted
    /\ \A g \in Generations : g > qgen => hwDone[g] = 0

\* The next token is the one after the last submitted, until they run out.
NextToken ==
    /\ ~exhausted => nextSeq = lastSubmitted + 1
    /\ exhausted => nextSeq = lastSubmitted

\* A batch in the device is one the fence has not reached, and an undecided
\* or timed-out job holds its resources.
DmaTracked ==
    \A b \in dma :
        /\ b.gen = qgen /\ hwDone[qgen] < b.seq /\ b.seq <= lastSubmitted
        /\ \E j \in JobIds :
              /\ jobs[j].held
              /\ jobs[j].gen = b.gen /\ jobs[j].seq = b.seq
              /\ jobs[j].res = b.res

\* Holds belong to undecided jobs of the current generation.
HeldJobs == \A j \in JobIds :
    jobs[j].held => jobs[j].state \in Undecided /\ jobs[j].gen = qgen

\* Tokens of entries in use were handed out by submit(); an undecided
\* submission is of the current generation and still held.
IssuedTokens == \A j \in JobIds : jobs[j].state # "Free" =>
    /\ jobs[j].gen \in 1 .. qgen
    /\ jobs[j].seq \in Sequences
    /\ jobs[j].gen = qgen => jobs[j].seq <= lastSubmitted
    /\ jobs[j].state = "Submitted" => jobs[j].held

DistinctTokens == \A j, k \in JobIds :
    j # k /\ jobs[j].state # "Free" /\ jobs[k].state # "Free" =>
        jobs[j].gen # jobs[k].gen \/ jobs[j].seq # jobs[k].seq

\* The inductive invariant.
QueueInv ==
    /\ QueueTypeOK
    /\ FenceOrder
    /\ NextToken
    /\ DmaTracked
    /\ HeldJobs
    /\ IssuedTokens
    /\ DistinctTokens
    /\ CompletedIsReal
    /\ AdmissionIsClean

USE MaxJobsAssumption, MaxSequenceAssumption, MaxQueueGenerationAssumption,
    MaxTimeAssumption DEF Generations, Sequences, Times, Undecided

-----------------------------------------------------------------------------
\* The invariant holds of a queue as its constructor leaves it.
LEMMA QueueInvInit == QueueInit => QueueInv
<1> SUFFICES ASSUME QueueInit PROVE QueueInv
    OBVIOUS
<1>0. FreeJob \in Job
    BY DEF FreeJob, Job, JobStates
<1>1. QueueTypeOK
  <2>1. jobs \in [JobIds -> Job]
    BY <1>0 DEF QueueInit
  <2>2. exhausted \in BOOLEAN /\ qstate \in QueueStates /\ dma \subseteq Batch
    BY Zenon DEF QueueInit, QueueStates
  <2>3. hwDone \in [Generations -> 0 .. MaxSequence]
    BY DEF QueueInit
  <2>4. /\ qgen \in Generations /\ lastTime \in Times /\ nextSeq \in Sequences
        /\ lastSubmitted \in 0 .. MaxSequence /\ lastObserved \in 0 .. MaxSequence
    BY DEF QueueInit
  <2>. QED
    BY <2>1, <2>2, <2>3, <2>4 DEF QueueTypeOK
<1>2. FenceOrder /\ NextToken /\ DmaTracked
    BY DEF QueueInit, FenceOrder, NextToken, DmaTracked
<1>3. HeldJobs /\ IssuedTokens /\ DistinctTokens /\ CompletedIsReal
    BY DEF QueueInit, HeldJobs, IssuedTokens, DistinctTokens, CompletedIsReal,
           FreeJob
<1>4. AdmissionIsClean
    BY DEF QueueInit, AdmissionIsClean, FreeJob
<1>. QED
    BY <1>1, <1>2, <1>3, <1>4 DEF QueueInv

\* activate() only opens the queue.
LEMMA ActivateStep ==
  ASSUME QueueInv, Activate
  PROVE  QueueInv'
<1>1. QueueTypeOK'
    BY DEF Activate, QueueInv, QueueTypeOK, Job, JobStates, QueueStates,
           Batch
<1>2. FenceOrder'
    BY DEF Activate, FenceOrder, QueueInv, QueueTypeOK, Job
<1>3. NextToken'
    BY DEF Activate, NextToken, QueueInv, QueueTypeOK, Job
<1>4. DmaTracked'
    BY DEF Activate, DmaTracked, QueueInv, QueueTypeOK, Job
<1>5. HeldJobs'
    BY DEF Activate, HeldJobs, QueueInv, QueueTypeOK, Job
<1>6. IssuedTokens'
    BY DEF Activate, IssuedTokens, QueueInv, QueueTypeOK, Job
<1>7. DistinctTokens'
    BY Zenon DEF Activate, DistinctTokens, QueueInv, QueueTypeOK, Job
<1>8. CompletedIsReal'
    BY DEF Activate, CompletedIsReal, QueueInv, QueueTypeOK, Job
<1>9. AdmissionIsClean'
    BY DEF Activate, AdmissionIsClean, QueueInv, QueueTypeOK, Job
<1>. QED
    BY <1>1, <1>2, <1>3, <1>4, <1>5, <1>6, <1>7, <1>8, <1>9 DEF QueueInv

\* A refused submission only moves the clock.
LEMMA SubmitRefusedStep ==
  ASSUME NEW now \in Times, QueueInv, SubmitRefused(now)
  PROVE  QueueInv'
<1>1. QueueTypeOK'
    BY DEF SubmitRefused, Tick, QueueInv, QueueTypeOK, Job, JobStates,
           QueueStates, Batch
<1>2. FenceOrder'
    BY DEF SubmitRefused, Tick, FenceOrder, QueueInv, QueueTypeOK, Job
<1>3. NextToken'
    BY DEF SubmitRefused, Tick, NextToken, QueueInv, QueueTypeOK, Job
<1>4. DmaTracked'
    BY DEF SubmitRefused, Tick, DmaTracked, QueueInv, QueueTypeOK, Job
<1>5. HeldJobs'
    BY DEF SubmitRefused, Tick, HeldJobs, QueueInv, QueueTypeOK, Job
<1>6. IssuedTokens'
    BY DEF SubmitRefused, Tick, IssuedTokens, QueueInv, QueueTypeOK, Job
<1>7. DistinctTokens'
    BY Zenon DEF SubmitRefused, Tick, DistinctTokens, QueueInv, QueueTypeOK, Job
<1>8. CompletedIsReal'
    BY DEF SubmitRefused, Tick, CompletedIsReal, QueueInv, QueueTypeOK, Job
<1>9. AdmissionIsClean'
    BY DEF SubmitRefused, Tick, AdmissionIsClean, QueueInv, QueueTypeOK, Job
<1>. QED
    BY <1>1, <1>2, <1>3, <1>4, <1>5, <1>6, <1>7, <1>8, <1>9 DEF QueueInv

\* An invalid batch is left in an entry that stays free.
LEMMA SubmitInvalidStep ==
  ASSUME NEW j \in JobIds, NEW now \in Times, NEW d \in Times,
         NEW R \in ResourceSets, QueueInv, SubmitInvalid(j, now, d, R)
  PROVE  QueueInv'
<1>1. QueueTypeOK'
    BY SMTT(60) DEF SubmitInvalid, Snapshot, SubmitAdmitted, Tick, IsFirstFree,
           FreeJobs, QueueInv, QueueTypeOK, Job, JobStates, QueueStates,
           Batch
<1>2. FenceOrder'
    BY DEF SubmitInvalid, Snapshot, SubmitAdmitted, Tick, IsFirstFree,
           FreeJobs, FenceOrder, QueueInv, QueueTypeOK, Job
<1>3. NextToken'
    BY DEF SubmitInvalid, Snapshot, SubmitAdmitted, Tick, IsFirstFree,
           FreeJobs, NextToken, QueueInv, QueueTypeOK, Job
<1>4. DmaTracked'
    BY Zenon DEF SubmitInvalid, Snapshot, SubmitAdmitted, Tick, IsFirstFree,
           FreeJobs, DmaTracked, HeldJobs, QueueInv, QueueTypeOK, Job
<1>5. HeldJobs'
    BY Zenon DEF SubmitInvalid, Snapshot, SubmitAdmitted, Tick, IsFirstFree,
           FreeJobs, HeldJobs, QueueInv, QueueTypeOK, Job
<1>6. IssuedTokens'
    BY Zenon DEF SubmitInvalid, Snapshot, SubmitAdmitted, Tick, IsFirstFree,
           FreeJobs, IssuedTokens, QueueInv, QueueTypeOK, Job
<1>7. DistinctTokens'
    BY ZenonT(30) DEF SubmitInvalid, Snapshot, SubmitAdmitted, Tick, IsFirstFree,
           FreeJobs, DistinctTokens, QueueInv, QueueTypeOK, Job
<1>8. CompletedIsReal'
    BY Zenon DEF SubmitInvalid, Snapshot, SubmitAdmitted, Tick, IsFirstFree,
           FreeJobs, CompletedIsReal, QueueInv, QueueTypeOK, Job
<1>9. AdmissionIsClean'
    BY DEF SubmitInvalid, Snapshot, SubmitAdmitted, Tick, IsFirstFree,
           FreeJobs, AdmissionIsClean, QueueInv, QueueTypeOK, Job
<1>. QED
    BY <1>1, <1>2, <1>3, <1>4, <1>5, <1>6, <1>7, <1>8, <1>9 DEF QueueInv

\* A batch that is not accepted leaves a free entry.
LEMMA SubmitNotAcceptedStep ==
  ASSUME NEW j \in JobIds, NEW now \in Times, NEW d \in Times,
         NEW R \in ResourceSets, QueueInv, SubmitNotAccepted(j, now, d, R)
  PROVE  QueueInv'
<1>1. QueueTypeOK'
    BY Zenon DEF SubmitNotAccepted, FreeJob, SubmitAdmitted, Tick, IsFirstFree,
           FreeJobs, QueueInv, QueueTypeOK, Job, JobStates, QueueStates,
           Batch
<1>2. FenceOrder'
    BY DEF SubmitNotAccepted, FreeJob, SubmitAdmitted, Tick, IsFirstFree,
           FreeJobs, FenceOrder, QueueInv, QueueTypeOK, Job, FreeJob
<1>3. NextToken'
    BY DEF SubmitNotAccepted, FreeJob, SubmitAdmitted, Tick, IsFirstFree,
           FreeJobs, NextToken, QueueInv, QueueTypeOK, Job, FreeJob
<1>4. DmaTracked'
    BY Zenon DEF SubmitNotAccepted, FreeJob, SubmitAdmitted, Tick, IsFirstFree,
           FreeJobs, DmaTracked, HeldJobs, QueueInv, QueueTypeOK, Job,
           FreeJob
<1>5. HeldJobs'
    BY DEF SubmitNotAccepted, FreeJob, SubmitAdmitted, Tick, IsFirstFree,
           FreeJobs, HeldJobs, QueueInv, QueueTypeOK, Job, FreeJob
<1>6. IssuedTokens'
    BY DEF SubmitNotAccepted, FreeJob, SubmitAdmitted, Tick, IsFirstFree,
           FreeJobs, IssuedTokens, QueueInv, QueueTypeOK, Job, FreeJob
<1>7. DistinctTokens'
    BY DEF SubmitNotAccepted, FreeJob, SubmitAdmitted, Tick, IsFirstFree,
           FreeJobs, DistinctTokens, QueueInv, QueueTypeOK, Job, FreeJob
<1>8. CompletedIsReal'
    BY DEF SubmitNotAccepted, FreeJob, SubmitAdmitted, Tick, IsFirstFree,
           FreeJobs, CompletedIsReal, QueueInv, QueueTypeOK, Job, FreeJob
<1>9. AdmissionIsClean'
    BY DEF SubmitNotAccepted, FreeJob, SubmitAdmitted, Tick, IsFirstFree,
           FreeJobs, AdmissionIsClean, QueueInv, QueueTypeOK, Job, FreeJob
<1>. QED
    BY <1>1, <1>2, <1>3, <1>4, <1>5, <1>6, <1>7, <1>8, <1>9 DEF QueueInv

\* An accepted batch is held before the device has it.
LEMMA SubmitAcceptedStep ==
  ASSUME NEW j \in JobIds, NEW now \in Times, NEW d \in Times,
         NEW R \in ResourceSets, QueueInv, SubmitAccepted(j, now, d, R)
  PROVE  QueueInv'
<1>1. QueueTypeOK'
    BY SMTT(60) DEF SubmitAccepted, Snapshot, ConsumeSequence, SubmitAdmitted, Tick,
           IsFirstFree, FreeJobs, QueueInv, QueueTypeOK, Job, JobStates,
           QueueStates, Batch, ResourceSets
<1>2. FenceOrder'
    BY SMTT(60) DEF SubmitAccepted, Snapshot, ConsumeSequence, SubmitAdmitted, Tick,
           IsFirstFree, FreeJobs, FenceOrder, NextToken, QueueInv,
           QueueTypeOK, Job
<1>3. NextToken'
    BY Zenon DEF SubmitAccepted, Snapshot, ConsumeSequence, SubmitAdmitted, Tick,
           IsFirstFree, FreeJobs, NextToken, QueueInv, QueueTypeOK, Job
<1>4. DmaTracked'
  <2> SUFFICES ASSUME NEW b \in dma' PROVE DmaTracked!(b)'
    BY DEF DmaTracked
  <2>0. ~jobs[j].held
    BY DEF SubmitAccepted, SubmitAdmitted, IsFirstFree, FreeJobs, QueueInv, HeldJobs
  <2>1. ~jobs[j].held /\ hwDone[qgen] < nextSeq /\ lastSubmitted < nextSeq
    <3>1. ~exhausted /\ nextSeq = lastSubmitted + 1 /\ hwDone[qgen] <= lastSubmitted
      BY DEF SubmitAccepted, SubmitAdmitted, QueueInv, NextToken, FenceOrder
    <3>2. lastSubmitted \in Nat /\ hwDone[qgen] \in Nat
      BY DEF QueueInv, QueueTypeOK
    <3>3. QED
      BY <2>0, <3>1, <3>2
  <2>2. CASE b \in dma
    <3>1. PICK k \in JobIds : /\ jobs[k].held /\ jobs[k].res = b.res
                             /\ jobs[k].gen = b.gen /\ jobs[k].seq = b.seq
      BY <2>2 DEF DmaTracked, QueueInv
    <3>2. jobs'[k] = jobs[k]
      BY <2>1, <3>1, Zenon DEF SubmitAccepted, QueueInv, QueueTypeOK
    <3>3. /\ b.seq \in Nat /\ b.gen = qgen /\ hwDone[qgen] < b.seq
          /\ b.seq <= lastSubmitted
      BY <2>2 DEF DmaTracked, QueueInv, QueueTypeOK, Batch
    <3>4. /\ lastSubmitted' = nextSeq /\ qgen' = qgen /\ hwDone' = hwDone
      BY DEF SubmitAccepted, ConsumeSequence
    <3>5. b.seq <= lastSubmitted'
      BY <2>1, <3>3, <3>4, SMTT(60) DEF QueueInv, QueueTypeOK
    <3>. QED
      BY <3>1, <3>2, <3>3, <3>4, <3>5
  <2>3. CASE b \notin dma
    BY <2>1, <2>3, SMTT(60) DEF SubmitAccepted, ConsumeSequence, Snapshot, QueueInv, QueueTypeOK
  <2>. QED
    BY <2>2, <2>3
<1>5. HeldJobs'
    BY Zenon DEF SubmitAccepted, Snapshot, ConsumeSequence, SubmitAdmitted, Tick,
           IsFirstFree, FreeJobs, HeldJobs, QueueInv, QueueTypeOK, Job
<1>6. IssuedTokens'
    BY SMTT(60) DEF SubmitAccepted, Snapshot, ConsumeSequence, SubmitAdmitted, Tick,
           IsFirstFree, FreeJobs, IssuedTokens, NextToken, QueueInv,
           QueueTypeOK, Job
<1>7. DistinctTokens'
  <2>1. \A k \in JobIds : jobs[k].state # "Free" =>
            jobs[k].gen # qgen \/ jobs[k].seq # nextSeq
    BY DEF SubmitAccepted, SubmitAdmitted, QueueInv, QueueTypeOK, NextToken, IssuedTokens
  <2>2. \A k \in JobIds : k # j => jobs'[k] = jobs[k]
    BY DEF SubmitAccepted, QueueInv, QueueTypeOK
  <2>3. jobs'[j].gen = qgen /\ jobs'[j].seq = nextSeq
    BY DEF SubmitAccepted, Snapshot, QueueInv, QueueTypeOK
  <2>. QED
    BY <2>1, <2>2, <2>3 DEF DistinctTokens, QueueInv
<1>8. CompletedIsReal'
    BY Zenon DEF SubmitAccepted, Snapshot, ConsumeSequence, SubmitAdmitted, Tick,
           IsFirstFree, FreeJobs, CompletedIsReal, QueueInv, QueueTypeOK, Job
<1>9. AdmissionIsClean'
    BY DEF SubmitAccepted, Snapshot, ConsumeSequence, SubmitAdmitted, Tick,
           IsFirstFree, FreeJobs, AdmissionIsClean, QueueInv, QueueTypeOK,
           Job
<1>. QED
    BY <1>1, <1>2, <1>3, <1>4, <1>5, <1>6, <1>7, <1>8, <1>9 DEF QueueInv

\* So is one that the device may or may not have.
LEMMA SubmitUnknownStep ==
  ASSUME NEW j \in JobIds, NEW now \in Times, NEW d \in Times,
         NEW R \in ResourceSets, NEW started \in BOOLEAN,
         QueueInv, SubmitUnknown(j, now, d, R, started)
  PROVE  QueueInv'
<1>1. QueueTypeOK'
    BY SMTT(60) DEF SubmitUnknown, Snapshot, ConsumeSequence, SubmitAdmitted, Tick,
           IsFirstFree, FreeJobs, QueueInv, QueueTypeOK, Job, JobStates,
           QueueStates, Batch, ResourceSets
<1>2. FenceOrder'
    BY SMTT(60) DEF SubmitUnknown, Snapshot, ConsumeSequence, SubmitAdmitted, Tick,
           IsFirstFree, FreeJobs, FenceOrder, NextToken, QueueInv,
           QueueTypeOK, Job
<1>3. NextToken'
    BY Zenon DEF SubmitUnknown, Snapshot, ConsumeSequence, SubmitAdmitted, Tick,
           IsFirstFree, FreeJobs, NextToken, QueueInv, QueueTypeOK, Job
<1>4. DmaTracked'
  <2> SUFFICES ASSUME NEW b \in dma' PROVE DmaTracked!(b)'
    BY DEF DmaTracked
  <2>0. ~jobs[j].held
    BY DEF SubmitUnknown, SubmitAdmitted, IsFirstFree, FreeJobs, QueueInv, HeldJobs
  <2>1. ~jobs[j].held /\ hwDone[qgen] < nextSeq /\ lastSubmitted < nextSeq
    <3>1. ~exhausted /\ nextSeq = lastSubmitted + 1 /\ hwDone[qgen] <= lastSubmitted
      BY DEF SubmitUnknown, SubmitAdmitted, QueueInv, NextToken, FenceOrder
    <3>2. lastSubmitted \in Nat /\ hwDone[qgen] \in Nat
      BY DEF QueueInv, QueueTypeOK
    <3>3. QED
      BY <2>0, <3>1, <3>2
  <2>2. CASE b \in dma
    <3>1. PICK k \in JobIds : /\ jobs[k].held /\ jobs[k].res = b.res
                             /\ jobs[k].gen = b.gen /\ jobs[k].seq = b.seq
      BY <2>2 DEF DmaTracked, QueueInv
    <3>2. jobs'[k] = jobs[k]
      BY <2>1, <3>1, Zenon DEF SubmitUnknown, QueueInv, QueueTypeOK
    <3>3. /\ b.seq \in Nat /\ b.gen = qgen /\ hwDone[qgen] < b.seq
          /\ b.seq <= lastSubmitted
      BY <2>2 DEF DmaTracked, QueueInv, QueueTypeOK, Batch
    <3>4. /\ lastSubmitted' = nextSeq /\ qgen' = qgen /\ hwDone' = hwDone
      BY DEF SubmitUnknown, ConsumeSequence
    <3>5. b.seq <= lastSubmitted'
      BY <2>1, <3>3, <3>4, SMTT(60) DEF QueueInv, QueueTypeOK
    <3>. QED
      BY <3>1, <3>2, <3>3, <3>4, <3>5
  <2>3. CASE b \notin dma
    BY <2>1, <2>3, SMTT(60) DEF SubmitUnknown, ConsumeSequence, Snapshot, QueueInv, QueueTypeOK
  <2>. QED
    BY <2>2, <2>3
<1>5. HeldJobs'
    BY Zenon DEF SubmitUnknown, Snapshot, ConsumeSequence, SubmitAdmitted, Tick,
           IsFirstFree, FreeJobs, HeldJobs, QueueInv, QueueTypeOK, Job
<1>6. IssuedTokens'
    BY SMTT(60) DEF SubmitUnknown, Snapshot, ConsumeSequence, SubmitAdmitted, Tick,
           IsFirstFree, FreeJobs, IssuedTokens, NextToken, QueueInv,
           QueueTypeOK, Job
<1>7. DistinctTokens'
  <2>1. \A k \in JobIds : jobs[k].state # "Free" =>
            jobs[k].gen # qgen \/ jobs[k].seq # nextSeq
    BY DEF SubmitUnknown, SubmitAdmitted, QueueInv, QueueTypeOK, NextToken, IssuedTokens
  <2>2. \A k \in JobIds : k # j => jobs'[k] = jobs[k]
    BY DEF SubmitUnknown, QueueInv, QueueTypeOK
  <2>3. jobs'[j].gen = qgen /\ jobs'[j].seq = nextSeq
    BY DEF SubmitUnknown, Snapshot, QueueInv, QueueTypeOK
  <2>. QED
    BY <2>1, <2>2, <2>3 DEF DistinctTokens, QueueInv
<1>8. CompletedIsReal'
    BY Zenon DEF SubmitUnknown, Snapshot, ConsumeSequence, SubmitAdmitted, Tick,
           IsFirstFree, FreeJobs, CompletedIsReal, QueueInv, QueueTypeOK, Job
<1>9. AdmissionIsClean'
    BY DEF SubmitUnknown, Snapshot, ConsumeSequence, SubmitAdmitted, Tick,
           IsFirstFree, FreeJobs, AdmissionIsClean, QueueInv, QueueTypeOK,
           Job
<1>. QED
    BY <1>1, <1>2, <1>3, <1>4, <1>5, <1>6, <1>7, <1>8, <1>9 DEF QueueInv

\* A timeout keeps the hold and closes the queue.
LEMMA ExpireStep ==
  ASSUME NEW now \in Times, QueueInv, Expire(now)
  PROVE  QueueInv'
<1>1. QueueTypeOK'
    BY ZenonT(30) DEF Expire, Tick, Expired, ExpiredState, Overdue, QueueInv,
           QueueTypeOK, Job, JobStates, QueueStates, Batch
<1>2. FenceOrder'
    BY DEF Expire, Tick, Expired, ExpiredState, Overdue, FenceOrder,
           QueueInv, QueueTypeOK, Job
<1>3. NextToken'
    BY DEF Expire, Tick, Expired, ExpiredState, Overdue, NextToken, QueueInv,
           QueueTypeOK, Job
<1>4. DmaTracked'
    BY DEF Expire, Tick, Expired, ExpiredState, Overdue, DmaTracked,
           QueueInv, QueueTypeOK, Job
<1>5. HeldJobs'
    BY ZenonT(60) DEF Expire, Tick, Expired, ExpiredState, Overdue, HeldJobs, QueueInv,
           QueueTypeOK, Job
<1>6. IssuedTokens'
    BY Zenon DEF Expire, Tick, Expired, ExpiredState, Overdue, IssuedTokens,
           QueueInv, QueueTypeOK, Job
<1>7. DistinctTokens'
    BY ZenonT(60) DEF Expire, Tick, Expired, ExpiredState, Overdue, DistinctTokens,
           QueueInv, QueueTypeOK, Job
<1>8. CompletedIsReal'
    BY Zenon DEF Expire, Tick, Expired, ExpiredState, Overdue, CompletedIsReal,
           QueueInv, QueueTypeOK, Job
<1>9. AdmissionIsClean'
    BY DEF Expire, Tick, Expired, ExpiredState, Overdue, AdmissionIsClean,
           QueueInv, QueueTypeOK, Job
<1>. QED
    BY <1>1, <1>2, <1>3, <1>4, <1>5, <1>6, <1>7, <1>8, <1>9 DEF QueueInv

\* An interrupt without an observation is an expiry.
LEMMA InterruptUnobservedStep ==
  ASSUME NEW g \in Generations, NEW now \in Times,
         QueueInv, InterruptUnobserved(g, now)
  PROVE  QueueInv'
<1>1. QueueTypeOK'
    BY ZenonT(30) DEF InterruptUnobserved, InterruptAdmitted, Tick, Expired,
           ExpiredState, Overdue, QueueInv, QueueTypeOK, Job, JobStates,
           QueueStates, Batch
<1>2. FenceOrder'
    BY DEF InterruptUnobserved, InterruptAdmitted, Tick, Expired,
           ExpiredState, Overdue, FenceOrder, QueueInv, QueueTypeOK, Job
<1>3. NextToken'
    BY DEF InterruptUnobserved, InterruptAdmitted, Tick, Expired,
           ExpiredState, Overdue, NextToken, QueueInv, QueueTypeOK, Job
<1>4. DmaTracked'
    BY DEF InterruptUnobserved, InterruptAdmitted, Tick, Expired,
           ExpiredState, Overdue, DmaTracked, QueueInv, QueueTypeOK, Job
<1>5. HeldJobs'
    BY ZenonT(60) DEF InterruptUnobserved, InterruptAdmitted, Tick, Expired,
           ExpiredState, Overdue, HeldJobs, QueueInv, QueueTypeOK, Job
<1>6. IssuedTokens'
    BY Zenon DEF InterruptUnobserved, InterruptAdmitted, Tick, Expired,
           ExpiredState, Overdue, IssuedTokens, QueueInv, QueueTypeOK, Job
<1>7. DistinctTokens'
    BY ZenonT(60) DEF InterruptUnobserved, InterruptAdmitted, Tick, Expired,
           ExpiredState, Overdue, DistinctTokens, QueueInv, QueueTypeOK, Job
<1>8. CompletedIsReal'
    BY Zenon DEF InterruptUnobserved, InterruptAdmitted, Tick, Expired,
           ExpiredState, Overdue, CompletedIsReal, QueueInv, QueueTypeOK, Job
<1>9. AdmissionIsClean'
    BY Zenon DEF InterruptUnobserved, InterruptAdmitted, Tick, Expired,
           ExpiredState, Overdue, AdmissionIsClean, QueueInv, QueueTypeOK,
           Job
<1>. QED
    BY <1>1, <1>2, <1>3, <1>4, <1>5, <1>6, <1>7, <1>8, <1>9 DEF QueueInv

\* A plausible observation is the value the device wrote, so only batches
\* the device has finished are released.
LEMMA OnInterruptStep ==
  ASSUME NEW g \in Generations, NEW now \in Times,
         NEW n \in FenceReadings, QueueInv, OnInterrupt(g, now, n)
  PROVE  QueueInv'
<1>0. n = hwDone[qgen] /\ n \in 0 .. MaxSequence /\ lastObserved <= n
    BY DEF OnInterrupt, FenceReadings, PlausibleFence, QueueInv, QueueTypeOK
<1>1. \A j \in JobIds :
        /\ jobs'[j] \in Job
        /\ jobs'[j].gen = jobs[j].gen /\ jobs'[j].seq = jobs[j].seq
        /\ jobs'[j].res = jobs[j].res
        /\ jobs'[j].held => jobs[j].held
        /\ jobs[j].held /\ ~jobs'[j].held => jobs[j].seq <= n
        /\ jobs'[j].state = "Submitted" =>
              jobs[j].state = "Submitted" /\ jobs'[j].held = jobs[j].held
        /\ jobs'[j].state = "Free" <=> jobs[j].state = "Free"
        /\ jobs[j].state \in Undecided /\ jobs'[j].held =>
              jobs'[j].state \in Undecided
        /\ jobs'[j].state = "Completed" =>
              \/ jobs[j].state = "Completed"
              \/ jobs[j].gen = qgen /\ jobs[j].seq <= n
        /\ jobs'[j].held /\ qstate' = "Ready" => jobs'[j].state = jobs[j].state
  <2> SUFFICES ASSUME NEW j \in JobIds PROVE <1>1!(j)
    BY SMTT(60)
  <2> DEFINE e == Expired(now)[j]
  <2>1. /\ e \in Job /\ e.gen = jobs[j].gen /\ e.seq = jobs[j].seq
        /\ e.res = jobs[j].res /\ e.held = jobs[j].held
        /\ \/ e.state = jobs[j].state
           \/ jobs[j].state = "Submitted" /\ e.state = "TimedOut"
        /\ qstate' = "Ready" => e.state = jobs[j].state
    <3>1. jobs[j] \in Job
      BY DEF QueueInv, QueueTypeOK
    <3>2. CASE Overdue(j, now)
      <4>1. e = [jobs[j] EXCEPT !.state = "TimedOut"] /\ qstate' = "NeedsReset"
        BY <3>2 DEF OnInterrupt, Expired, ExpiredState
      <4>. QED
        BY <3>1, <3>2, <4>1 DEF Overdue, Job, JobStates
    <3>3. CASE ~Overdue(j, now)
      <4>1. e = jobs[j]
        BY <3>3 DEF Expired
      <4> HIDE DEF e
      <4>. QED
        BY <3>1, <4>1
    <3>. QED
      BY <3>2, <3>3
  <2>2. jobs'[j] = Observed(e, n)
    BY DEF OnInterrupt
  <2> HIDE DEF e
  <2>3. CASE Covered(e, n) /\ e.state \in Undecided
    BY <1>0, <2>1, <2>2, <2>3, ZenonT(30) DEF Observed, Covered, Job, JobStates
  <2>4. CASE ~(Covered(e, n) /\ e.state \in Undecided)
    BY <2>1, <2>2, <2>4, Zenon DEF Observed
  <2>. QED
    BY <2>3, <2>4
<1>2. /\ qstate' \in QueueStates /\ lastTime' \in Times
      /\ qstate' # "Inactive"
      /\ qstate' = "Ready" => qstate = "Ready"
      /\ lastObserved' = n
      /\ UNCHANGED <<qgen, nextSeq, lastSubmitted, exhausted, dma, hwDone>>
    BY DEF OnInterrupt, InterruptAdmitted, Tick, ExpiredState, QueueStates,
           QueueInv, QueueTypeOK
<1>3. QueueTypeOK'
    BY <1>0, <1>1, <1>2, Zenon DEF OnInterrupt, QueueInv, QueueTypeOK
<1>4. FenceOrder' /\ NextToken'
    BY <1>0, <1>2 DEF FenceOrder, NextToken, QueueInv, QueueTypeOK
<1>5. DmaTracked'
    BY <1>0, <1>1, <1>2, SMTT(60) DEF DmaTracked, QueueInv, QueueTypeOK, Batch
<1>6. HeldJobs' /\ IssuedTokens' /\ DistinctTokens'
    BY <1>1, <1>2 DEF HeldJobs, IssuedTokens, DistinctTokens, QueueInv
<1>7. CompletedIsReal'
    BY <1>0, <1>1, <1>2, Zenon DEF CompletedIsReal, QueueInv, QueueTypeOK
<1>8. AdmissionIsClean'
  <2>1. ASSUME qstate' = "Ready", NEW j \in JobIds, jobs'[j].held
        PROVE  jobs'[j].state = "Submitted" /\ jobs'[j].gen = qgen'
    <3>1. /\ jobs[j].held /\ jobs'[j].state = jobs[j].state
          /\ jobs'[j].gen = jobs[j].gen
      BY <1>1, <2>1
    <3>2. jobs[j].state = "Submitted" /\ jobs[j].gen = qgen
      BY <1>2, <2>1, <3>1 DEF AdmissionIsClean, QueueInv
    <3>. QED
      BY <1>2, <3>1, <3>2
  <2>. QED
    BY <1>2, <2>1 DEF AdmissionIsClean
<1>. QED
    BY <1>3, <1>4, <1>5, <1>6, <1>7, <1>8 DEF QueueInv

\* A failed reset only closes the queue.
LEMMA ResetFailedStep ==
  ASSUME NEW now \in Times, QueueInv, ResetFailed(now)
  PROVE  QueueInv'
<1>1. QueueTypeOK'
    BY DEF ResetFailed, Tick, QueueInv, QueueTypeOK, Job, JobStates,
           QueueStates, Batch
<1>2. FenceOrder'
    BY DEF ResetFailed, Tick, FenceOrder, QueueInv, QueueTypeOK, Job
<1>3. NextToken'
    BY DEF ResetFailed, Tick, NextToken, QueueInv, QueueTypeOK, Job
<1>4. DmaTracked'
    BY DEF ResetFailed, Tick, DmaTracked, QueueInv, QueueTypeOK, Job
<1>5. HeldJobs'
    BY DEF ResetFailed, Tick, HeldJobs, QueueInv, QueueTypeOK, Job
<1>6. IssuedTokens'
    BY DEF ResetFailed, Tick, IssuedTokens, QueueInv, QueueTypeOK, Job
<1>7. DistinctTokens'
    BY DEF ResetFailed, Tick, DistinctTokens, QueueInv, QueueTypeOK, Job
<1>8. CompletedIsReal'
    BY DEF ResetFailed, Tick, CompletedIsReal, QueueInv, QueueTypeOK, Job
<1>9. AdmissionIsClean'
    BY DEF ResetFailed, Tick, AdmissionIsClean, QueueInv, QueueTypeOK, Job
<1>. QED
    BY <1>1, <1>2, <1>3, <1>4, <1>5, <1>6, <1>7, <1>8, <1>9 DEF QueueInv

\* After a confirmed quiesce nothing is held and nothing is in the device.
LEMMA ResetQueueStep ==
  ASSUME NEW now \in Times, QueueInv, ResetQueue(now)
  PROVE  QueueInv'
<1>0. qgen + 1 \in Generations
    BY  DEF ResetQueue, QueueInv, QueueTypeOK
<1>1. \A j \in JobIds :
        /\ jobs'[j] \in Job
        /\ jobs'[j].gen = jobs[j].gen /\ jobs'[j].seq = jobs[j].seq
        /\ ~jobs'[j].held
        /\ jobs'[j].state # "Submitted"
        /\ jobs'[j].state = "Free" <=> jobs[j].state = "Free"
        /\ jobs'[j].state = "Completed" <=> jobs[j].state = "Completed"
    BY ZenonT(30) DEF ResetQueue, ResetJob, Job, JobStates, QueueInv, QueueTypeOK
<1>2. QueueTypeOK'
  <2>1. jobs' \in [JobIds -> Job]
    BY <1>1 DEF ResetQueue
  <2>2. exhausted' \in BOOLEAN /\ qstate' \in QueueStates /\ dma' \subseteq Batch
    BY ZenonT(30) DEF ResetQueue, QueueStates
  <2>3. /\ qgen' \in Generations /\ lastTime' \in Times /\ nextSeq' \in Sequences
        /\ lastSubmitted' \in 0 .. MaxSequence /\ lastObserved' \in 0 .. MaxSequence
        /\ hwDone' \in [Generations -> 0 .. MaxSequence]
    BY <1>0 DEF ResetQueue, Tick, QueueInv, QueueTypeOK
  <2>. QED
    BY <2>1, <2>2, <2>3, Zenon DEF QueueTypeOK
<1>3. FenceOrder' /\ NextToken'
    BY <1>0 DEF ResetQueue, FenceOrder, NextToken, QueueInv, QueueTypeOK
<1>4. DmaTracked' /\ HeldJobs'
    BY <1>1 DEF ResetQueue, DmaTracked, HeldJobs
<1>5. IssuedTokens'
  <2>1. \A j \in JobIds : jobs[j].state # "Free" =>
            jobs[j].gen \in 1 .. qgen /\ jobs[j].seq \in Sequences
    BY DEF IssuedTokens, QueueInv
  <2>2. qgen' = qgen + 1 /\ qgen \in Nat
    BY DEF ResetQueue, QueueInv, QueueTypeOK
  <2>. QED
    BY <1>1, <2>1, <2>2 DEF IssuedTokens
<1>8. DistinctTokens'
    BY <1>1 DEF DistinctTokens, QueueInv
<1>6. CompletedIsReal'
    BY <1>1 DEF ResetQueue, CompletedIsReal, QueueInv
<1>7. AdmissionIsClean'
    BY <1>1 DEF ResetQueue, AdmissionIsClean
<1>. QED
    BY <1>2, <1>3, <1>4, <1>5, <1>6, <1>7, <1>8 DEF QueueInv

\* Only an entry that holds nothing is retired.
LEMMA RetireJobStep ==
  ASSUME NEW gen \in Generations, NEW seq \in Sequences,
         QueueInv, RetireJob(gen, seq)
  PROVE  QueueInv'
<1>1. QueueTypeOK'
    BY SMTT(60) DEF RetireJob, IsFound, HasToken, FreeJob, QueueInv, QueueTypeOK, Job,
           JobStates, QueueStates, Batch
<1>2. FenceOrder'
    BY DEF RetireJob, IsFound, HasToken, FreeJob, FenceOrder, QueueInv,
           QueueTypeOK, Job, FreeJob
<1>3. NextToken'
    BY SMTT(60) DEF RetireJob, IsFound, HasToken, FreeJob, NextToken, QueueInv,
           QueueTypeOK, Job, FreeJob
<1>4. DmaTracked'
  <2> PICK j \in JobIds : ~jobs[j].held /\ jobs' = [jobs EXCEPT ![j] = FreeJob]
                        /\ UNCHANGED <<qgen, lastSubmitted, dma, hwDone>>
    BY Zenon DEF RetireJob
  <2>. QED
    BY DEF DmaTracked, QueueInv, QueueTypeOK
<1>5. HeldJobs'
    BY SMTT(60) DEF RetireJob, IsFound, HasToken, FreeJob, HeldJobs, QueueInv,
           QueueTypeOK, Job, FreeJob
<1>6. IssuedTokens'
    BY SMTT(60) DEF RetireJob, IsFound, HasToken, FreeJob, IssuedTokens, QueueInv,
           QueueTypeOK, Job, FreeJob
<1>7. DistinctTokens'
    BY SMTT(60) DEF RetireJob, IsFound, HasToken, FreeJob, DistinctTokens, QueueInv,
           QueueTypeOK, Job, FreeJob
<1>8. CompletedIsReal'
    BY DEF RetireJob, IsFound, HasToken, FreeJob, CompletedIsReal, QueueInv,
           QueueTypeOK, Job, FreeJob
<1>9. AdmissionIsClean'
    BY DEF RetireJob, IsFound, HasToken, FreeJob, AdmissionIsClean, QueueInv,
           QueueTypeOK, Job, FreeJob
<1>. QED
    BY <1>1, <1>2, <1>3, <1>4, <1>5, <1>6, <1>7, <1>8, <1>9 DEF QueueInv

\* The device finishes a batch it was given, and all before it.
LEMMA DeviceCompletesStep ==
  ASSUME QueueInv, DeviceCompletes
  PROVE  QueueInv'
<1>1. QueueTypeOK'
    BY DEF DeviceCompletes, software, QueueInv, QueueTypeOK, Job, JobStates,
           QueueStates, Batch, DmaTracked
<1>2. FenceOrder'
    BY DEF DeviceCompletes, software, FenceOrder, DmaTracked, QueueInv,
           QueueTypeOK, Job
<1>3. NextToken'
    BY DEF DeviceCompletes, software, NextToken, QueueInv, QueueTypeOK, Job
<1>4. DmaTracked'
    BY SMTT(60) DEF DeviceCompletes, software, DmaTracked, QueueInv, QueueTypeOK, Job
<1>5. HeldJobs'
    BY DEF DeviceCompletes, software, HeldJobs, QueueInv, QueueTypeOK, Job
<1>6. IssuedTokens'
    BY DEF DeviceCompletes, software, IssuedTokens, QueueInv, QueueTypeOK,
           Job
<1>7. DistinctTokens'
    BY DEF DeviceCompletes, software, DistinctTokens, QueueInv, QueueTypeOK,
           Job
<1>8. CompletedIsReal'
    BY SMTT(60) DEF DeviceCompletes, software, CompletedIsReal, DmaTracked, QueueInv,
           QueueTypeOK, Job
<1>9. AdmissionIsClean'
    BY DEF DeviceCompletes, software, AdmissionIsClean, QueueInv,
           QueueTypeOK, Job
<1>. QED
    BY <1>1, <1>2, <1>3, <1>4, <1>5, <1>6, <1>7, <1>8, <1>9 DEF QueueInv

\* Every step of the queue or of its device preserves the invariant; the
\* lemma is also what the composition with the memory manager rests on.
LEMMA QueueInvStep == QueueInv /\ [QueueNext]_queueVars => QueueInv'
<1> SUFFICES ASSUME QueueInv, [QueueNext]_queueVars PROVE QueueInv'
    OBVIOUS
<1>1. CASE Activate
    BY <1>1, ActivateStep
<1>2. CASE Submitting
    BY <1>2, SubmitInvalidStep, SubmitNotAcceptedStep, SubmitAcceptedStep,
       SubmitUnknownStep DEF Submitting
<1>3. CASE \E now \in Times : SubmitRefused(now) \/ Expire(now)
                              \/ ResetFailed(now) \/ ResetQueue(now)
    BY <1>3, SubmitRefusedStep, ExpireStep, ResetFailedStep, ResetQueueStep
<1>4. CASE Interrupted
    BY <1>4, InterruptUnobservedStep, OnInterruptStep DEF Interrupted
<1>5. CASE \E gen \in Generations, seq \in Sequences : RetireJob(gen, seq)
    BY <1>5, RetireJobStep, SMTT(30)
<1>6. CASE DeviceCompletes
    BY <1>6, DeviceCompletesStep
<1>7. CASE UNCHANGED queueVars
    BY <1>7 DEF queueVars, QueueInv, QueueTypeOK, FenceOrder, NextToken,
       DmaTracked, HeldJobs, IssuedTokens, DistinctTokens, CompletedIsReal,
       AdmissionIsClean
<1>. QED
    BY <1>1, <1>2, <1>3, <1>4, <1>5, <1>6, <1>7 DEF QueueNext

\* What the invariant says of the run's properties.
LEMMA QueueInvImplies == QueueInv => DmaHeld /\ TokensUnique
<1> SUFFICES ASSUME QueueInv PROVE DmaHeld /\ TokensUnique
    OBVIOUS
<1>1. DmaHeld
    BY DEF DmaHeld, DmaTracked, QueueInv
<1>2. ASSUME NEW j \in JobIds, jobs[j].state # "Free"
      PROVE  /\ jobs[j].gen <= qgen
             /\ jobs[j].gen = qgen => jobs[j].seq < nextSeq \/ exhausted
    BY <1>2 DEF IssuedTokens, NextToken, QueueInv, QueueTypeOK
<1>. QED
    BY <1>1, <1>2 DEF TokensUnique, DistinctTokens, QueueInv

\* The invariant holds throughout every behaviour of the queue.
THEOREM QueueInvariant == QueueSpec => []QueueInv
<1>. QED
    BY QueueInvInit, QueueInvStep, PTL DEF QueueSpec

\* For every table, sequence and generation bound: every variable keeps its
\* type, however submissions, timeouts, fences and resets interleave.
THEOREM QueueTypeCorrect == QueueSpec => []QueueTypeOK
<1>1. QueueInv => QueueTypeOK
    BY DEF QueueInv
<1>. QED
    BY QueueInvariant, <1>1, PTL

\* No batch the device may still be accessing is ever without its hold.
THEOREM QueueDmaHeld == QueueSpec => []DmaHeld
<1>. QED
    BY QueueInvariant, QueueInvImplies, PTL

\* Completed is only reported for work the device really finished.
THEOREM QueueCompletedIsReal == QueueSpec => []CompletedIsReal
<1>1. QueueInv => CompletedIsReal
    BY DEF QueueInv
<1>. QED
    BY QueueInvariant, <1>1, PTL

\* Fence tokens are never ambiguous and never handed out twice.
THEOREM QueueTokensUnique == QueueSpec => []TokensUnique
<1>. QED
    BY QueueInvariant, QueueInvImplies, PTL

\* The queue is open, or inactive, only when nothing is uncertain.
THEOREM QueueAdmissionIsClean == QueueSpec => []AdmissionIsClean
<1>1. QueueInv => AdmissionIsClean
    BY DEF QueueInv
<1>. QED
    BY QueueInvariant, <1>1, PTL

\* Results are final: a step that changes the state of a decided job either
\* resets an unknown acceptance or retires an entry that holds nothing.
LEMMA FinalStep ==
  ASSUME QueueInv, QueueNext, NEW k \in JobIds,
         jobs[k].state \notin {"Free", "Submitted"}
  PROVE  Outcome(jobs[k], jobs'[k])
<1>0. jobs[k] \in Job
    BY DEF QueueInv, QueueTypeOK
<1>1. CASE Activate \/ DeviceCompletes
    BY <1>1 DEF Activate, DeviceCompletes, software, Outcome
<1>2. CASE Submitting
  <2>1. PICK j \in JobIds, now \in Times, d \in Times, R \in ResourceSets :
            \/ SubmitInvalid(j, now, d, R)
            \/ SubmitNotAccepted(j, now, d, R)
            \/ SubmitAccepted(j, now, d, R)
            \/ \E started \in BOOLEAN : SubmitUnknown(j, now, d, R, started)
    BY <1>2, Zenon DEF Submitting
  <2>2. jobs[j].state = "Free"
    BY <2>1, Zenon DEF SubmitInvalid, SubmitNotAccepted, SubmitAccepted,
       SubmitUnknown, SubmitAdmitted, IsFirstFree, FreeJobs
  <2>3. \A i \in JobIds : i # j => jobs'[i] = jobs[i]
    BY <2>1, Zenon DEF SubmitInvalid, SubmitNotAccepted, SubmitAccepted,
       SubmitUnknown, QueueInv, QueueTypeOK
  <2>. QED
    BY <2>2, <2>3 DEF Outcome
<1>3. CASE \E now \in Times : SubmitRefused(now) \/ ResetFailed(now)
    BY <1>3 DEF SubmitRefused, ResetFailed, Outcome
<1>4. CASE (\E now \in Times : Expire(now))
             \/ (\E g \in Generations, now \in Times : InterruptUnobserved(g, now))
  <2>1. PICK now \in Times : jobs' = Expired(now)
    BY <1>4 DEF Expire, InterruptUnobserved
  <2>. QED
    BY <2>1 DEF Expired, Overdue, Outcome
<1>5. CASE \E now \in Times : ResetQueue(now)
  <2>1. jobs'[k] = ResetJob(jobs[k])
    BY <1>5 DEF ResetQueue
  <2>. QED
    BY <1>0, <2>1 DEF ResetJob, Outcome, Job, JobStates
<1>6. CASE \E g \in Generations, now \in Times, n \in FenceReadings :
              OnInterrupt(g, now, n)
  <2>1. PICK now \in Times, n \in FenceReadings :
            jobs'[k] = Observed(Expired(now)[k], n)
    BY <1>6 DEF OnInterrupt
  <2>2. Expired(now)[k] = jobs[k]
    BY DEF Expired, Overdue
  <2>. QED
    BY <1>0, <2>1, <2>2 DEF Observed, Outcome, Job, JobStates
<1>7. CASE \E gen \in Generations, seq \in Sequences : RetireJob(gen, seq)
  <2>1. PICK j \in JobIds : ~jobs[j].held /\ jobs' = [jobs EXCEPT ![j] = FreeJob]
    BY <1>7, Zenon DEF RetireJob
  <2>. QED
    BY <2>1 DEF Outcome, FreeJob, QueueInv, QueueTypeOK
<1>. QED
    BY <1>1, <1>2, <1>3, <1>4, <1>5, <1>6, <1>7 DEF QueueNext, Interrupted

\* A result that query() has reported is never replaced by another one.
THEOREM QueueResultsAreFinal == QueueSpec => ResultsAreFinal
<1>1. QueueInv /\ [QueueNext]_queueVars =>
        [\A j \in JobIds : jobs[j].state \notin {"Free", "Submitted"} =>
            Outcome(jobs[j], jobs'[j])]_queueVars
    BY FinalStep
<1>. QED
    BY QueueInvariant, <1>1, PTL DEF QueueSpec, ResultsAreFinal
=============================================================================
