-------------------------- MODULE GpFifoRingProofs --------------------------
(***************************************************************************)
(* The ring, the counters and the job records of the GPFIFO queue, for     *)
(* every ring size, number of jobs and range of sequence numbers.          *)
(*                                                                         *)
(* RingInv is inductive without the memory owner: sequence numbers from    *)
(* completed_ through fence and GP_GET to GP_PUT are in order, each one    *)
(* between is in exactly one place (a running entry, an unread entry, a    *)
(* job in flight), and the entries name no more than their jobs hold.      *)
(***************************************************************************)
EXTENDS GpFifoQueue, FiniteSetTheorems, TLAPS

JobStates == {"Free", "Submitted", "PublicationUnknown", "TimedOut", "Completed", "Reset"}

Job == [state : JobStates, gen : Nat, seq : Nat, commands : Handle \cup {NoHandle},
        held : SUBSET Handle, ringPending : BOOLEAN]

RingEntry == [gen : Nat, seq : Nat, res : SUBSET Handle]

\* The types of the queue and of the channel.
FifoTypeOK ==
    /\ setup \in Setups /\ qgen \in 1 .. setup.generations
    /\ bound = <<>> \/ \E r, f \in Handle : bound = <<r, f>>
    /\ {put, get, gpPut} \subseteq Indices
    /\ {nextSequence, completed, fence, fetched, visible} \subseteq Sequences
    /\ jobs \in [JobIds -> Job]
    /\ ring \in [Indices -> RingEntry] /\ running \subseteq RingEntry
    /\ stopped \in BOOLEAN

\* Jobs whose entry has not been accounted for, and entries not yet fetched.
InFlight == {j \in JobIds : jobs[j].ringPending}

Left == visible - fetched

EntryAt(i) == ring[(get + i) % setup.entries]

\* The phases of the queue, and the order of its counters.
PhaseInv ==
    /\ qstate = "Detached" =>
          bound = <<>> /\ ~lease /\ completed = nextSequence /\ InFlight = {} /\ running = {}
    /\ qstate # "Detached" => bound # <<>> /\ qgen # setup.generations
    /\ qstate = "Ready" => visible = nextSequence /\ gpPut = put /\ ~stopped
    /\ halted = stopped
    /\ stopped => InFlight = {} /\ running = {}

CounterInv ==
    /\ completed <= fence /\ fence <= fetched /\ fetched <= visible
    /\ visible <= nextSequence
    /\ Left < setup.entries /\ gpPut = (get + Left) % setup.entries
    /\ pending = Cardinality(InFlight)

\* Unread entries and running entries carry consecutive sequence numbers.
EntryInv ==
    /\ \A i \in 0 .. Left - 1 : EntryAt(i).gen = qgen /\ EntryAt(i).seq = fetched + 1 + i
    /\ ~stopped =>
          /\ \A e \in running : e.gen = qgen /\ e.seq \in fence + 1 .. fetched
          /\ \A q \in fence + 1 .. fetched : \E e \in running : e.seq = q
          /\ \A e, o \in running : e.seq = o.seq => e = o

\* Only jobs in flight hold anything.  Their sequence numbers are consecutive,
\* and they hold what their entries name.
RecordInv == \A j \in JobIds :
    /\ jobs[j].state = "Free" => j \notin InFlight
    /\ jobs[j].held # {} => j \in InFlight

SequenceInv ==
    /\ \A j \in InFlight : jobs[j].gen = qgen /\ jobs[j].seq \in completed + 1 .. nextSequence
    /\ \A i, j \in InFlight : jobs[i].seq = jobs[j].seq => i = j
    /\ ~stopped => \A q \in completed + 1 .. nextSequence :
                       \E j \in InFlight : jobs[j].seq = q

ResourceInv == \A j \in InFlight :
    /\ \A e \in running : e.seq = jobs[j].seq => e.res \subseteq jobs[j].held
    /\ \A i \in 0 .. Left - 1 :
          EntryAt(i).seq = jobs[j].seq => EntryAt(i).res \subseteq jobs[j].held

DoneInv ==
    /\ \A q \in completed + 1 .. fence : [gen |-> qgen, seq |-> q] \in finished
    /\ JobsReallyComplete

RingInv == FifoTypeOK /\ PhaseInv /\ CounterInv /\ EntryInv /\ RecordInv
           /\ SequenceInv /\ ResourceInv /\ DoneInv

-----------------------------------------------------------------------------
\* The ring's size and the counters are numbers.
LEMMA Numbers ==
    ASSUME FifoTypeOK
    PROVE  /\ setup.entries \in Nat /\ setup.entries >= 2
           /\ setup.generations \in 1 .. MaxQueueGeneration
           /\ {put, get, gpPut} \subseteq 0 .. setup.entries - 1
           /\ {nextSequence, completed, fence, fetched, visible} \subseteq Nat
           /\ qgen \in 1 .. setup.generations /\ Left \in Int
<1>1. setup.entries \in Nat /\ setup.entries >= 2
      /\ setup.generations \in 1 .. MaxQueueGeneration
  BY SetupsAssumption DEF FifoTypeOK
<1>2. {put, get, gpPut} \subseteq 0 .. setup.entries - 1 /\ qgen \in 1 .. setup.generations
  BY Zenon DEF FifoTypeOK, Indices
<1>3. {nextSequence, completed, fence, fetched, visible} \subseteq Nat
  BY SequenceAssumption DEF FifoTypeOK, Sequences
<1>4. Left \in Int
  BY <1>3 DEF Left
<1>5. QED
  BY <1>1, <1>2, <1>3, <1>4

\* Ring indices wrap once at most.
LEMMA Wraps ==
    ASSUME NEW N \in Nat, N >= 2, NEW a \in 0 .. N - 1, NEW b \in 0 .. N - 1
    PROVE  /\ (a + b) % N \in 0 .. N - 1
           /\ (a + b) % N = IF a + b < N THEN a + b ELSE a + b - N
<1>1. \A x \in 0 .. N - 1 : x % N = x
  OBVIOUS
<1>2. \A x \in N .. 2 * N - 1 : x % N = x - N
  OBVIOUS
<1>3. CASE a + b < N
  BY <1>1, <1>3
<1>4. CASE a + b >= N
  BY <1>2, <1>4
<1>5. QED
  BY <1>3, <1>4

\* No step around the ring.
LEMMA WrapsNot ==
    ASSUME NEW N \in Nat, N >= 2, NEW a \in 0 .. N - 1
    PROVE  (a + 0) % N = a
  OBVIOUS

\* Counting from the next index.
LEMMA WrapsNext ==
    ASSUME NEW N \in Nat, N >= 2, NEW a \in 0 .. N - 1, NEW b \in 0 .. N - 2
    PROVE  (((a + 1) % N) + b) % N = (a + (b + 1)) % N
<1>1. \A x, y \in 0 .. N - 1 : /\ (x + y) % N \in 0 .. N - 1
                               /\ (x + y) % N = IF x + y < N THEN x + y ELSE x + y - N
  BY Wraps, Zenon
<1>2. 1 \in 0 .. N - 1 /\ b \in 0 .. N - 1 /\ b + 1 \in 0 .. N - 1
  OBVIOUS
<1>3. PICK c \in 0 .. N - 1 : c = (a + 1) % N /\ c = IF a + 1 < N THEN a + 1 ELSE a + 1 - N
  BY <1>1, <1>2, Zenon
<1>4. (c + b) % N = IF c + b < N THEN c + b ELSE c + b - N
  BY <1>1, <1>2, <1>3, Zenon
<1>5. (a + (b + 1)) % N = IF a + (b + 1) < N THEN a + (b + 1) ELSE a + (b + 1) - N
  BY <1>1, <1>2, Zenon
<1>6. (IF c + b < N THEN c + b ELSE c + b - N)
      = IF a + (b + 1) < N THEN a + (b + 1) ELSE a + (b + 1) - N
  BY <1>2, <1>3
<1>7. QED
  BY <1>3, <1>4, <1>5, <1>6

\* The distance that GP_GET and GP_PUT show is the number of entries between.
LEMMA DistanceBetween ==
    ASSUME NEW N \in Nat, N >= 2, NEW g \in 0 .. N - 1, NEW d \in 0 .. N - 1
    PROVE  (((g + d) % N) - g) % N = d
<1>1. \A x \in 0 .. N - 1 : x % N = x
  OBVIOUS
<1>2. \A x \in Int : x < 0 /\ x >= -N => x % N = x + N
  OBVIOUS
<1>3. (g + d) % N = IF g + d < N THEN g + d ELSE g + d - N
  BY Wraps, Zenon
<1>4. CASE g + d < N
  BY <1>1, <1>3, <1>4
<1>5. CASE g + d >= N
  <2>1. ((g + d) % N) - g = d - N
    BY <1>3, <1>5
  <2>2. d - N \in Int /\ d - N < 0 /\ d - N >= -N
    OBVIOUS
  <2>3. (d - N) % N = d - N + N
    BY <1>2, <2>2
  <2>4. QED
    BY <2>1, <2>3
<1>6. QED
  BY <1>4, <1>5

\* Jobs can be counted.
LEMMA JobsCount ==
    ASSUME NEW J \in SUBSET JobIds
    PROVE  IsFiniteSet(J) /\ Cardinality(J) \in Nat /\ (J # {} => Cardinality(J) > 0)
<1>1. IsFiniteSet(JobIds)
  BY FS_Interval, JobsAssumption DEF JobIds
<1>2. IsFiniteSet(J)
  BY <1>1, FS_Subset
<1>3. QED
  BY <1>2, FS_CardinalityType, FS_EmptySet

\* Removing some of them.
LEMMA JobsRemoved ==
    ASSUME NEW J \in SUBSET JobIds, NEW K \in SUBSET J
    PROVE  Cardinality(J \ K) = Cardinality(J) - Cardinality(K)
<1>1. IsFiniteSet(J) /\ IsFiniteSet(K) /\ J \cap K = K
  BY JobsCount
<1>2. Cardinality(J \ K) = Cardinality(J) - Cardinality(J \cap K)
  BY <1>1, FS_Difference
<1>3. QED
  BY <1>1, <1>2

\* An entry may be written at put_ while the queue is ready: nobody reads it.
LEMMA PutIsUnread ==
    ASSUME FifoTypeOK, PhaseInv, CounterInv, qstate = "Ready", NEW e,
           ring' = [ring EXCEPT ![put] = e], UNCHANGED <<setup, get>>
    PROVE  \A i \in 0 .. Left - 1 : EntryAt(i)' = EntryAt(i)
<1> DEFINE N == setup.entries
<1>1. N \in Nat /\ N >= 2 /\ {put, get} \subseteq 0 .. N - 1 /\ Left \in Int
  BY Numbers
<1>2. Left < N /\ put = (get + Left) % N
  BY Zenon DEF PhaseInv, CounterInv
<1>3. \A i \in 0 .. N - 1 : /\ (get + i) % N \in 0 .. N - 1
                            /\ (get + i) % N = IF get + i < N THEN get + i ELSE get + i - N
  BY <1>1, Wraps, Zenon
<1>4. ASSUME NEW i \in 0 .. Left - 1 PROVE (get + i) % N # put /\ (get + i) % N \in Indices
  <2> HIDE DEF N
  <2>1. i \in 0 .. N - 1 /\ Left \in 0 .. N - 1
    BY <1>1, <1>2
  <2>2. (get + i) % N # (get + Left) % N
    BY <1>1, <1>3, <2>1, SMTT(30)
  <2>3. QED
    BY <1>2, <1>3, <2>1, <2>2 DEF N, Indices
<1>5. QED
  BY <1>4 DEF EntryAt, FifoTypeOK

\* A step of the queue that changes nothing but its state and the entry at put_.
QuietStep ==
    /\ UNCHANGED <<setup, qgen, bound, put, pending, nextSequence, completed, stopped, jobs,
                   lease, halted, get, gpPut, fetched, visible, running, fence, finished>>
    /\ qstate' = qstate \/ (qstate # "Detached" /\ qstate' = "NeedsReset")
    /\ \/ ring' = ring
       \/ qstate = "Ready" /\ \E e \in RingEntry : ring' = [ring EXCEPT ![put] = e]

\* It writes no unread entry.
LEMMA QuietEntries ==
    ASSUME RingInv, QuietStep
    PROVE  \A i \in 0 .. Left - 1 : EntryAt(i)' = EntryAt(i)
<1>1. UNCHANGED <<setup, get>>
  BY Zenon DEF QuietStep
<1>2. CASE ring' = ring
  BY <1>1, <1>2, Zenon DEF EntryAt
<1>3. CASE qstate = "Ready" /\ \E e \in RingEntry : ring' = [ring EXCEPT ![put] = e]
  BY <1>1, <1>3, PutIsUnread, Zenon DEF RingInv
<1>4. QED
  BY <1>2, <1>3, Zenon DEF QuietStep

\* It therefore keeps everything.
LEMMA QuietKeeps ==
    ASSUME RingInv, QuietStep
    PROVE  RingInv'
<1> USE DEF RingInv
<1>1. /\ UNCHANGED <<setup, qgen, bound, put, pending, nextSequence, completed, stopped, jobs,
                   lease, halted, get, gpPut, fetched, visible, running, fence, finished>>
      /\ qstate' = qstate \/ (qstate # "Detached" /\ qstate' = "NeedsReset")
  BY Zenon DEF QuietStep
<1>2. InFlight' = InFlight /\ Left' = Left
  BY <1>1, Zenon DEF InFlight, Left
<1>3. \A i \in 0 .. Left - 1 : EntryAt(i)' = EntryAt(i)
  BY QuietEntries, Zenon
<1>4. FifoTypeOK'
  <2>1. ring' \in [Indices' -> RingEntry]
    BY <1>1 DEF QuietStep, FifoTypeOK, Indices
  <2>2. QED
    BY <1>1, <2>1, Zenon DEF FifoTypeOK, Indices
<1>5. PhaseInv'
  BY <1>1, <1>2, Zenon DEF PhaseInv
<1>6. CounterInv'
  BY <1>1, <1>2, Zenon DEF CounterInv
<1>7. EntryInv'
  BY <1>1, <1>2, <1>3, Zenon DEF EntryInv
<1>8. RecordInv' /\ SequenceInv'
  BY <1>1, <1>2, Zenon DEF RecordInv, SequenceInv
<1>r. ResourceInv'
  BY <1>1, <1>2, <1>3 DEF ResourceInv
<1>10. DoneInv'
  BY <1>1, Zenon DEF DoneInv, JobsReallyComplete
<1>11. QED
  BY <1>4, <1>5, <1>6, <1>7, <1>8, <1>r, <1>10, Zenon

\* The entry of a job is an entry.
LEMMA EntryFacts ==
    ASSUME RingInv, NEW c \in Handle, NEW D \in SUBSET Handle
    PROVE  Entry(c, D) \in RingEntry /\ {c} \cup D \subseteq Handle
<1>1. {c} \cup D \subseteq Handle
  OBVIOUS
<1>2. qgen \in Nat /\ nextSequence + 1 \in Nat
  BY Numbers DEF RingInv
<1>3. QED
  BY <1>1, <1>2 DEF Entry, RingEntry

-----------------------------------------------------------------------------
\* bind() whose claim of the channel is unknown.
LEMMA BindUnknownKeeps ==
    ASSUME RingInv, NEW r \in Handle, NEW f \in Handle, BindUnknown(r, f)
    PROVE  RingInv'
<1>1. /\ qstate = "Detached" /\ qgen # setup.generations /\ bound' = <<r, f>>
      /\ stopped' = FALSE /\ qstate' = "NeedsReset" /\ halted' = FALSE
      /\ UNCHANGED <<setup, qgen, put, pending, nextSequence, completed, verified, jobs, ring,
                     get, gpPut, fetched, visible, running, fence, finished>>
  BY Zenon DEF BindUnknown, Bindable
<1>2. completed = nextSequence /\ InFlight = {} /\ running = {}
  BY <1>1, Zenon DEF RingInv, PhaseInv
<1>3. InFlight' = InFlight /\ Left' = Left /\ \A i : EntryAt(i)' = EntryAt(i)
  BY <1>1, Zenon DEF InFlight, Left, EntryAt
<1>4. FifoTypeOK'
  BY <1>1, Zenon DEF RingInv, FifoTypeOK, Indices
<1>5. PhaseInv'
  <2>1. <<r, f>> # <<>>
    OBVIOUS
  <2>2. QED
    BY <1>1, <1>2, <1>3, <2>1, Zenon DEF PhaseInv
<1>6. CounterInv'
  BY <1>1, <1>3, Zenon DEF RingInv, CounterInv
<1>7. fence = fetched
  <2>1. {nextSequence, completed, fence, fetched, visible} \subseteq Nat
    BY Numbers DEF RingInv
  <2>2. QED
    BY <1>2, <2>1 DEF RingInv, CounterInv
<1>8. EntryInv'
  <2>1. fence + 1 .. fetched = {}
    BY <1>7, Numbers DEF RingInv
  <2>2. QED
    BY <1>1, <1>2, <1>3, <2>1, Zenon DEF RingInv, EntryInv
<1>9. RecordInv' /\ ResourceInv'
  BY <1>1, <1>2, <1>3, Zenon DEF RingInv, RecordInv, ResourceInv
<1>10. SequenceInv'
  <2>1. completed + 1 .. nextSequence = {}
    BY <1>2, Numbers DEF RingInv
  <2>2. QED
    BY <1>1, <1>2, <1>3, <2>1, Zenon DEF SequenceInv
<1>11. DoneInv'
  BY <1>1, Zenon DEF RingInv, DoneInv, JobsReallyComplete
<1>12. QED
  BY <1>4, <1>5, <1>6, <1>8, <1>9, <1>10, <1>11, Zenon DEF RingInv

\* bind() of an idle channel, at any index and fence payload.
LEMMA BindKeeps ==
    ASSUME RingInv, NEW r \in Handle, NEW f \in Handle, NEW index \in Indices,
           NEW payload \in Sequences, Bind(r, f, index, payload)
    PROVE  RingInv'
<1>1. /\ qstate = "Detached" /\ qgen # setup.generations /\ bound' = <<r, f>>
      /\ stopped' = FALSE /\ qstate' = "Ready" /\ halted' = FALSE
      /\ put' = index /\ pending' = 0 /\ nextSequence' = payload /\ completed' = payload
      /\ get' = index /\ gpPut' = index
      /\ fetched' = payload /\ visible' = payload /\ fence' = payload
      /\ UNCHANGED <<setup, qgen, jobs, ring, running, finished>>
  BY Zenon DEF Bind, Bindable
<1>2. InFlight = {} /\ running = {}
  BY <1>1, Zenon DEF RingInv, PhaseInv
<1>3. /\ setup.entries \in Nat /\ setup.entries >= 2 /\ index \in 0 .. setup.entries - 1
      /\ payload \in Nat
  BY Numbers, SequenceAssumption DEF RingInv, Indices, Sequences
<1>4. InFlight' = {} /\ Left' = 0
  BY <1>1, <1>2, <1>3 DEF InFlight, Left
<1>5. FifoTypeOK'
  BY <1>1, Zenon DEF RingInv, FifoTypeOK, Indices
<1>6. PhaseInv'
  <2>1. <<r, f>> # <<>>
    OBVIOUS
  <2>2. QED
    BY <1>1, <1>2, <1>4, <2>1, Zenon DEF PhaseInv
<1>7. CounterInv'
  <2>1. (index + 0) % setup.entries = index
    BY <1>3, WrapsNot
  <2>2. QED
    BY <1>1, <1>3, <1>4, <2>1, FS_EmptySet DEF CounterInv
<1>8. payload + 1 .. payload = {} /\ 0 .. 0 - 1 = {}
  BY <1>3
<1>9. EntryInv'
  BY <1>1, <1>2, <1>4, <1>8, Zenon DEF EntryInv
<1>10. RecordInv' /\ ResourceInv' /\ SequenceInv'
  BY <1>1, <1>2, <1>4, <1>8, Zenon DEF RingInv, RecordInv, ResourceInv, SequenceInv
<1>11. DoneInv'
  BY <1>1, <1>8, Zenon DEF RingInv, DoneInv, JobsReallyComplete
<1>12. QED
  BY <1>5, <1>6, <1>7, <1>9, <1>10, <1>11, Zenon DEF RingInv

\* Calls that change the records of jobs, but not what the jobs stand for.
RecordsStep ==
    /\ UNCHANGED <<setup, qgen, bound, put, pending, nextSequence, completed, stopped, channel>>
    /\ qstate' = qstate \/ (qstate # "Detached" /\ qstate' = "NeedsReset")
    /\ jobs' \in [JobIds -> Job] /\ InFlight' = InFlight
    /\ \A j \in JobIds :
          /\ jobs'[j].held = jobs[j].held
          /\ j \in InFlight => jobs'[j].gen = jobs[j].gen /\ jobs'[j].seq = jobs[j].seq
          /\ jobs'[j].state = "Free" => j \notin InFlight
          /\ jobs'[j].state = "Completed" => jobs'[j] = jobs[j]

\* Steps that change job records without ending a job.
LEMMA RecordsKeep ==
    ASSUME RingInv, RecordsStep
    PROVE  RingInv'
<1>1. /\ UNCHANGED <<setup, qgen, bound, put, pending, nextSequence, completed, stopped,
                     lease, halted, ring, get, gpPut, fetched, visible, running, fence, finished>>
      /\ qstate' = qstate \/ (qstate # "Detached" /\ qstate' = "NeedsReset")
  BY Zenon DEF RecordsStep, channel
<1>3. /\ InFlight' = InFlight /\ Left' = Left /\ \A i : EntryAt(i)' = EntryAt(i)
  BY <1>1, Zenon DEF RecordsStep, Left, EntryAt
<1>4. \A j \in JobIds :
         /\ jobs'[j].held = jobs[j].held
         /\ j \in InFlight => jobs'[j].gen = jobs[j].gen /\ jobs'[j].seq = jobs[j].seq
         /\ jobs'[j].state = "Free" => j \notin InFlight
         /\ jobs'[j].state = "Completed" => jobs'[j] = jobs[j]
  BY Zenon DEF RecordsStep
<1>5. \A j \in InFlight : j \in JobIds
  BY Zenon DEF InFlight
<1>6. FifoTypeOK'
  <2>1. jobs' \in [JobIds -> Job]
    BY Zenon DEF RecordsStep
  <2>2. QED
    BY <1>1, <2>1, Zenon DEF RingInv, FifoTypeOK, Indices
<1>7. PhaseInv' /\ CounterInv'
  BY <1>1, <1>3, Zenon DEF RingInv, PhaseInv, CounterInv
<1>8. EntryInv'
  BY <1>1, <1>3, Zenon DEF RingInv, EntryInv
<1>9. RecordInv'
  BY <1>3, <1>4, Zenon DEF RingInv, RecordInv
<1>10. SequenceInv'
  BY <1>1, <1>3, <1>4, <1>5 DEF RingInv, SequenceInv
<1>11. ResourceInv'
  BY <1>1, <1>3, <1>4, <1>5 DEF RingInv, ResourceInv
<1>13. DoneInv'
  BY <1>1, <1>4, Zenon DEF RingInv, DoneInv, JobsReallyComplete
<1>14. QED
  BY <1>6, <1>7, <1>8, <1>9, <1>10, <1>11, <1>13, Zenon DEF RingInv

\* What expire() makes of a record.
LEMMA ExpiredJob ==
    ASSUME NEW x \in Job
    PROVE  /\ [x EXCEPT !.state = "TimedOut"] \in Job
           /\ [x EXCEPT !.state = "TimedOut"].state = "TimedOut"
           /\ [x EXCEPT !.state = "TimedOut"].gen = x.gen
           /\ [x EXCEPT !.state = "TimedOut"].seq = x.seq
           /\ [x EXCEPT !.state = "TimedOut"].held = x.held
           /\ [x EXCEPT !.state = "TimedOut"].ringPending = x.ringPending
  BY Zenon DEF Job, JobStates

ExpiredOnly(js, S, ks) ==
    /\ ks \in [JobIds -> Job]
    /\ \A j \in JobIds :
          /\ ks[j].gen = js[j].gen /\ ks[j].seq = js[j].seq
          /\ ks[j].held = js[j].held /\ ks[j].ringPending = js[j].ringPending
          /\ j \in S => ks[j].state = "TimedOut"
          /\ j \notin S => ks[j] = js[j]

\* What expire() leaves of a set of records.
LEMMA ExpiredFacts ==
    ASSUME NEW js \in [JobIds -> Job], NEW S \in SUBSET JobIds, NEW ks, ks = ExpiredJobs(js, S)
    PROVE  ExpiredOnly(js, S, ks)
<1>1. \A k \in JobIds : js[k] \in Job
  BY Zenon
<1>2. ks \in [JobIds -> Job]
  BY <1>1, ExpiredJob, Zenon DEF ExpiredJobs
<1>3. ASSUME NEW j \in JobIds, j \in S
      PROVE  /\ ks[j].gen = js[j].gen /\ ks[j].seq = js[j].seq /\ ks[j].held = js[j].held
             /\ ks[j].ringPending = js[j].ringPending /\ ks[j].state = "TimedOut"
  <2>1. PICK x \in Job : x = js[j]
    BY <1>1, Zenon
  <2>2. ks[j] = [x EXCEPT !.state = "TimedOut"]
    BY <1>3, <2>1, Zenon DEF ExpiredJobs
  <2>3. QED
    BY <2>1, <2>2, ExpiredJob, Zenon
<1>4. \A j \in JobIds : j \notin S => ks[j] = js[j]
  BY Zenon DEF ExpiredJobs
<1>5. QED
  BY <1>2, <1>3, <1>4, Zenon DEF ExpiredOnly

\* expire()'s effect on the jobs.
LEMMA ExpiringJobs ==
    ASSUME RingInv, NEW S \in SUBSET JobIds, Expire(S)
    PROVE  ExpiredOnly(jobs, S, jobs')
<1>1. jobs \in [JobIds -> Job] /\ jobs' = ExpiredJobs(jobs, S)
  BY Zenon DEF RingInv, FifoTypeOK, Expire
<1>2. QED
  BY <1>1, ExpiredFacts

\* expire().
LEMMA ExpireKeeps ==
    ASSUME RingInv, NEW S \in SUBSET JobIds, Expire(S)
    PROVE  RingInv'
<1>1. jobs \in [JobIds -> Job] /\ jobs' = ExpiredJobs(jobs, S)
      /\ \A j \in S : jobs[j].state = "Submitted"
  BY Zenon DEF RingInv, FifoTypeOK, Expire
<1>2. jobs' \in [JobIds -> Job] /\ \A j \in JobIds :
         /\ jobs'[j].gen = jobs[j].gen /\ jobs'[j].seq = jobs[j].seq
         /\ jobs'[j].held = jobs[j].held /\ jobs'[j].ringPending = jobs[j].ringPending
         /\ j \in S => jobs'[j].state = "TimedOut"
         /\ j \notin S => jobs'[j] = jobs[j]
  BY ExpiringJobs, Zenon DEF ExpiredOnly
<1>3. InFlight' = InFlight
  BY <1>2, Zenon DEF InFlight
<1>4. \A j \in JobIds : jobs[j].state = "Free" => j \notin InFlight
  BY Zenon DEF RingInv, RecordInv
<1>5. RecordsStep
  BY <1>2, <1>3, <1>4, Zenon DEF RecordsStep, Expire
<1>6. QED
  BY <1>5, RecordsKeep, Zenon

\* retireJob() frees a record that nothing refers to.
LEMMA RetireJobKeeps ==
    ASSUME RingInv, NEW j \in JobIds, RetireJob(j)
    PROVE  RingInv'
<1>1. jobs \in [JobIds -> Job] /\ jobs' = [jobs EXCEPT ![j] = FreeJob]
      /\ jobs[j].held = {} /\ ~jobs[j].ringPending
  BY Zenon DEF RingInv, FifoTypeOK, RetireJob
<1>2. /\ FreeJob \in Job /\ FreeJob.state = "Free" /\ FreeJob.held = {}
      /\ FreeJob.ringPending = FALSE
  <2>1. 0 \in Nat
    OBVIOUS
  <2>2. QED
    BY <2>1, Zenon DEF FreeJob, Job, JobStates
<1>3. jobs' \in [JobIds -> Job]
  BY <1>1, <1>2, Zenon
<1>4. jobs'[j] = FreeJob /\ \A k \in JobIds \ {j} : jobs'[k] = jobs[k]
  BY <1>1, Zenon
<1>5. InFlight' = InFlight /\ j \notin InFlight
  BY <1>1, <1>2, <1>4, Zenon DEF InFlight
<1>6. \A k \in JobIds : jobs[k].state = "Free" => k \notin InFlight
  BY Zenon DEF RingInv, RecordInv
<1>7. RecordsStep
  <2>1. "Free" # "Completed"
    OBVIOUS
  <2>2. QED
    BY <1>1, <1>2, <1>3, <1>4, <1>5, <1>6, <2>1, Zenon DEF RecordsStep, RetireJob
<1>8. QED
  BY <1>7, RecordsKeep, Zenon

-----------------------------------------------------------------------------
\* What is unread before and after a fetch.
LEMMA FetchEntries ==
    ASSUME RingInv, Fetch
    PROVE  /\ Left \in 1 .. setup.entries - 1 /\ Left' = Left - 1 /\ fetched + 1 <= visible
           /\ ring[get] = EntryAt(0)
           /\ \A i \in 0 .. Left' - 1 : EntryAt(i)' = EntryAt(i + 1) /\ i + 1 \in 0 .. Left - 1
<1> DEFINE N == setup.entries
<1>1. /\ get # gpPut /\ get' = (get + 1) % N /\ fetched' = fetched + 1
      /\ UNCHANGED <<setup, ring, gpPut, visible>>
  BY Zenon DEF Fetch, queue
<1>3. /\ N \in Nat /\ N >= 2 /\ get \in 0 .. N - 1 /\ gpPut \in 0 .. N - 1
      /\ fetched \in Nat /\ visible \in Nat
  BY Numbers DEF RingInv
<1> HIDE DEF N
<1>4. fetched <= visible /\ Left < N /\ gpPut = (get + Left) % N
  BY Zenon DEF RingInv, CounterInv, N
<1>6. Left \in 1 .. N - 1 /\ Left' = Left - 1 /\ fetched + 1 <= visible
  <2>1. Left # 0
    BY <1>1, <1>3, <1>4, WrapsNot
  <2>2. QED
    BY <1>1, <1>3, <1>4, <2>1 DEF Left
<1>8. ring[get] = EntryAt(0)
  BY <1>3, WrapsNot DEF EntryAt, N
<1>9. \A i \in 0 .. Left' - 1 : EntryAt(i)' = EntryAt(i + 1) /\ i + 1 \in 0 .. Left - 1
  <2>1. ASSUME NEW i \in 0 .. Left' - 1
        PROVE  (((get + 1) % N) + i) % N = (get + (i + 1)) % N /\ i + 1 \in 0 .. Left - 1
    <3>1. i \in 0 .. N - 2 /\ i + 1 \in 0 .. Left - 1
      BY <1>3, <1>6
    <3>2. QED
      BY <1>3, <3>1, WrapsNext
  <2>2. QED
    BY <1>1, <2>1 DEF EntryAt, N
<1>10. QED
  BY <1>6, <1>8, <1>9, Zenon DEF N

\* The channel fetches the first unread entry.
LEMMA FetchKeeps ==
    ASSUME RingInv, Fetch
    PROVE  RingInv'
<1> DEFINE N == setup.entries
<1>1. /\ lease /\ ~halted /\ get # gpPut
      /\ running' = running \cup {ring[get]}
      /\ get' = (get + 1) % N /\ fetched' = fetched + 1
      /\ UNCHANGED <<setup, qstate, qgen, bound, put, pending, nextSequence, completed, stopped,
                     jobs, lease, halted, ring, gpPut, visible, fence, finished>>
  BY Zenon DEF Fetch, Active, queue
<1>3. /\ N \in Nat /\ N >= 2 /\ {put, get, gpPut} \subseteq 0 .. N - 1
      /\ {nextSequence, completed, fence, fetched, visible} \subseteq Nat /\ Left \in Int
  BY Numbers DEF RingInv
<1> HIDE DEF N
<1>4. /\ completed <= fence /\ fence <= fetched /\ fetched <= visible /\ visible <= nextSequence
      /\ Left < N /\ gpPut = (get + Left) % N /\ pending = Cardinality(InFlight)
  BY Zenon DEF RingInv, CounterInv, N
<1>5. ~stopped
  BY <1>1, Zenon DEF RingInv, PhaseInv
<1>6. Left \in 1 .. N - 1 /\ Left' = Left - 1 /\ fetched + 1 <= visible
  BY FetchEntries, Zenon DEF N
<1>7. InFlight' = InFlight
  BY <1>1, Zenon DEF InFlight
<1>8. ring[get] = EntryAt(0)
  BY FetchEntries, Zenon
<1>9. \A i \in 0 .. Left' - 1 : EntryAt(i)' = EntryAt(i + 1) /\ i + 1 \in 0 .. Left - 1
  BY FetchEntries, Zenon
<1>10. ring[get].gen = qgen /\ ring[get].seq = fetched + 1 /\ ring[get] \in RingEntry
  <2>1. 0 \in 0 .. Left - 1 /\ fetched + 1 + 0 = fetched + 1
    BY <1>3, <1>6
  <2>2. EntryAt(0).gen = qgen /\ EntryAt(0).seq = fetched + 1
    BY <2>1 DEF RingInv, EntryInv
  <2>3. ring[get] \in RingEntry
    BY DEF RingInv, FifoTypeOK
  <2>4. QED
    BY <1>8, <2>2, <2>3
<1>11. FifoTypeOK'
  <2>1. get' \in Indices'
    <3>1. 1 \in 0 .. N - 1 /\ get \in 0 .. N - 1
      BY <1>3
    <3>2. (get + 1) % N \in 0 .. N - 1
      BY <1>3, <3>1, Wraps
    <3>3. QED
      BY <1>1, <3>2, Zenon DEF Indices, N
  <2>2. fetched' \in Sequences
    <3>1. visible \in Sequences
      BY DEF RingInv, FifoTypeOK
    <3>2. QED
      BY <1>1, <1>3, <1>6, <3>1, SequenceAssumption DEF Sequences
  <2>3. running' \subseteq RingEntry
    BY <1>1, <1>10 DEF RingInv, FifoTypeOK
  <2>4. QED
    BY <1>1, <2>1, <2>2, <2>3 DEF RingInv, FifoTypeOK, Indices
<1>12. PhaseInv'
  BY <1>1, <1>5, <1>7, Zenon DEF RingInv, PhaseInv
<1>13. CounterInv'
  <2>1. gpPut = (get' + Left') % N
    <3>1. Left - 1 \in 0 .. N - 2 /\ Left = (Left - 1) + 1 /\ get \in 0 .. N - 1
      BY <1>3, <1>6
    <3>2. (((get + 1) % N) + (Left - 1)) % N = (get + ((Left - 1) + 1)) % N
      BY <1>3, <3>1, WrapsNext, Zenon
    <3>3. QED
      BY <1>1, <1>4, <1>6, <3>1, <3>2
  <2>2. QED
    BY <1>1, <1>3, <1>4, <1>6, <1>7, <2>1 DEF CounterInv, N
<1>14. EntryInv'
  <2>1. ASSUME NEW i \in 0 .. Left' - 1
        PROVE  EntryAt(i)'.gen = qgen /\ EntryAt(i)'.seq = fetched' + 1 + i
    <3>1. i + 1 \in 0 .. Left - 1 /\ EntryAt(i)' = EntryAt(i + 1)
      BY <1>9
    <3>2. EntryAt(i + 1).gen = qgen /\ EntryAt(i + 1).seq = fetched + 1 + (i + 1)
      BY <3>1 DEF RingInv, EntryInv
    <3>3. fetched + 1 + (i + 1) = fetched' + 1 + i
      BY <1>1, <1>3
    <3>4. QED
      BY <3>1, <3>2, <3>3
  <2>2. \A e \in running' : e.gen = qgen /\ e.seq \in fence + 1 .. fetched'
    BY <1>1, <1>3, <1>4, <1>5, <1>10 DEF RingInv, EntryInv
  <2>3. \A q \in fence + 1 .. fetched' : \E e \in running' : e.seq = q
    BY <1>1, <1>3, <1>4, <1>5, <1>10 DEF RingInv, EntryInv
  <2>4. \A e, o \in running' : e.seq = o.seq => e = o
    <3>1. \A e \in running : e.seq # fetched + 1
      BY <1>3, <1>5 DEF RingInv, EntryInv
    <3>2. QED
      BY <1>1, <1>5, <1>10, <3>1 DEF RingInv, EntryInv
  <2>5. QED
    BY <1>1, <2>1, <2>2, <2>3, <2>4, Zenon DEF EntryInv
<1>15. RecordInv' /\ SequenceInv'
  BY <1>1, <1>7, Zenon DEF RingInv, RecordInv, SequenceInv
<1>16. ResourceInv'
  <2>1. 0 \in 0 .. Left - 1
    BY <1>3, <1>6
  <2>2. ASSUME NEW j \in InFlight, NEW e \in running', e.seq = jobs[j].seq
        PROVE  e.res \subseteq jobs[j].held
    BY <1>1, <1>8, <2>1, <2>2 DEF RingInv, ResourceInv
  <2>3. ASSUME NEW j \in InFlight, NEW i \in 0 .. Left' - 1, EntryAt(i)'.seq = jobs[j].seq
        PROVE  EntryAt(i)'.res \subseteq jobs[j].held
    BY <1>9, <2>3 DEF RingInv, ResourceInv
  <2>4. QED
    BY <1>1, <1>7, <2>2, <2>3, Zenon DEF ResourceInv
<1>18. DoneInv'
  BY <1>1, Zenon DEF RingInv, DoneInv, JobsReallyComplete
<1>19. QED
  BY <1>11, <1>12, <1>13, <1>14, <1>15, <1>16, <1>18, Zenon DEF RingInv

\* The entry that finishes is the next one in sequence.
LEMMA FinishKeeps ==
    ASSUME RingInv, Finish
    PROVE  RingInv'
<1>1. PICK e \in running : /\ \A o \in running : e.seq <= o.seq
                           /\ running' = running \ {e} /\ fence' = e.seq
                           /\ finished' = finished \cup {[gen |-> e.gen, seq |-> e.seq]}
  BY Zenon DEF Finish
<1>2. ~halted /\ UNCHANGED <<setup, qstate, qgen, bound, put, pending, nextSequence,
         completed, stopped, jobs, lease, halted, ring, get, gpPut, fetched, visible>>
  BY Zenon DEF Finish, Active, queue
<1>4. {nextSequence, completed, fence, fetched, visible} \subseteq Nat
  BY Numbers DEF RingInv
<1>5. /\ completed <= fence /\ fence <= fetched /\ fetched <= visible /\ visible <= nextSequence
  BY Zenon DEF RingInv, CounterInv
<1>6. ~stopped
  BY <1>2, Zenon DEF RingInv, PhaseInv
<1>7. /\ \A o \in running : o.gen = qgen /\ o.seq \in fence + 1 .. fetched
      /\ \A q \in fence + 1 .. fetched : \E o \in running : o.seq = q
      /\ \A o, p \in running : o.seq = p.seq => o = p
  BY <1>6, Zenon DEF RingInv, EntryInv
<1>8. e.seq = fence + 1 /\ e.gen = qgen /\ fence' = fence + 1 /\ fence + 1 <= fetched
  <2>1. e.gen = qgen /\ e.seq \in fence + 1 .. fetched
    BY <1>7
  <2>2. fence + 1 \in fence + 1 .. fetched
    BY <1>4, <2>1
  <2>3. PICK o \in running : o.seq = fence + 1
    BY <1>7, <2>2
  <2>4. QED
    BY <1>1, <1>4, <2>1, <2>3
<1>9. InFlight' = InFlight /\ Left' = Left /\ \A i : EntryAt(i)' = EntryAt(i)
  BY <1>2, Zenon DEF InFlight, Left, EntryAt
<1>10. FifoTypeOK'
  <2>1. fence' \in Sequences
    <3>1. fetched \in Sequences
      BY DEF RingInv, FifoTypeOK
    <3>2. QED
      BY <1>4, <1>8, <3>1, SequenceAssumption DEF Sequences
  <2>2. running' \subseteq RingEntry
    BY <1>1 DEF RingInv, FifoTypeOK
  <2>3. QED
    BY <1>2, <2>1, <2>2 DEF RingInv, FifoTypeOK, Indices
<1>11. PhaseInv'
  BY <1>2, <1>6, <1>9, Zenon DEF RingInv, PhaseInv
<1>12. CounterInv'
  <2>1. /\ Left < setup.entries /\ gpPut = (get + Left) % setup.entries
        /\ pending = Cardinality(InFlight)
    BY Zenon DEF RingInv, CounterInv
  <2>2. completed <= fence + 1
    BY <1>4, <1>5
  <2>3. QED
    BY <1>2, <1>5, <1>8, <1>9, <2>1, <2>2, Zenon DEF CounterInv
<1>13. EntryInv'
  <2>1. \A o \in running' : o.gen = qgen /\ o.seq \in fence' + 1 .. fetched
    BY <1>1, <1>4, <1>7, <1>8
  <2>2. \A q \in fence' + 1 .. fetched : \E o \in running' : o.seq = q
    BY <1>1, <1>4, <1>7, <1>8
  <2>3. \A o, p \in running' : o.seq = p.seq => o = p
    BY <1>1, <1>7
  <2>4. QED
    BY <1>2, <1>9, <2>1, <2>2, <2>3, Zenon DEF RingInv, EntryInv
<1>14. RecordInv' /\ SequenceInv'
  BY <1>2, <1>9, Zenon DEF RingInv, RecordInv, SequenceInv
<1>15. ResourceInv'
  BY <1>1, <1>2, <1>9 DEF RingInv, ResourceInv
<1>17. DoneInv'
  <2>1. ASSUME NEW q \in completed + 1 .. fence' PROVE [gen |-> qgen, seq |-> q] \in finished'
    <3>1. CASE q = fence + 1
      BY <1>1, <1>8, <3>1
    <3>2. CASE q # fence + 1
      <4>1. q \in completed + 1 .. fence
        BY <1>4, <1>8, <3>2
      <4>2. QED
        BY <1>1, <4>1 DEF RingInv, DoneInv
    <3>3. QED
      BY <3>1, <3>2
  <2>2. QED
    BY <1>1, <1>2, <2>1, Zenon DEF RingInv, DoneInv, JobsReallyComplete
<1>18. QED
  BY <1>10, <1>11, <1>12, <1>13, <1>14, <1>15, <1>17, Zenon DEF RingInv

\* Until the channel is stopped, every sequence number that poll() has not seen
\* belongs to a job in flight.
LEMMA PendingBound ==
    ASSUME RingInv, ~stopped
    PROVE  nextSequence - completed <= pending
<1>1. nextSequence \in Nat /\ completed \in Nat /\ completed <= nextSequence
  <2>1. {nextSequence, completed, fence, fetched, visible} \subseteq Nat
    BY Numbers DEF RingInv
  <2>2. QED
    BY <2>1 DEF RingInv, CounterInv
<1>2. IsFiniteSet(InFlight) /\ Cardinality(InFlight) \in Nat /\ pending = Cardinality(InFlight)
  <2>1. InFlight \in SUBSET JobIds
    BY Zenon DEF InFlight
  <2>2. QED
    BY <2>1, JobsCount, Zenon DEF RingInv, CounterInv
<1> DEFINE T == completed + 1 .. nextSequence
           F == [k \in InFlight |-> jobs[k].seq]
<1>3. F \in Surjection(InFlight, T)
  BY DEF Surjection, RingInv, SequenceInv
<1>4. Cardinality(T) <= Cardinality(InFlight)
  <2> HIDE DEF F, T
  <2>1. QED
    BY <1>2, <1>3, FS_Surjection
<1>5. Cardinality(T) = nextSequence - completed
  <2>1. completed + 1 \in Int /\ nextSequence \in Int
    BY <1>1
  <2>2. Cardinality(T) = IF completed + 1 > nextSequence THEN 0
                         ELSE nextSequence - (completed + 1) + 1
    BY <2>1, FS_Interval, Zenon
  <2> HIDE DEF T
  <2>3. QED
    BY <1>1, <2>2
<1>6. QED
  BY <1>2, <1>4, <1>5

\* What is unread before and after a submission.
LEMMA SubmitEntries ==
    ASSUME RingInv, NEW j, NEW c, NEW D, Submit(j, c, D)
    PROVE  /\ Left = nextSequence - fetched /\ Left \in 0 .. setup.entries - 1
           /\ (nextSequence + 1) - fetched < setup.entries
           /\ \/ /\ Left' = Left + 1 /\ visible' = nextSequence + 1
                 /\ gpPut' = (put + 1) % setup.entries
              \/ Left' = Left /\ visible' = visible /\ gpPut' = gpPut
           /\ \A i \in 0 .. Left - 1 : EntryAt(i)' = EntryAt(i)
           /\ \A i : i = Left => EntryAt(i)' = Entry(c, D)
           /\ \A i \in 0 .. Left' - 1 : i \in 0 .. Left - 1 \/ i = Left
<1> DEFINE N == setup.entries
           q == nextSequence + 1
<1>1. \/ gpPut' = (put + 1) % N /\ visible' = q
      \/ gpPut' = gpPut /\ visible' = visible
  BY Zenon DEF Submit, NextPut
<1>2. ring' = [ring EXCEPT ![put] = Entry(c, D)] /\ UNCHANGED <<setup, get, fetched>>
  BY Zenon DEF Submit
<1>3. qstate = "Ready" /\ pending < N - 1
  BY Zenon DEF Submit, Admitted, Submittable, Room
<1>4. visible = nextSequence /\ gpPut = put /\ ~stopped
  BY <1>3 DEF RingInv, PhaseInv
<1>5. /\ N \in Nat /\ N >= 2 /\ nextSequence \in Nat /\ completed \in Nat /\ fence \in Nat
      /\ fetched \in Nat /\ visible \in Nat
  BY Numbers DEF RingInv
<1>6. /\ completed <= fence /\ fence <= fetched /\ fetched <= visible
      /\ Left < N /\ gpPut = (get + Left) % N /\ pending = Cardinality(InFlight)
  BY Zenon DEF RingInv, CounterInv
<1> HIDE DEF N
<1>7. Left = nextSequence - fetched /\ Left \in 0 .. N - 1 /\ q - fetched < N
  <2>1. InFlight \in SUBSET JobIds
    BY Zenon DEF InFlight
  <2>2. nextSequence - completed <= pending /\ pending \in Nat
    BY <1>4, <1>6, <2>1, PendingBound, JobsCount
  <2>3. Left = nextSequence - fetched
    BY <1>4 DEF Left
  <2>4. QED
    BY <1>3, <1>4, <1>5, <1>6, <2>2, <2>3
<1>8. \/ Left' = Left + 1 /\ visible' = q /\ gpPut' = (put + 1) % N
      \/ Left' = Left /\ visible' = visible /\ gpPut' = gpPut
  <2>1. CASE gpPut' = (put + 1) % N /\ visible' = q
    BY <1>2, <1>5, <1>7, <2>1 DEF Left
  <2>2. CASE gpPut' = gpPut /\ visible' = visible
    BY <1>2, <2>2, Zenon DEF Left
  <2>3. QED
    BY <1>1, <2>1, <2>2, Zenon
<1>9. \A i \in 0 .. Left - 1 : EntryAt(i)' = EntryAt(i)
  BY <1>2, <1>3, PutIsUnread, Zenon DEF RingInv
<1>10. ASSUME NEW L, L = Left PROVE EntryAt(L)' = Entry(c, D)
  <2>1. put \in Indices /\ ring \in [Indices -> RingEntry]
    BY DEF RingInv, FifoTypeOK
  <2>2. ring'[put] = Entry(c, D)
    BY <1>2, <2>1
  <2>3. put = (get + L) % N
    BY <1>4, <1>6, <1>10
  <2>4. QED
    BY <1>2, <2>2, <2>3, Zenon DEF EntryAt, N
<1>11. \A i \in 0 .. Left' - 1 : i \in 0 .. Left - 1 \/ i = Left
  BY <1>5, <1>7, <1>8
<1>12. QED
  BY <1>7, <1>8, <1>9, <1>10, <1>11, Zenon DEF N

\* submit(): the new job gets the next sequence number, its entry the next index.
LEMMA SubmitKeeps ==
    ASSUME RingInv, NEW j \in JobIds, NEW c \in Handle, NEW D \in SUBSET Handle,
           Submit(j, c, D)
    PROVE  RingInv'
<1> DEFINE N == setup.entries
           H == {c} \cup D
           q == nextSequence + 1
<1>1. PICK state \in {"Submitted", "PublicationUnknown"}, exposed \in BOOLEAN :
          /\ state = "Submitted" => exposed
          /\ jobs' = [jobs EXCEPT ![j] =
                [state |-> state, gen |-> qgen, seq |-> q, commands |-> c, held |-> H,
                 ringPending |-> TRUE]]
          /\ qstate' = IF state = "Submitted" THEN "Ready" ELSE "NeedsReset"
          /\ gpPut' = IF exposed THEN (put + 1) % N ELSE gpPut
          /\ visible' = IF exposed THEN q ELSE visible
  BY Zenon DEF Submit, HeldAfterPut, NextPut
<1>2. /\ put' = (put + 1) % N /\ pending' = pending + 1 /\ nextSequence' = q
      /\ ring' = [ring EXCEPT ![put] = Entry(c, D)]
      /\ UNCHANGED <<setup, qgen, bound, completed, stopped, lease, halted, get, fetched,
                     running, fence, finished>>
  BY Zenon DEF Submit, NextPut
<1>3. /\ qstate = "Ready" /\ nextSequence # MaxSequence /\ pending < N - 1
      /\ jobs[j].state = "Free"
  BY Zenon DEF Submit, Admitted, Submittable, Room
<1>4. /\ visible = nextSequence /\ gpPut = put /\ ~stopped /\ bound # <<>>
      /\ qgen # setup.generations /\ halted = stopped
  BY <1>3 DEF RingInv, PhaseInv
<1>5. /\ N \in Nat /\ N >= 2 /\ {put, get, gpPut} \subseteq 0 .. N - 1
      /\ {nextSequence, completed, fence, fetched, visible} \subseteq Nat /\ Left \in Int
      /\ qgen \in Nat
  BY Numbers DEF RingInv
<1>6. /\ completed <= fence /\ fence <= fetched /\ fetched <= visible /\ visible <= nextSequence
      /\ Left < N /\ gpPut = (get + Left) % N /\ pending = Cardinality(InFlight)
  BY Zenon DEF RingInv, CounterInv
<1>n. /\ nextSequence \in Nat /\ completed \in Nat /\ fence \in Nat /\ fetched \in Nat
      /\ visible \in Nat
  BY <1>5
<1>7. Entry(c, D) \in RingEntry /\ H \subseteq Handle
  BY EntryFacts, Zenon
<1>8. Entry(c, D).gen = qgen /\ Entry(c, D).seq = q /\ Entry(c, D).res = H
  BY Zenon DEF Entry
<1>9. PICK rec \in Job :
         /\ rec = [state |-> state, gen |-> qgen, seq |-> q, commands |-> c, held |-> H,
                   ringPending |-> TRUE]
         /\ rec.state = state /\ rec.gen = qgen /\ rec.seq = q /\ rec.held = H /\ rec.ringPending
  <2>1. /\ q \in Nat /\ c \in Handle \cup {NoHandle} /\ state \in JobStates
        /\ H \in SUBSET Handle /\ TRUE \in BOOLEAN
    BY <1>5, <1>7 DEF JobStates
  <2> HIDE DEF H, q
  <2>2. [state |-> state, gen |-> qgen, seq |-> q, commands |-> c, held |-> H,
         ringPending |-> TRUE] \in Job
    BY <1>5, <2>1, Zenon DEF Job
  <2>3. QED
    BY <2>2, Zenon
<1>10. /\ jobs' \in [JobIds -> Job] /\ jobs'[j] = rec
       /\ \A k \in JobIds \ {j} : jobs'[k] = jobs[k]
  BY <1>1, <1>9, Zenon DEF RingInv, FifoTypeOK
<1>11. j \notin InFlight /\ InFlight' = InFlight \cup {j} /\ InFlight \subseteq JobIds
  <2>1. j \notin InFlight
    BY <1>3, Zenon DEF RingInv, RecordInv
  <2>2. \A k \in JobIds : jobs'[k].ringPending <=> (k = j \/ jobs[k].ringPending)
    BY <1>9, <1>10, Zenon
  <2>3. QED
    BY <2>1, <2>2 DEF InFlight
<1>f. /\ jobs'[j].state = state /\ jobs'[j].gen = qgen /\ jobs'[j].seq = q /\ jobs'[j].held = H
      /\ j \in InFlight' /\ \A k \in InFlight : jobs'[k] = jobs[k] /\ k \in InFlight' /\ k # j
      /\ \A k \in InFlight' : k \in InFlight \/ k = j
  <2>1. \A k \in InFlight : k \in JobIds \ {j}
    BY <1>11
  <2>2. QED
    BY <1>9, <1>10, <1>11, <2>1, Zenon
<1> HIDE DEF N, H
<1>13. /\ Left = nextSequence - fetched /\ Left \in 0 .. N - 1 /\ q - fetched < N
       /\ \/ Left' = Left + 1 /\ visible' = q /\ gpPut' = (put + 1) % N
          \/ Left' = Left /\ visible' = visible /\ gpPut' = gpPut
  BY SubmitEntries, Zenon DEF N
<1>l. PICK L : L = Left
  BY Zenon
<1>14. \A i \in 0 .. Left - 1 : EntryAt(i)' = EntryAt(i)
  BY SubmitEntries, Zenon
<1>15. EntryAt(L)' = Entry(c, D)
  BY <1>l, SubmitEntries, Zenon
<1>16. \A i \in 0 .. Left' - 1 : i \in 0 .. Left - 1 \/ i = L
  BY <1>l, SubmitEntries, Zenon
<1>17. FifoTypeOK'
  <2>1. (put + 1) % N \in 0 .. N - 1
    <3>1. 1 \in 0 .. N - 1 /\ put \in 0 .. N - 1
      BY <1>5
    <3>2. QED
      BY <1>5, <3>1, Wraps, Zenon
  <2>2. put' \in Indices /\ gpPut' \in Indices /\ get \in Indices /\ Indices' = Indices
    BY <1>1, <1>2, <2>1 DEF RingInv, FifoTypeOK, Indices, N
  <2>3. q \in Sequences
    <3>1. nextSequence \in Sequences
      BY DEF RingInv, FifoTypeOK
    <3>2. QED
      BY <1>3, <3>1, SequenceAssumption DEF Sequences
  <2>4. nextSequence' \in Sequences /\ visible' \in Sequences
    <3>1. visible' = q \/ visible' = visible
      BY <1>1, Zenon
    <3>2. visible \in Sequences /\ nextSequence' = q
      BY <1>2, Zenon DEF RingInv, FifoTypeOK
    <3>3. QED
      BY <2>3, <3>1, <3>2, Zenon
  <2>5. ring' \in [Indices -> RingEntry]
    BY <1>2, <1>7, Zenon DEF RingInv, FifoTypeOK
  <2>6. QED
    BY <1>2, <1>10, <2>2, <2>4, <2>5 DEF RingInv, FifoTypeOK
<1>18. PhaseInv'
  <2>1. qstate' # "Detached"
    BY <1>1
  <2>2. qstate' = "Ready" => visible' = nextSequence' /\ gpPut' = put'
    BY <1>1, <1>2
  <2>3. QED
    BY <1>2, <1>4, <2>1, <2>2, Zenon DEF PhaseInv
<1>19. CounterInv'
  <2>1. Cardinality(InFlight') = pending'
    <3>1. IsFiniteSet(InFlight)
      BY <1>11, JobsCount
    <3>2. QED
      BY <1>2, <1>6, <1>11, <3>1, FS_AddElement, Zenon
  <2>2. gpPut' = (get + Left') % N
    <3>1. CASE Left' = Left /\ gpPut' = gpPut
      BY <1>6, <3>1, Zenon
    <3>2. CASE Left' = Left + 1 /\ gpPut' = (put + 1) % N
      <4>1. Left + 1 \in 0 .. N - 1
        BY <1>5, <1>n, <1>13
      <4>2. (put + 1) % N = (get + (Left + 1)) % N
        <5>1. put = (get + Left) % N
          BY <1>4, <1>6
        <5>2. \A x, y \in 0 .. N - 1 :
                 /\ (x + y) % N \in 0 .. N - 1
                 /\ (x + y) % N = IF x + y < N THEN x + y ELSE x + y - N
          BY <1>5, Wraps, Zenon
        <5>3. 1 \in 0 .. N - 1 /\ get \in 0 .. N - 1 /\ put \in 0 .. N - 1
          BY <1>5
        <5>4. put = IF get + Left < N THEN get + Left ELSE get + Left - N
          BY <1>13, <5>1, <5>2, <5>3, Zenon
        <5>5. (put + 1) % N = IF put + 1 < N THEN put + 1 ELSE put + 1 - N
          BY <5>2, <5>3, Zenon
        <5>6. (get + (Left + 1)) % N
              = IF get + (Left + 1) < N THEN get + (Left + 1) ELSE get + (Left + 1) - N
          BY <4>1, <5>2, <5>3, Zenon
        <5>7. (IF put + 1 < N THEN put + 1 ELSE put + 1 - N)
              = IF get + (Left + 1) < N THEN get + (Left + 1) ELSE get + (Left + 1) - N
          BY <1>5, <1>13, <5>4, <5>3
        <5>8. QED
          BY <5>5, <5>6, <5>7
      <4>3. QED
        BY <3>2, <4>2, Zenon
    <3>3. QED
      BY <1>13, <3>1, <3>2, Zenon
  <2>3. completed <= fence /\ fence <= fetched /\ fetched <= visible' /\ visible' <= nextSequence'
    <3>1. visible' = q \/ visible' = visible
      BY <1>1
    <3>2. QED
      BY <1>2, <1>4, <1>6, <1>n, <3>1
  <2>4. Left' < N
    BY <1>4, <1>5, <1>13
  <2>5. QED
    BY <1>2, <2>1, <2>2, <2>3, <2>4, Zenon DEF CounterInv, N
<1>20. EntryInv'
  <2>1. ASSUME NEW i \in 0 .. Left' - 1
        PROVE  EntryAt(i)'.gen = qgen /\ EntryAt(i)'.seq = fetched + 1 + i
    <3>1. CASE i \in 0 .. Left - 1
      BY <1>14, <3>1 DEF RingInv, EntryInv
    <3>2. CASE i = L
      <4>1. q = fetched + 1 + L
        BY <1>n, <1>13, <1>l
      <4>2. QED
        BY <1>8, <1>15, <3>2, <4>1
    <3>3. QED
      BY <1>16, <3>1, <3>2
  <2>2. QED
    BY <1>2, <2>1, Zenon DEF RingInv, EntryInv
<1>21. RecordInv'
  <2>1. state # "Free"
    OBVIOUS
  <2>2. QED
    BY <1>f, <1>10, <1>11, <2>1, Zenon DEF RingInv, RecordInv
<1>22. SequenceInv'
  <2>1. \A k \in InFlight : /\ jobs'[k].gen = qgen /\ jobs'[k].seq \in completed + 1 .. nextSequence
                            /\ jobs'[k] = jobs[k]
    BY <1>f, Zenon DEF RingInv, SequenceInv
  <2>2. \A k \in InFlight' : jobs'[k].gen = qgen /\ jobs'[k].seq \in completed + 1 .. q
    <3>1. completed + 1 <= q /\ q \in Nat /\ completed \in Nat
      BY <1>5, <1>6
    <3>2. ASSUME NEW k \in InFlight
          PROVE jobs'[k].gen = qgen /\ jobs'[k].seq \in completed + 1 .. q
      BY <1>5, <2>1
    <3>3. jobs'[j].gen = qgen /\ jobs'[j].seq \in completed + 1 .. q
      BY <1>f, <3>1
    <3>4. QED
      BY <1>f, <3>2, <3>3, Zenon
  <2>3. \A k \in InFlight : jobs'[k].seq # q
    BY <1>5, <2>1
  <2>4. \A i, k \in InFlight' : jobs'[i].seq = jobs'[k].seq => i = k
    <3>1. \A i, k \in InFlight : jobs[i].seq = jobs[k].seq => i = k
      BY Zenon DEF RingInv, SequenceInv
    <3>2. QED
      BY <1>f, <2>3, <3>1, Zenon
  <2>5. ASSUME NEW p \in completed + 1 .. q PROVE \E k \in InFlight' : jobs'[k].seq = p
    <3>1. CASE p = q
      BY <1>f, <3>1, Zenon
    <3>2. CASE p # q
      <4>1. p \in completed + 1 .. nextSequence
        BY <1>5, <3>2
      <4>2. QED
        BY <1>4, <1>f, <4>1, Zenon DEF RingInv, SequenceInv
    <3>3. QED
      BY <3>1, <3>2
  <2>6. QED
    BY <1>2, <2>2, <2>4, <2>5, Zenon DEF SequenceInv
<1>23. ResourceInv'
  <2>1. \A k \in InFlight : /\ jobs'[k].seq \in completed + 1 .. nextSequence
                            /\ jobs'[k] = jobs[k] /\ jobs'[k].seq # q
    BY <1>n, <1>f DEF RingInv, SequenceInv
  <2>2. \A e \in running : e.seq # q
    BY <1>4, <1>n, <1>6 DEF RingInv, EntryInv
  <2>3. \A i \in 0 .. Left - 1 : EntryAt(i).seq # q
    BY <1>n, <1>13 DEF RingInv, EntryInv
  <2>4. ASSUME NEW k \in InFlight', NEW e \in running, e.seq = jobs'[k].seq
        PROVE  e.res \subseteq jobs'[k].held
    BY <1>f, <2>2, <2>4, Zenon DEF RingInv, ResourceInv
  <2>5. ASSUME NEW k \in InFlight', NEW i \in 0 .. Left' - 1, EntryAt(i)'.seq = jobs'[k].seq
        PROVE  EntryAt(i)'.res \subseteq jobs'[k].held
    <3>1. CASE i \in 0 .. Left - 1
      BY <1>f, <1>14, <2>3, <2>5, <3>1, Zenon DEF RingInv, ResourceInv
    <3>2. CASE i = L
      <4>1. k = j
        BY <1>8, <1>f, <1>15, <2>1, <2>5, <3>2, Zenon
      <4>2. QED
        BY <1>8, <1>f, <1>15, <3>2, <4>1, Zenon
    <3>3. QED
      BY <1>16, <3>1, <3>2
  <2>6. QED
    BY <1>2, <2>4, <2>5, Zenon DEF ResourceInv
<1>24. DoneInv'
  <2>1. state # "Completed"
    OBVIOUS
  <2>2. QED
    BY <1>2, <1>f, <1>10, <2>1, Zenon DEF RingInv, DoneInv, JobsReallyComplete
<1>25. QED
  BY <1>17, <1>18, <1>19, <1>20, <1>21, <1>22, <1>23, <1>24, Zenon DEF RingInv

-----------------------------------------------------------------------------
\* What poll() makes of the record of a job that is done.
DoneJob(x) == [x EXCEPT !.state = "Completed", !.held = {}, !.ringPending = FALSE]

\* What poll() leaves of a record it completes.
LEMMA DoneJobFacts ==
    ASSUME NEW x \in Job
    PROVE  /\ DoneJob(x) \in Job /\ DoneJob(x).state = "Completed" /\ DoneJob(x).gen = x.gen
           /\ DoneJob(x).seq = x.seq /\ DoneJob(x).held = {} /\ ~DoneJob(x).ringPending
<1>1. {} \in SUBSET Handle /\ FALSE \in BOOLEAN /\ "Completed" \in JobStates
  BY DEF JobStates
<1>2. QED
  BY <1>1, Zenon DEF DoneJob, Job

PolledOnly(js, C, S, ks) ==
    /\ ks \in [JobIds -> Job]
    /\ \A j \in JobIds :
          /\ ks[j].gen = js[j].gen /\ ks[j].seq = js[j].seq
          /\ j \in C => ks[j].held = {} /\ ~ks[j].ringPending /\ ks[j].state = "Completed"
          /\ j \notin C => ks[j].held = js[j].held /\ ks[j].ringPending = js[j].ringPending
          /\ j \in S => ks[j].state = "TimedOut"
          /\ j \notin S \cup C => ks[j].state = js[j].state

\* What poll() leaves of a set of records.
LEMMA PolledFacts ==
    ASSUME NEW js \in [JobIds -> Job], NEW C, NEW S \in SUBSET JobIds, S \cap C = {}, NEW ks,
           ks = ExpiredJobs([j \in JobIds |-> IF j \notin C THEN js[j] ELSE
                  [js[j] EXCEPT !.state = "Completed", !.held = {}, !.ringPending = FALSE]], S)
    PROVE  PolledOnly(js, C, S, ks)
<1>1. PICK ms : ms = [j \in JobIds |-> IF j \notin C THEN js[j] ELSE DoneJob(js[j])]
  BY Zenon
<1>2. ks = ExpiredJobs(ms, S)
  BY <1>1, Zenon DEF DoneJob
<1>3. \A j \in JobIds : js[j] \in Job
  BY Zenon
<1>4. \A j \in JobIds : /\ j \notin C => ms[j] = js[j]
                        /\ j \in C => ms[j] = DoneJob(js[j])
  BY <1>1, Zenon
<1>5. \A j \in JobIds : ms[j] \in Job
  BY <1>3, <1>4, DoneJobFacts, Zenon
<1>6. ms \in [JobIds -> Job]
  BY <1>1, <1>5, Zenon
<1>7. ExpiredOnly(ms, S, ks)
  BY <1>2, <1>6, ExpiredFacts, Zenon
<1>11. \A j \in C : j \notin S
  BY Zenon
<1>8. ASSUME NEW j \in JobIds, j \in C
      PROVE  /\ ks[j].gen = js[j].gen /\ ks[j].seq = js[j].seq
             /\ ks[j].held = {} /\ ~ks[j].ringPending /\ ks[j].state = "Completed"
  <2>1. ks[j] = DoneJob(js[j])
    BY <1>4, <1>7, <1>8, <1>11, Zenon DEF ExpiredOnly
  <2>2. PICK x \in Job : x = js[j]
    BY <1>3, Zenon
  <2>3. QED
    BY <2>1, <2>2, DoneJobFacts, Zenon
<1>9. ASSUME NEW j \in JobIds, j \notin C
      PROVE  /\ ks[j].gen = js[j].gen /\ ks[j].seq = js[j].seq
             /\ ks[j].held = js[j].held /\ ks[j].ringPending = js[j].ringPending
             /\ j \in S => ks[j].state = "TimedOut"
             /\ j \notin S => ks[j].state = js[j].state
  <2>1. ms[j] = js[j]
    BY <1>4, <1>9, Zenon
  <2>2. QED
    BY <1>7, <2>1, Zenon DEF ExpiredOnly
<1>10. ks \in [JobIds -> Job]
  BY <1>7, Zenon DEF ExpiredOnly
<1>12. QED
  BY <1>8, <1>9, <1>10, <1>11, Zenon DEF PolledOnly

\* poll()'s effect on the jobs.
LEMMA PolledJobs ==
    ASSUME RingInv, NEW n, NEW S \in SUBSET JobIds, Poll(n, S)
    PROVE  PolledOnly(jobs, Covered(n), S, jobs')
<1> DEFINE C == Covered(n)
<1>1. S \cap C = {}
  BY Zenon DEF Poll
<1>2. jobs \in [JobIds -> Job]
  BY Zenon DEF RingInv, FifoTypeOK
<1>3. jobs' = ExpiredJobs([j \in JobIds |-> IF j \notin C THEN jobs[j] ELSE
         [jobs[j] EXCEPT !.state = "Completed", !.held = {}, !.ringPending = FALSE]], S)
  BY Zenon DEF Poll
<1> HIDE DEF C
<1>4. PolledOnly(jobs, C, S, jobs')
  BY <1>1, <1>2, <1>3, PolledFacts, ZenonT(30)
<1>5. QED
  BY <1>4 DEF C

\* poll(): the jobs it completes are in flight, and the channel finished them.
LEMMA PollKeeps ==
    ASSUME RingInv, NEW n \in Sequences, NEW S \in SUBSET JobIds, Poll(n, S)
    PROVE  RingInv'
<1> DEFINE C == Covered(n)
<1>1. /\ qstate # "Detached" /\ ~stopped /\ n \in completed .. fence /\ completed' = n
      /\ pending' = pending - Cardinality(C)
      /\ qstate' = qstate \/ qstate' = "NeedsReset"
      /\ UNCHANGED <<setup, qgen, bound, put, nextSequence, stopped>>
      /\ UNCHANGED <<lease, halted, ring, get, gpPut, fetched, visible, running, fence, finished>>
  BY Zenon DEF Poll, Pollable, channel
<1>2. PolledOnly(jobs, C, S, jobs')
  BY PolledJobs, Zenon
<1>3. /\ nextSequence \in Nat /\ completed \in Nat /\ fence \in Nat /\ fetched \in Nat
      /\ visible \in Nat /\ n \in Nat /\ completed <= n /\ n <= fence
  <2>1. {nextSequence, completed, fence, fetched, visible} \subseteq Nat
    BY Numbers, Zenon DEF RingInv
  <2>2. n \in Nat
    BY SequenceAssumption DEF Sequences
  <2>3. completed <= n /\ n <= fence
    BY <1>1, <2>1
  <2>4. QED
    BY <2>1, <2>2, <2>3, Zenon
<1>4. /\ jobs' \in [JobIds -> Job]
      /\ \A j \in JobIds :
          /\ jobs'[j].gen = jobs[j].gen /\ jobs'[j].seq = jobs[j].seq
          /\ j \in C => jobs'[j].held = {} /\ ~jobs'[j].ringPending /\ jobs'[j].state = "Completed"
          /\ j \notin C => /\ jobs'[j].held = jobs[j].held
                           /\ jobs'[j].ringPending = jobs[j].ringPending
          /\ j \in S => jobs'[j].state = "TimedOut"
          /\ j \notin S \cup C => jobs'[j].state = jobs[j].state
  BY <1>2, Zenon DEF PolledOnly
<1>5. /\ C \subseteq InFlight /\ InFlight \subseteq JobIds
      /\ \A j \in InFlight \ C : ~(jobs[j].seq <= n)
      /\ \A j \in C : jobs[j].seq <= n
  BY DEF Covered, InFlight, RingInv, SequenceInv
<1> HIDE DEF C
<1>6. InFlight' = InFlight \ C
  <2>1. \A j \in JobIds : jobs'[j].ringPending <=> (jobs[j].ringPending /\ j \notin C)
    BY <1>4, Zenon
  <2>2. QED
    BY <2>1, Zenon DEF InFlight
<1>7. Left' = Left /\ \A i : EntryAt(i)' = EntryAt(i)
  BY <1>1, Zenon DEF Left, EntryAt
<1>8. FifoTypeOK'
  BY <1>1, <1>4, Zenon DEF RingInv, FifoTypeOK, Indices
<1>9. PhaseInv'
  BY <1>1, <1>6, Zenon DEF RingInv, PhaseInv
<1>10. CounterInv'
  <2>1. /\ fence <= fetched /\ fetched <= visible /\ visible <= nextSequence
        /\ Left < setup.entries /\ gpPut = (get + Left) % setup.entries
        /\ pending = Cardinality(InFlight)
    BY Zenon DEF RingInv, CounterInv
  <2>2. pending' = Cardinality(InFlight')
    BY <1>1, <1>5, <1>6, <2>1, JobsRemoved, Zenon
  <2>3. QED
    BY <1>1, <1>3, <1>7, <2>1, <2>2, Zenon DEF CounterInv
<1>11. EntryInv'
  BY <1>1, <1>7, Zenon DEF RingInv, EntryInv
<1>12. RecordInv'
  <2>1. "Completed" # "Free" /\ "TimedOut" # "Free"
    OBVIOUS
  <2>2. QED
    BY <1>4, <1>6, <2>1, Zenon DEF RingInv, RecordInv
<1>13. SequenceInv'
  <2>1. \A j \in InFlight' : /\ j \in InFlight /\ jobs'[j].gen = jobs[j].gen
                             /\ jobs'[j].seq = jobs[j].seq /\ ~(jobs[j].seq <= n)
    BY <1>4, <1>5, <1>6
  <2>2. \A j \in InFlight' : jobs'[j].gen = qgen /\ jobs'[j].seq \in n + 1 .. nextSequence
    BY <1>3, <2>1 DEF RingInv, SequenceInv
  <2>3. ASSUME NEW q \in n + 1 .. nextSequence PROVE \E j \in InFlight' : jobs'[j].seq = q
    <3>1. q \in completed + 1 .. nextSequence /\ ~(q <= n)
      BY <1>3
    <3>2. PICK j \in InFlight : jobs[j].seq = q
      BY <1>1, <3>1, Zenon DEF RingInv, SequenceInv
    <3>3. j \in InFlight'
      BY <1>5, <1>6, <3>1, <3>2
    <3>4. QED
      BY <2>1, <3>2, <3>3, Zenon
  <2>4. \A i, j \in InFlight' : jobs'[i].seq = jobs'[j].seq => i = j
    BY <2>1 DEF RingInv, SequenceInv
  <2>5. QED
    BY <1>1, <2>2, <2>3, <2>4, Zenon DEF SequenceInv
<1>14. ResourceInv'
  <2>1. \A j \in InFlight' : /\ j \in InFlight /\ jobs'[j].seq = jobs[j].seq
                             /\ jobs'[j].held = jobs[j].held
    BY <1>4, <1>5, <1>6
  <2>2. QED
    BY <1>1, <1>7, <2>1, Zenon DEF RingInv, ResourceInv
<1>15. DoneInv'
  <2>1. \A q \in n + 1 .. fence : q \in completed + 1 .. fence
    BY <1>3
  <2>2. ASSUME NEW j \in JobIds, jobs'[j].state = "Completed"
        PROVE  [gen |-> jobs[j].gen, seq |-> jobs[j].seq] \in finished
    <3>1. CASE j \in C
      <4>1. jobs[j].gen = qgen /\ jobs[j].seq \in completed + 1 .. nextSequence
        BY <1>5, <3>1 DEF RingInv, SequenceInv
      <4>2. jobs[j].seq \in completed + 1 .. fence
        BY <1>3, <1>5, <3>1, <4>1
      <4>3. QED
        BY <4>1, <4>2, Zenon DEF RingInv, DoneInv
    <3>2. CASE j \notin C
      <4>1. "TimedOut" # "Completed"
        OBVIOUS
      <4>2. jobs[j].state = "Completed"
        BY <1>4, <2>2, <3>2, <4>1, Zenon
      <4>3. QED
        BY <4>2, Zenon DEF RingInv, DoneInv, JobsReallyComplete
    <3>3. QED
      BY <3>1, <3>2
  <2>3. QED
    BY <1>1, <1>4, <2>1, <2>2, Zenon DEF RingInv, DoneInv, JobsReallyComplete
<1>16. QED
  BY <1>8, <1>9, <1>10, <1>11, <1>12, <1>13, <1>14, <1>15, Zenon DEF RingInv

\* What reset() makes of the record of a job.
ResetJob(x) == [x EXCEPT !.held = {}, !.ringPending = FALSE,
                         !.state = IF @ = "Completed" THEN @ ELSE "Reset"]

\* What reset() leaves of a record.
LEMMA ResetJobFacts ==
    ASSUME NEW x \in Job
    PROVE  /\ ResetJob(x) \in Job /\ ResetJob(x).held = {} /\ ~ResetJob(x).ringPending
           /\ ResetJob(x).gen = x.gen /\ ResetJob(x).seq = x.seq
           /\ ResetJob(x).state = "Completed" => x.state = "Completed"
<1>1. /\ {} \in SUBSET Handle /\ FALSE \in BOOLEAN /\ "Completed" \in JobStates
      /\ "Reset" \in JobStates /\ "Reset" # "Completed"
  BY DEF JobStates
<1>2. QED
  BY <1>1, Zenon DEF ResetJob, Job

\* reset()'s effect on the jobs.
LEMMA ResetJobs ==
    ASSUME RingInv, NEW done \in BOOLEAN, Reset(done)
    PROVE  /\ jobs' \in [JobIds -> Job]
           /\ \A j \in JobIds :
                 /\ jobs'[j].held = {} /\ ~jobs'[j].ringPending
                 /\ jobs'[j].gen = jobs[j].gen /\ jobs'[j].seq = jobs[j].seq
                 /\ jobs'[j].state = "Completed" => jobs[j].state = "Completed"
<1>1. \A j \in JobIds : jobs[j] \in Job
  BY Zenon DEF RingInv, FifoTypeOK
<1>2. /\ jobs' = [j \in JobIds |-> jobs'[j]]
      /\ \A j \in JobIds : /\ jobs[j].state = "Free" => jobs'[j] = jobs[j]
                           /\ jobs[j].state # "Free" => jobs'[j] = ResetJob(jobs[j])
  BY Zenon DEF Reset, ResetJob
<1>3. ASSUME NEW j \in JobIds
      PROVE  /\ jobs'[j] \in Job /\ jobs'[j].held = {} /\ ~jobs'[j].ringPending
             /\ jobs'[j].gen = jobs[j].gen /\ jobs'[j].seq = jobs[j].seq
             /\ jobs'[j].state = "Completed" => jobs[j].state = "Completed"
  <2>1. CASE jobs[j].state = "Free"
    BY <1>1, <1>2, <2>1, Zenon DEF RingInv, RecordInv, InFlight
  <2>2. CASE jobs[j].state # "Free"
    <3>1. PICK x \in Job : x = jobs[j]
      BY <1>1, Zenon
    <3>2. jobs'[j] = ResetJob(x)
      BY <1>2, <2>2, <3>1, Zenon
    <3>3. QED
      BY <3>1, <3>2, ResetJobFacts, Zenon
  <2>3. QED
    BY <2>1, <2>2, Zenon
<1>4. jobs' \in [JobIds -> Job]
  BY <1>2, <1>3, Zenon
<1>5. QED
  BY <1>3, <1>4, Zenon

\* reset(): nothing stays in flight, and nothing is left to fetch.
LEMMA ResetKeeps ==
    ASSUME RingInv, NEW done \in BOOLEAN, Reset(done)
    PROVE  RingInv'
<1>1. /\ qstate # "Detached" /\ stopped' = TRUE /\ halted' = TRUE /\ running' = {}
      /\ get' = gpPut' /\ fetched' = visible' /\ setup' = setup /\ finished' = finished
      /\ pending' = 0
  BY Zenon DEF Reset
<1>2. \/ /\ qstate' = "Detached" /\ bound' = <<>> /\ put' = 0 /\ nextSequence' = 0
         /\ completed' = 0 /\ qgen' = qgen + 1 /\ lease' = FALSE
         /\ ring' = [i \in Indices |-> NoEntry] /\ gpPut' = 0 /\ visible' = 0 /\ fence' = 0
      \/ /\ qstate' = "NeedsReset"
         /\ UNCHANGED <<bound, put, nextSequence, completed, qgen, ring, gpPut, visible, fence>>
  BY Zenon DEF Reset
<1>5. /\ jobs' \in [JobIds -> Job]
      /\ \A j \in JobIds :
            /\ jobs'[j].held = {} /\ ~jobs'[j].ringPending
            /\ jobs'[j].gen = jobs[j].gen /\ jobs'[j].seq = jobs[j].seq
            /\ jobs'[j].state = "Completed" => jobs[j].state = "Completed"
  BY ResetJobs, Zenon
<1>6. jobs' \in [JobIds -> Job] /\ InFlight' = {}
  BY <1>5, Zenon DEF InFlight
<1>7. /\ setup.entries \in Nat /\ setup.entries >= 2 /\ nextSequence \in Nat
      /\ completed \in Nat /\ fence \in Nat /\ fetched \in Nat /\ visible \in Nat
      /\ gpPut \in 0 .. setup.entries - 1
  BY Numbers DEF RingInv
<1>8. Left' = 0 /\ 0 .. 0 - 1 = {} /\ 0 + 1 .. 0 = {} /\ 0 \in Sequences /\ 0 \in Indices
      /\ gpPut' \in 0 .. setup.entries - 1
  BY <1>1, <1>2, <1>7, SequenceAssumption DEF Left, Sequences, Indices
<1>9. FifoTypeOK'
  <2>1. Indices' = Indices /\ ring' \in [Indices -> RingEntry] /\ qgen' \in 1 .. setup.generations
    <3>1. Indices' = Indices
      BY <1>1, Zenon DEF Indices
    <3>2. NoEntry \in RingEntry
      BY DEF NoEntry, RingEntry
    <3>3. ring' \in [Indices -> RingEntry]
      BY <1>2, <3>2, Zenon DEF RingInv, FifoTypeOK
    <3>4. qgen # setup.generations /\ setup.generations \in Nat /\ qgen \in 1 .. setup.generations
      <4>1. qgen # setup.generations
        BY <1>1, Zenon DEF RingInv, PhaseInv
      <4>2. setup.generations \in 1 .. MaxQueueGeneration /\ qgen \in 1 .. setup.generations
        BY Numbers, Zenon DEF RingInv
      <4>3. setup.generations \in Nat
        BY <4>2, QueueGenerationAssumption
      <4>4. QED
        BY <4>1, <4>2, <4>3, Zenon
    <3>5. qgen' \in 1 .. setup.generations
      BY <1>2, <3>4
    <3>6. QED
      BY <3>1, <3>3, <3>5
  <2>2. put' \in Indices /\ gpPut' \in Indices /\ get' \in Indices
    BY <1>1, <1>2, <1>8, Zenon DEF RingInv, FifoTypeOK
  <2>3. /\ nextSequence' \in Sequences /\ completed' \in Sequences /\ fence' \in Sequences
        /\ fetched' \in Sequences /\ visible' \in Sequences
    BY <1>1, <1>2, <1>8, Zenon DEF RingInv, FifoTypeOK
  <2>4. bound' = <<>> \/ \E r, f \in Handle : bound' = <<r, f>>
    BY <1>2, Zenon DEF RingInv, FifoTypeOK
  <2>5. setup' \in Setups /\ running' \subseteq RingEntry /\ stopped' \in BOOLEAN
    BY <1>1, Zenon DEF RingInv, FifoTypeOK
  <2>6. QED
    BY <1>1, <1>6, <2>1, <2>2, <2>3, <2>4, <2>5 DEF FifoTypeOK
<1>10. PhaseInv'
  BY <1>1, <1>2, <1>6, Zenon DEF RingInv, PhaseInv
<1>11. CounterInv'
  <2>1. gpPut' = (get' + Left') % setup'.entries /\ Left' < setup'.entries
    BY <1>1, <1>7, <1>8, WrapsNot
  <2>2. completed' <= fence' /\ fence' <= fetched' /\ fetched' <= visible'
        /\ visible' <= nextSequence'
    BY <1>1, <1>2, <1>7 DEF RingInv, CounterInv
  <2>3. pending' = Cardinality(InFlight')
    BY <1>1, <1>6, FS_EmptySet
  <2>4. QED
    BY <2>1, <2>2, <2>3 DEF CounterInv
<1>12. EntryInv'
  BY <1>1, <1>8, Zenon DEF EntryInv
<1>13. RecordInv' /\ SequenceInv' /\ ResourceInv'
  BY <1>1, <1>5, <1>6, Zenon DEF RecordInv, SequenceInv, ResourceInv
<1>14. DoneInv'
  <2>1. JobsReallyComplete'
    BY <1>1, <1>5, Zenon DEF RingInv, DoneInv, JobsReallyComplete
  <2>2. QED
    BY <1>1, <1>2, <1>8, <2>1, Zenon DEF RingInv, DoneInv
<1>15. QED
  BY <1>9, <1>10, <1>11, <1>12, <1>13, <1>14, Zenon DEF RingInv
=============================================================================
