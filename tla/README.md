# A TLA+ verification of Mellow's native GPU owners

Mellow drives Intel Xe and NVIDIA GPUs from macOS. Its *native* code is a family of small state machines ("owners"), each of
which holds some hardware resource on behalf of clients and has to decide, while calls fail, time out or are answered late,
whether that resource may be given back. A wrong decision is a device that writes into memory the system has already reused.
This project models those owners, checks them with TLC on small instances, and proves with TLAPS, for instances of every size,
both paths from a submitted job to its memory (the Xe queue, bridge and memory manager; the NVIDIA queue and the native memory
owner), the execution of a job on a context, the interrupt controller, the GuC mailbox and the forcewake counters.

Contents: [the system](#the-system), [modules](#modules-and-what-they-correspond-to), [runs](#runs),
[bounds](#bounds), [fairness](#fairness), [proofs](#proofs), [a divergence](#a-divergence-between-comment-and-code),
[limits](#what-is-only-model-checked-and-what-is-not-modelled).

## The system

| Part (source) | State | Operations that change it | Talks to |
|---|---|---|---|
| Submission queue (`Mellow/XeSubmission`) | job table, fence sequence, reset generation, queue state, last clock | activate, submit, onInterrupt, expire, reset, retire | a backend: retain/release, submit, readFence, quiesce |
| Virtual memory (`Mellow/XeMemory`) | allocation records, generations, use counters, last fence | exclude, reserve, reserveAt, pin, bind, retainUse, releaseUse, recordUse, retire, reclaim | DMA pins, GPU page tables |
| Bridge (`Mellow/XeMemorySubmission.hpp`) | fault latch | the queue's retain and release over the VM's counters | queue and VM |
| Interrupt controller (`Mellow/XeInterrupt*`) | atomic `state_`, event batch | filter, attach, start, service, dispatch, rearm, detach | three latch levels of the device; IOKit work loop |
| GuC transport (`Mellow/XeGuCTransport`) | pending table, cookies, credits, H2G/G2H rings | attach, send, receive, expire, retire | GuC firmware, running concurrently |
| GuC mailbox (same file) | poisoned and enabled flags | configureAndEnable: a sequence of register exchanges | GuC firmware |
| Native memory owner (`Drivers/NativeGpu/MemoryOwner`) | slots, holds, quota, draining/quiesced/closed | allocate, map, synchronize, retain, release, retire, quiesce, close | a memory backend (`NativeMemoryIOKit`) |
| GPFIFO queue (`Drivers/NativeNvidia/GpFifoQueue`) | jobs, put index, pending count, fence payload, channel claim | bind, submit, poll, expire, reset, retire | memory owner; a channel that fetches on its own |
| Fence timeline, context execution (`Mellow/XeFence`, `XeContextExecution`) | fence window; one-shot run with its VM, control command and fence | bind, published, observe, close; begin, poll, close | VM, transport |
| GGTT, GuC regions, firmware loader (`Mellow/XeGgtt`, `XeGuCRegionOwner`, `XeGuCFirmware`) | global table records, retained regions, loader stage | reserve, publish, teardown, retire; pin, retain, release, close; start, reset | each over the one before |
| Page tables, forcewake (`Mellow/XePageTable`, `XeMmioAccess`) | private table nodes; domain reference counts | map4K, unmap4K, seal; acquire, release | device registers |
| Diagnostic service (`Mellow/TahoeDiagnosticProtocol`) | one session, its allocations | open, call, close, stop | DMA pins |
| Runtime (`Runtime/`) | completion tracker; Metal command buffers | arm, observe, invalidateForReset; commit | providers |

The rest of the repository (the legacy patching plug-in, display code, compilers and parsers, ported encoders, userspace tools)
has no protocol of its own; `PROJECT.json` lists every part with the reason it is left out.

What makes these owners hard:

- **The device does not stop when the host gives up.** A timeout, a failed write or an unknown acceptance says nothing about DMA.
  Only an ordered fence, a confirmed rejection or a confirmed quiesce does.
- **Late answers.** Fences, mailbox answers and GuC replies arrive after their timeout, and after a result was reported.
- **Partial failure.** Binding, unbinding, cleanup and submission consist of several steps, each of which can fail after taking effect.
- **Reuse.** Slots, handles, cookies, ring entries and tokens are recycled; generations have to tell old from new.
- **Real concurrency.** The interrupt filter preempts the work loop between any two register accesses; the GuC and the NVIDIA
  channel run all the time. Everything else is serialised by contract (each header says so), and the models use that.
- **Limits.** Sequence numbers, generations, cookies, credits and ring slots run out.

## Modules and what they correspond to

One action models one whole call wherever calls are serialised; the answers of callbacks are nondeterministic inputs. In
`XeInterrupt` and `XeGuCMailbox` another party acts during a call, so there an action is one atomic operation or register
access. Each module also has variables for the world behind the callbacks (what the device may be accessing, what is really
mapped or pinned). The code cannot read them; the properties compare them with what the code believes.

**DmaOwnership** is the abstract contract all native owners share: memory is acquired once, the device only starts on owned
memory, and memory is given back only when no work can reach it. `XeMemorySubmission` and `GpFifoQueue` are shown to implement it.

**XeSubmission** (`SubmissionQueue`). `jobs`, `qstate`, `qgen`, `nextSeq`, `lastSubmitted`, `lastObserved`, `exhausted` and
`lastTime` are the fields of the class. `dma` is the set of batches the device may be accessing and `hwDone` the sequence it has
written in each generation. `submit` is split by outcome (`SubmitRefused`, `SubmitInvalid`, `SubmitNotAccepted`,
`SubmitAccepted`, `SubmitUnknown`), `onInterrupt` into `InterruptUnobserved` and `OnInterrupt`, `reset` into `ResetFailed` and
`ResetQueue`. A fence reading is the true value or any corrupt value outside the plausible window. Batch words are only valid or not.

**XeMemory** (`VirtualMemory`). Addresses are counted in pages. `pte`, `pins` and `completed` are GPU page tables, pinned backing
and fence timelines; `recorded` is every use `recordUse` accepted. Uncertain backend answers (`PinUncertain`, `BindUncertain`,
`ReclaimUncertain`) may have touched any subset of the pages. `Fit` is the search loop of `reserve`.

**XeMemorySubmission** extends both: `Retained` and `RolledBack` are the loops of `submit` over resources, `ReleaseBy` is
`release()` for all jobs settled by one fence or reset, and clients call the manager between queue calls. The refinement maps
`owned` to the handles of records whose backing may be pinned and `access` to the pairs of `dma`.

**XeInterrupt**: filter (`fpc`), work loop (`pc`, `call`) and device (`tile`, `gfx`, `latched`, `work`) at register-access
granularity. Any access may fail, and a failed write may have taken effect. The IOKit adapter's source enable, signal and
detach are included. Owner contract: a failed `detach()` is retried before anything else is called.

**XeGuCTransport**: the H2G ring word by word (padding, wrap, torn entries), the G2H ring as a bounded queue, the pending table
with cookies and credits. The variable `env` is chosen initially and never changes: which commands the caller sends and whether
GuC and caller follow the protocol. **XeGuCMailbox**: `reg` is the shared register, `serving` the request the doorbell latched,
`applied` what the GuC did. `bound` says whether a binding (which configures once) or a bare mailbox is used.

**MemoryOwner**: `slots`, `holds`, `charged` and the three stop flags are fields. `Outcomes` is `cleanup()` with every way it can
fail; `Close` folds it over the slots in the code's order. `Careless` lets the backend hand out backing twice or spoil the page list of a pin it gave out, `Consumers` adds
users that take no hold. **GpFifoQueue** extends it with the queue and the channel (`ring`, `get`, `gpPut`, `running`, `fence`),
which fetches and finishes entries at any time. `setup` is a rigid choice like `env`. Deadlines become "any submitted job may
expire". The queue's reaction to a failing `release()` of a hold is unreachable because holds are exact (`HoldsAreExact`).

**XeGgtt**, **XeGuCRegionOwner** and **XeGuCFirmware** extend one another: the global table, the regions shared with the GuC, and
the loader that boots it. One loader call makes dozens of table and register accesses under one lock, so a call is one action,
and each operation below it is an operator from the state it works on to the set of its outcomes, one for each way an access can
end. `pte` and `stale` are the table and what a cache may still hold of it, `lent` and `pins` the backing behind the callbacks,
`dirty` CPU writes the device may not see, `reach` the regions the GuC may access. A failed table write may have taken effect or
have left an entry that is neither old nor new. No callback is relied on to know what the GuC is doing.

**XeFence** (`Timeline`, `IOKitSlot`) and **XeContextExecution** (`EvidenceExecution`) are written the same way, over `XeMemory`,
whose clients go on retiring and reclaiming what a job names. `line` holds the timeline's fields, `cell` the qword the GPU writes,
`mount` the memory of the slot, `gpu` the one context, and the history variable `wrote` says whether that context has made its
post-sync write. Until hardware is quiet, `SlotCorrupted` may put any qword outside the window into the slot. Of the transport the execution sees two cookies with their replies and the
fault (`broken`). Contract: the slot is attached and detached only before an execution begins or after it is closed.

**XePageTable** (`PageTable`): `tree` is the pool of table pages, an address the function of its indices per level; `pages` is
what the caller was told. **XeForceWake** (`ForceWake`, `IOKitMmio`): `control` says who requests a domain and `ack` follows it in
its own time; somebody else may have set the same bit before the driver came. `MCXeUnits` puts mailbox, page tables and forcewake in one
run: its variable `part` picks one of them and never changes.

The other `MC*` modules only give constants their values. A definition whose comment begins "Faulty variant" is a plausible mistake in
the definition next to it; nothing uses it, and replacing that definition by it makes the property named in `PROJECT.json` fail.

## Runs

Safety needs no fairness: only `irq`, `units` (for the mailbox) and `context` state any. States are distinct states, times are for two workers.

| Run | States | What it shows |
|---|---|---|
| `queue` (`XeSubmission.cfg`) | 32 thousand, 7 s | `DmaHeld`: whatever the device may access is held by a job of the current generation, through timeouts, late fences, unknown acceptance, failed resets and slot reuse. `CompletedIsReal`: Completed is reported only for what the device finished. `TokensUnique`: no token is ambiguous or reissued, across exhaustion and resets. `ResultsAreFinal`: a reported result never becomes another, except that a reset decides an unknown acceptance. |
| `bridge` (`XeBridge.cfg`) | 332 thousand, 80 s | Queue and VM together. `UsesAreHolds`: every use counter is the number of jobs holding the record, so the bridge never faults. `DmaIsMapped`: a batch's resources are still the same allocation, mapped on every page and pinned. `ImplementsOwnership`: refinement of `DmaOwnership`. |
| `vm` (`XeMemory.cfg`) | 194 thousand, 1 min | `MappedIsPinned`: no GPU translation outlives its pages. `RecordsDisjoint`: intervals and generations never clash. `RecordedWorkMapped`: polling only the last fence covers all recorded work. `FirstFit`: the search loop finds the lowest aligned gap whenever there is one. |
| `irq` (`XeInterrupt.cfg`) | 119 thousand, 40 s | `MaskFollowsState`: delivery is off while a batch is captured and dispatched, and at rest exactly follows the state. `PendingIsLatched`: the acknowledge order loses no event. `FaultSticks`: a fault is never overwritten. `WorkIsServed` (liveness): once admission is stable, raised work is handled unless the controller faults or is stopped. |
| `guc_transport` (`XeGuCTransport.cfg`) | 418 thousand, 30 s | `CreditsConserved`, `RingIsFifo` (whole commands in order over wrap, padding and a full ring), `SuccessIsReal` (a DONE event names only a context, yet never settles the wrong command), `RepliesHaveOwners` (a GuC that follows the protocol cannot stop the transport). |
| `guc_retired` (`XeGuCRetired.cfg`) | violation | See [below](#a-divergence-between-comment-and-code). |
| `units` (`XeUnits.cfg`) | 28 thousand, 9 s | Mailbox: `AnswerIsOwn`, an answer read belongs to the request in flight; `ExchangeReturns` (liveness), the call returns even if the GuC is silent and the clock stands still. Forcewake: `WakeIsOwned`, a domain reported as held is awake at the driver's own request, and a mapping given up leaves no request behind. Page tables: `TablesAreExact`, walking the tables gives exactly what was mapped, and no table is lost or dangling. |
| `native_memory` (`MemoryOwner.cfg`) | 119 thousand, 50 s | `BackingIsOwned`, `UsedIsMapped`, `WritesAreVisible` (device writes are made visible before backing is returned), and `CloseSucceeds`: once holds are gone, a close in which the backend confirms each step empties every slot. |
| `fifo_ring` (`GpFifoRing.cfg`) | 84 thousand, 11 s | `EntriesIntact`: the channel fetches exactly the published jobs, in order, never from an overrun ring. `JobsReallyComplete`: a job is reported done only if the channel finished it. |
| `fifo_memory` (`GpFifoMemory.cfg`) | 99 thousand, 30 s | The queue among other clients and a stopping owner. `HoldsAreExact`; `AccessIsMapped`: whatever the channel can reach is mapped and backed; `ImplementsOwnership`. |
| `boot` (`XeGuCFirmware.cfg`) | 256 thousand, 65 s | `TranslatedIsPinned`: whatever the table, or a cache of it, translates to is pinned. `TablesAgree`: table, region owner and loader agree on reservations, backing, references and quota. `GucSeesRegions`: what the GuC may access is pinned, mapped on every page and synchronized. `ForeignKept`: an entry the manager did not write is never changed. `CloseFrees`: only an uncertain pin or unknown table contents block recovery. |
| `context` (`XeContextExecution.cfg`) | 300 thousand, 90 s | `RunIsBacked`: while the GPU may run the job its allocations stay the same, mapped and pinned, and until it has stopped context and fence memory are held. `CompletionIsReal`: no sequence is observed and no job is Completed before the job's own post-sync write (`wrote`), with stale memory in the slot at first, and stray qwords beyond the published sequence or with a high half while it runs. `RunCloses` (liveness): once hardware is quiet, a begun execution is closed with every use returned. |

`RunCloses` excludes one case, which the code really has: an enable whose publication is unknown leaves its cookie holding credits
on a transport that has faulted and receives no more, so `retire()` and with it `close()` answer Busy for ever, even on confirmed
quiescence. The comment at `XeContextExecution.hpp:51` allows both readings.

Type invariants are stated where the proofs need them (`QueueTypeOK`, `VmTypeOK`, `OwnerTypeOK`, `FifoTypeOK`, `WakeTypeOK`); the runs spend their properties
on relations between parts. Deadlock is checked for `queue`, `bridge`, `irq` and `context`; the other systems may really stop (a closed owner, a broken transport, a
finished exchange, exhausted generations).

## Bounds

Every bound is a constant of its module and appears in a guard where the code has its own limit, or in the set of inputs.

- *Two jobs, two records or slots* are the least at which jobs share a resource, a table fills, one entry is reused while
  another is live, and rollback has a proper prefix. GPFIFO uses three or four slots because ring and fence occupy two.
- *Sequence ranges of 1 to 3 and generations of 2 to 5* let every counter hit its last value (`0xFFFFFFFF`, `UINT64_MAX` in the
  code), where the code has a special case, after at least one reuse.
- *Clock values 0..2 (queue) and 0..1 (bridge)*: before, at and after a deadline, and a clock that goes back.
- *vm*: three pages, sizes and alignments 1 and 2, so that alignment skips a free page. The address space starts at page 1,
  so aligning matters from the first page. Two timelines with two values allow a wrong order across and within timelines. Owners
  and timelines are interchangeable, so symmetry is used; the run has no liveness property.
- *irq*: two banks of two bits with sources in the first bank and among the non-bank bits; two events in one bank are the least
  at which clearing a whole bank loses one.
- *guc*: a 16-word H2G ring holds one 13-word command with padding; a 1024-word G2H ring gives 511 credits, one request of
  256; cookies end at 4.
- *mailbox*: the code's six configuration requests and the enable request, three polls instead of 2052, two attempts.
- *fifo*: a ring of two entries (one job fills it), claimed twice at its last entry, and one of four (two jobs in flight), claimed at its
  last entry and then at 0, for wrap-around.

- *boot*: two regions of one or two pages and a plan of both, three generations so that a slot is reused after a failure, and two
  grants with a foreign page between them, the larger of which can be written or cleared in part. Any granted page may carry an
  entry of the firmware at the start.
- *context*: one job of two allocations (six in the code), which may be the same one, over two records and two generations, so
  that what a job names can have been reclaimed and reused. An instance runs one job in the code, too.
- *page tables*: three levels of two entries and a pool of five of the seven tables a full tree needs, so that growth fails after
  no and after one new table. *forcewake*: two references per domain, so that the count reaches its limit.

Corruption of a fence value *inside* the window between the last observed and last submitted sequence cannot be told from
progress by any reader and is excluded by the backend's contract; values outside the window are included. In *context* one
sequence of two is published, so that there are values beyond it; the lower end of the window does not matter there, as the
execution publishes once and reads no more after it has seen that sequence. A non-zero high half is tried with the low half that
would complete the job; `observe()` refuses it before it looks at the low half.

## Fairness

`IrqFairness`: weak fairness for delivery of an enabled, asserted interrupt (hardware), for the filter, for steps inside a
work-loop call and for a signalled action (IOKit runs them). Strong fairness of `Drained` says that a handler does not answer
More for ever: the dispatcher answers More only after 64 messages in one pass, and the G2H ring it drains is finite. Nothing is
assumed of the owner's own calls or of register accesses succeeding; stable admission is a hypothesis of `WorkIsServed`.
`ExecFairness`: weak fairness of a `close()` whose callbacks cooperate (the owner retries a close that answered Busy, and the
callbacks confirm what has become true) and of the GuC answering an enable while the transport works.
`MboxFairness`: weak fairness of the host's own steps only. The GuC may be silent and the clock may stop; the poll count bounds the loop.

## Proofs

`XeSubmissionProofs` proves, for every number of jobs, every set of resources, every sequence and generation range and every clock bound:

| Theorem | Statement |
|---|---|
| `QueueTypeCorrect` | `QueueSpec => []QueueTypeOK` |
| `QueueDmaHeld` | `QueueSpec => []DmaHeld` |
| `QueueCompletedIsReal` | `QueueSpec => []CompletedIsReal` |
| `QueueTokensUnique` | `QueueSpec => []TokensUnique` |
| `QueueAdmissionIsClean` | `QueueSpec => []AdmissionIsClean`: in Ready every hold belongs to a plainly submitted job; in Inactive nothing is held or accessed |
| `QueueResultsAreFinal` | `QueueSpec => ResultsAreFinal` |

Assumptions: `MaxJobs`, `MaxSequence` and `MaxQueueGeneration` are positive, `MaxTime` is a natural number.

`DmaHeld` is not inductive: that a fence covering a job lets its hold go is safe only because the device really finished all
sequences up to the fence, which needs the order of fences. The inductive invariant `QueueInv` adds

- `FenceOrder`: last observed ≤ written by the device ≤ last submitted, in the current generation;
- `NextToken`: the next sequence follows the last submitted one unless exhausted;
- `DmaTracked`: every batch of the device is a held job of this generation beyond the device's fence;
- `HeldJobs`: only undecided jobs of the current generation are held;
- `IssuedTokens`, `DistinctTokens`: tokens in the table were handed out before, and no two are equal;
- `CompletedIsReal` and `AdmissionIsClean` themselves.

There is one lemma per action (`ActivateStep` ... `DeviceCompletesStep`). `QueueInvInit` and `QueueInvStep` combine them,
`QueueInvImplies` gives `DmaHeld` and `TokensUnique`, and `FinalStep` is the action property, from `QueueInv` before the step.

`XeMemoryProofs` is about the memory manager, for every capacity, address space, set of sizes, alignments and owners, and every
generation and fence bound:

| Theorem | Statement |
|---|---|
| `MappedStaysPinned` | `VmSpec => []MappedIsPinned` |
| `RecordsStayDisjoint` | `VmSpec => []RecordsDisjoint` |
| `RecordedWorkStaysMapped` | `VmSpec => []RecordedWorkMapped` |

Assumptions used: the address range is not empty, sizes are positive, and the bounds are natural numbers. `MappedIsPinned` alone
says nothing of a record that is pinned and not yet mapped, so it does not survive `bind()`. The invariant `VmInv` adds

- `Backed`: a Pinned, Bound or Retiring record has its pin;
- `BoundIsMapped`: a Bound or Retiring record is mapped on all its pages;
- `UsesCovered`: each recorded use is complete, or the *last* fence of a live record of that generation is on the same timeline and
  not earlier. This is why one remembered fence is enough.

A call either moves one record to another state (`Moves`), frees one (`Frees`) or inserts one. Each conjunct has one lemma for
`Moves` and one for `Frees`, and the calls cite them. What `Fit` computes is not needed: `Insert` checks the place again.

`XeMemorySubmissionProofs` composes the two, from the assumptions of both and `Resources = Handle`. It first proves what
implementing the abstract contract buys:

| Theorem | Statement |
|---|---|
| `OwnershipIsSafe` | `Spec => []AccessIsOwned` of `DmaOwnership`, from no assumption, with `access \subseteq Work \X owned` as the invariant |
| `UsesStayHolds` | `BridgeSpec => []UsesAreHolds` |
| `DmaStaysMapped` | `BridgeSpec => []DmaIsMapped` |
| `BridgeImplementsOwnership` | `BridgeSpec => ImplementsOwnership` |

`BridgeInv` is `QueueInv`, `VmInv`, the equality of counters and holds, and `HoldsResolve`: a held job names each record once, and
each still resolves. That is what the parts do not know of each other. A client call leaves a record with a nonzero counter alone
(`ClientKeepsHeld`), so holds go on resolving, so `release()` finds each of them and takes exactly one off (`ReleaseInv`), and the
bridge does not fault. For the refinement, `pin()` is the contract's Acquire (the handle was only reserved, and the device reaches
owned handles only), an accepted or possibly accepted batch is Start, and everything else is Release (`BridgeRefines`).

`XeInterruptProofs` is about the interrupt controller, for every width of a bank and every set of wired sources:

| Theorem | Statement |
|---|---|
| `MaskIsSafe` | `IrqSpec => []MaskFollowsState` |
| `NoEventIsLost` | `IrqSpec => []PendingIsLatched` |
| `FaultIsSticky` | `IrqSpec => FaultSticks` |

The properties speak of the controller at rest, and the filter may interrupt the work loop anywhere. `IrqInv` therefore says, for
each step of the work loop, which steps the filter can be at and which values `state_` can have (`FilterInv`, `StateInv`), who is
due to be called (`AdapterInv`), whether the tile master delivers (`MaskInv`), when a batch exists (`BatchInv`), and where raised
work is recorded: in a latch, or in the register contents the work loop has read and not yet merged (`RecordInv`). Most steps
change none of these for the worse and share one lemma (`CalmKeeps`).

`MemoryOwnerProofs` is about the native memory owner, for every number of slots, every quota and generation bound, careful and
careless backends, with and without consumers that take no hold:

| Theorem | Statement |
|---|---|
| `BackingStaysOwned` | `OwnerSpec => []BackingIsOwned` |
| `UseStaysMapped` | `OwnerSpec => []UsedIsMapped` |
| `NoWriteIsLost` | `OwnerSpec => []WritesAreVisible` |

`OwnerInv` says of each slot what its state and flags promise about the world. A Pinned or Mapped slot has its backing, a Mapped or
held one its translation; a translation or a write implies `mapAttempted`, a stray use `mappingUncertain` (`Backs`).
`cpuSynchronized` means, once a mapping was attempted, that no hold is left, that the use has ended or the device is quiesced, and
that nothing written is missing unless the mapping is uncertain (`Synced`). This last conjunct is why skipping a synchronization is
safe. `cleanup()` is treated once for all callers (`CleanupOK`): retire and close change slots and then take one outcome for
each slot they clean; quiesce, also when it fails, is the case in which no slot is cleaned.

`GpFifoRingProofs` and `GpFifoQueueProofs` are about the GPFIFO queue over that owner, for every ring size and every index and
fence payload at which a channel is claimed, and every number of jobs, resources, slots, sequence numbers and generations:

| Theorem | Statement |
|---|---|
| `FifoInvariant` | `FifoSpec => []FifoInv` |
| `HoldsStayExact` | `FifoSpec => []HoldsAreExact` |
| `RingStaysIntact` | `FifoSpec => []EntriesIntact` |
| `CompletionIsTrue` | `FifoSpec => []JobsReallyComplete` |
| `AccessStaysMapped` | `FifoSpec => []AccessIsMapped` |
| `FifoImplementsOwnership` | `FifoSpec => ImplementsOwnership` |

Assumptions: those of the owner; a ring has at least two entries and is claimed at an index inside it; `TableAssumption`, that the
slots filled before the queue is bound have not used up the generations (32 slots against 2^64 generations in the code).
`FifoInv` is the conjunction of

- `RingInv`, which does not mention the owner. `CounterInv` orders completed ≤ fence ≤ fetched ≤ visible ≤ next sequence, and ties
  the distance from GP_GET to GP_PUT to it. `EntryInv` and `SequenceInv` say that unread entries, running entries and jobs in flight
  carry each number of their interval exactly once. `ResourceInv` says that an entry names no more than its job holds. `DoneInv`
  says that what lies below the fence is finished. `PhaseInv` says what each state of the queue excludes.
- `OwnerInv`, from `MemoryOwnerProofs`.
- `HoldInv`, what the two do not know of each other: holds are exact, and what the binding or a job holds still resolves to the
  allocation that was retained.

A step is *quiet* (a call that fails, or one of another client: counters, jobs and exposed entries stay, and the owner leaves
every held slot in place), or it is one of bind, submit, expire, poll, reset, retire or a step of the channel (`StepKinds`). The
owner's part of every step is a move that leaves held slots in place (`OwnerMove`). For the refinement, allocate is the
contract's Acquire, bind and submit are Start, and everything else is Release: what the channel can still reach is held
(`ReachableHeld`), hence translated and backed, hence not reclaimed.

`XeUnitsProofs` holds the theorems about the context execution and two of the units:

| Theorem | Statement |
|---|---|
| `RunIsAlwaysBacked` | `ExecSpec => []RunIsBacked`, for every number of allocations of a job, records, pages, owners, and every bound |
| `CompletionIsAlwaysReal` | `ExecSpec => []CompletionIsReal`, likewise, for every sequence limit |
| `AnswersAreOwn` | `MboxSpec => []AnswerIsOwn`, for every number of requests, polls and attempts |
| `WakeOwned` | `WakeSpec => []WakeIsOwned`, for every reference limit |

Assumptions: those of the memory manager, a job has at least one allocation, the sequence limit is positive. Both theorems follow
from `ExecInv`, with the parts

- `VmInv`, from `XeMemoryProofs`, for what the clients do between two calls;
- `Counted`: what `vmHeld_` says is held still resolves, and each record counts at least the holds on it. A client is stopped by a
  nonzero counter, so a held record keeps its identity, mapping and pin;
- `Guarded`: while the job may run every allocation is held; until hardware is quiet the context and the slot are; the context has
  made its write only if it is done or was stopped. So when the fence is read as complete, the allocations can be released;
- `Told`: a timeline that has published and whose slot reads 1, or which has observed anything, belongs to a job that has made its
  write. This is where `begin()` insisting on a slot that reads zero, and the window of `observe()`, are needed;
- `Staged`: what each `state_` adds, for example that a registered job is ready to be handed over.

The calls are functions from a run to the set of its outcomes; the lemmas follow them from the loops over the handles
(`ReleaseStays`, `RetainStays`) up to `BeginSound`, `PollSound` and `CloseSound`. The loops need an induction over their rounds:
it is done for a *set* of numbers, from the well-ordering of the natural numbers (`Least`), which needs no operator parameter.

`AnswerIsOwn` speaks of a poll only. `MboxInv` adds why no older request can answer then: one that may still be answered has
poisoned the mailbox, and a poisoned mailbox starts no exchange. `WakeIsOwned` is silent about an attached driver that counts
nothing; `WakeInv` adds that without a fault the driver requests exactly the domains it counts, that a counted domain is
acknowledged, and that a driver which is not attached could be detached.

## A divergence between comment and code

`XeGuCTransport.hpp:81` says `retire` "cannot forget pending/timed-out response ownership", and line 89 that a fast request can
still receive a failure without holding credits. `retire()` (`XeGuCTransport.cpp:244`) refuses only while credits are held, so an
unconfirmed fast request can be retired. The failure the GuC may still send for it then has no owner, and the transport declares itself broken.
`guc_retired` shows the trace. In `guc_transport`, with callers that wait for confirmation, the property holds.

## What is only model-checked, and what is not modelled

Checked by TLC only:

- *Liveness* (`WorkIsServed`, `ExchangeReturns`, `RunCloses`), and `CloseSucceeds` and `CloseFrees`, which are about what a call
  could achieve: fairness and enabledness are outside what the proof system can establish.
- *`FirstFit` and `TablesAreExact`*: both are about what a recursive function computes (the search loop; the walk through the
  tables), for which the proof system would need induction over data.
- *The GuC transport* (`CreditsConserved`, `RingIsFifo`, `SuccessIsReal`, `RepliesHaveOwners`) and *the boot chain*
  (`TranslatedIsPinned`, `TablesAgree`, `GucSeesRegions`, `ForeignKept`): nothing stands in the way of a proof in principle, and
  there is none.

Left out of the models: batch and action payloads, PTE encodings, register layouts, argument validation that only refuses
(a refused call changes nothing), logging. Weak memory is not modelled: the code's barriers are taken to do their work.

Parts that are not modelled:

- *Diagnostic session* (`TahoeDiagnosticProtocol`, `TahoeDiagnostic`): one client and one allocation, every call under one lock. A
  failed unpin faults the session and keeps the pin; a later release or stop tries again, and no client can open it meanwhile.
- *Completion tracker* (`PlatformRuntime`): a five-state record of one submission, documented as not thread safe.
- *Command buffers* (`MetalObjects`, `RenderObjects`): documented for single-thread use. `commit` takes the device's submission lock
  and, per dispatch or draw, the buffer's or texture's lock; it stops at the first failure, with earlier results kept.
  These three are within TLC's reach; they were left out in favour of the parts where several actors interleave. No claim is made
  about them.
- *Workload planner, readiness gate*: a bounded search and a fold over a mask, without state.
- *IOKit backends* (`NativeMemoryIOKit`, `XeMemoryIOKit`, `XePageTableIOKit`): they appear through the answers they can give.
- *GGTT `reserveAt`*: nothing in the driver calls it.
- *Encoders, parsers, shader compilers*: no protocol state. *Patches of Apple's drivers, display code*: defined by code outside
  the repository.
