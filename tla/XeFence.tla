------------------------------- MODULE XeFence -------------------------------
(***************************************************************************)
(* XeFence::Timeline (Mellow/XeFence.cpp) and XeFence::IOKitSlot, which    *)
(* owns the memory of its slot (Mellow/XeFenceIOKit.cpp).  The slot is one *)
(* qword that the GPU writes and the CPU reads.  A timeline call is a set  *)
(* of outcomes: the ownership callbacks may refuse at any time, and the    *)
(* stop callback confirms only what is true of the hardware.               *)
(***************************************************************************)
EXTENDS Integers

CONSTANT MaxSequence    \* last sequence of a timeline (UINT32_MAX in the code)

ASSUME MaxSequenceAssumption == MaxSequence \in Nat \ {0}

VARIABLES
    line,   \* the Timeline: held_, active_, used_, published_, observed_
    cell,   \* the slot: its low half, and whether its high half is not zero
    mount,  \* descriptor of the slot: "none", "mapped", "unmapped" (prepared)
    gpu,    \* the one context that writes the slot
    wrote   \* history: the context's post-sync write was made

fenceVars == <<line, cell, mount, gpu, wrote>>

Unread == -1            \* observe() did not return Ok

Raw(high, low) == [high |-> high, low |-> low]

\* What the slot may hold.  A high half makes any low half unreadable: 1, the
\* sequence of a job, stands for them all.
Qwords == {Raw(FALSE, n) : n \in 0 .. MaxSequence} \cup {Raw(TRUE, 1)}

FenceInit ==
    /\ line = [held |-> FALSE, active |-> FALSE, used |-> FALSE,
               published |-> 0, observed |-> 0]
    /\ cell \in Qwords      \* whatever the memory held
    /\ mount = "none"
    /\ gpu = "off"
    /\ wrote = FALSE

\* The hardware cannot write the slot: nothing was handed to it, or a stop or
\* reset was confirmed.
Quiet(g) == g \in {"off", "stopped"}

\* bind() after retain(): the second validation may still refuse.
Bound(l) == [l EXCEPT !.held = TRUE, !.used = TRUE]
Activated(l) == [Bound(l) EXCEPT !.active = TRUE, !.published = 0, !.observed = 0]

\* published(): sequences are consecutive and do not wrap.
Publishing(l, n) ==
    IF ~l.held \/ ~l.active THEN {[line |-> l, ok |-> FALSE]}
    ELSE {[line |-> [l EXCEPT !.active = FALSE], ok |-> FALSE]} \cup
         (IF l.published # MaxSequence /\ n = l.published + 1
          THEN {[line |-> [l EXCEPT !.published = n], ok |-> TRUE]}
          ELSE {[line |-> l, ok |-> FALSE]})

\* Faulty variant: a sequence that was never published is accepted.
ReadableAhead(l, raw) == ~raw.high /\ raw.low >= l.observed

\* What observe() accepts as a post-sync write of this timeline.
Readable(l, raw) ==
    ~raw.high /\ raw.low <= l.published /\ raw.low >= l.observed

\* observe(): a refusal or a value out of the window ends the timeline.
Observing(l, raw) ==
    LET dead == [line |-> [l EXCEPT !.active = FALSE], seen |-> Unread]
    IN  IF ~l.held \/ ~l.active THEN {[line |-> l, seen |-> Unread]}
        ELSE {dead, IF Readable(l, raw)
                    THEN [line |-> [l EXCEPT !.observed = raw.low], seen |-> raw.low]
                    ELSE dead}

\* Faulty variant: a timeline that is no longer active cannot be closed.
ReleasableActive(l, g) == l.active /\ Quiet(g)

\* The stop callback may confirm: never on a time-out alone.
Releasable(l, g) == Quiet(g)

\* close(): the slot is released only on confirmed quiescence.
Closing(l, g) ==
    IF ~l.held THEN {[line |-> l, ok |-> TRUE]}
    ELSE {[line |-> [l EXCEPT !.active = FALSE], ok |-> FALSE]} \cup
         (IF Releasable(l, g)
          THEN {[line |-> [l EXCEPT !.active = FALSE, !.held = FALSE], ok |-> TRUE]}
          ELSE {})

\* IOKitSlot::detach() from the timeline l: after close() the mapping goes,
\* and complete() may fail, which keeps the descriptor for a retry.
Detaching(l) ==
    \E c \in Closing(l, gpu) :
        /\ line' = c.line
        /\ mount' \in IF c.ok THEN {"none", "unmapped"} ELSE {mount}
        /\ UNCHANGED <<cell, gpu, wrote>>

Detach == mount # "none" /\ Detaching(line)

\* IOKitSlot::attach() of a prepared and mapped descriptor, with bind() Ok.
AttachOk ==
    /\ mount = "none" /\ ~line.used /\ Quiet(gpu)
    /\ line' = Activated(line)
    /\ cell' = Raw(FALSE, 0)
    /\ mount' = "mapped"
    /\ UNCHANGED <<gpu, wrote>>

\* attach() undone by detach(): no mapping, or bind() refused before retain().
AttachUndone == mount = "none" /\ Detaching(line)

\* attach() whose bind() refused after retain(); detach() may be refused too,
\* and the backing then stays.
AttachHalf ==
    /\ mount = "none" /\ ~line.used /\ Quiet(gpu)
    /\ \E c \in Closing(Bound(line), gpu) :
          /\ line' = c.line
          /\ mount' \in IF c.ok THEN {"none", "unmapped"} ELSE {"mapped"}
    /\ UNCHANGED <<cell, gpu, wrote>>

\* invalidate(), by whoever owns the timeline.
Invalidate ==
    line' = [line EXCEPT !.active = FALSE] /\ UNCHANGED <<cell, mount, gpu, wrote>>

-----------------------------------------------------------------------------
\* The context's batch starts, ends with its post-sync write, and hardware is
\* stopped or reset.
GpuStarts ==
    gpu = "queued" /\ gpu' = "running" /\ UNCHANGED <<line, cell, mount, wrote>>

GpuFinishes ==
    /\ gpu = "running" /\ gpu' = "done"
    /\ cell' = Raw(FALSE, 1) /\ wrote' = TRUE
    /\ UNCHANGED <<line, mount>>

HostStops ==
    ~Quiet(gpu) /\ gpu' = "stopped" /\ UNCHANGED <<line, cell, mount, wrote>>

\* A stray device write hits the slot: any qword that is not between the last
\* observed and the last published sequence.  Within that window it could not
\* be told from progress, which the exclusive slot of bind() excludes.
SlotCorrupted ==
    /\ ~Quiet(gpu)
    /\ \E raw \in Qwords :
          /\ raw.high \/ raw.low \notin line.observed .. line.published
          /\ cell' = raw
    /\ UNCHANGED <<line, mount, gpu, wrote>>

FenceNext == GpuStarts \/ GpuFinishes \/ SlotCorrupted \/ HostStops \/ Invalidate
==============================================================================
