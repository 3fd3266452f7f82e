------------------------- MODULE XeContextExecution -------------------------
(***************************************************************************)
(* XeContext::EvidenceExecution (Mellow/XeContextExecution.cpp): one job   *)
(* on one context.  It holds the context and the job's allocations, hands  *)
(* the context to the GPU through the GuC, learns the end of the job from  *)
(* the fence slot, and gives everything back in close().                   *)
(*                                                                         *)
(* It runs over the memory manager, whose clients go on retiring and       *)
(* reclaiming what the job names, and over the fence timeline.  Of the     *)
(* GuC transport it sees the two cookies with their replies, and whether   *)
(* the transport faulted: replies then no longer arrive.  A call maps the  *)
(* record of the execution and what it touches to a set of outcomes.       *)
(***************************************************************************)
EXTENDS XeMemory, XeFence

CONSTANTS
    JobHandles,     \* allocations of a job (6 in the code)
    ContextOwner    \* context_.owner

ASSUME JobHandlesAssumption == JobHandles \in Nat \ {0}
ASSUME ContextOwnerAssumption == ContextOwner \in Owners

VARIABLES
    state,          \* state_; attempted_ is state # "Idle"
    handles,        \* handles_
    vmHeld,         \* vmHeld_: the indices that are held
    contextHeld,    \* contextHeld_
    registration,   \* registration_: "none", or the reply behind the cookie
    enable,         \* enable_, likewise; "Pending" holds response credits
    broken          \* transport: faulted, sends and receives no more

runVars == <<state, handles, vmHeld, contextHeld, registration, enable, broken>>
execVars == <<vmVars, fenceVars, runVars>>

Indices == 1 .. JobHandles
NoHandles == <<>>

RunInit ==
    /\ state = "Idle" /\ handles = NoHandles /\ vmHeld = {}
    /\ contextHeld = FALSE /\ registration = "none" /\ enable = "none"
    /\ broken = FALSE

\* What a call reads and changes.
Run == [state |-> state, handles |-> handles, vmHeld |-> vmHeld,
        contextHeld |-> contextHeld, registration |-> registration,
        enable |-> enable, broken |-> broken, line |-> line, gpu |-> gpu,
        uses |-> activeUses]

RunBecomes(r) ==
    /\ state' = r.state /\ handles' = r.handles /\ vmHeld' = r.vmHeld
    /\ contextHeld' = r.contextHeld /\ registration' = r.registration
    /\ enable' = r.enable /\ broken' = r.broken /\ line' = r.line
    /\ gpu' = r.gpu /\ activeUses' = r.uses
    /\ UNCHANGED <<slots, nextGeneration, pte, pins, completed, recorded,
                   cell, mount, wrote>>

\* fail()
Fail(r) == [r EXCEPT !.state = "Failed"]

\* releaseVm(), from the last handle to the first: a handle whose
\* releaseUse() fails stays held.
ReleaseVm(r) ==
    LET Held(q, h) == /\ Lookup(ContextOwner, h, {"Bound", "Retiring"})
                      /\ q.uses[h.slot] # 0
        from[i \in 1 .. JobHandles + 1] ==
            IF i > JobHandles THEN r
            ELSE LET q == from[i + 1]
                 IN  IF i \in q.vmHeld /\ Held(q, q.handles[i])
                     THEN [q EXCEPT !.vmHeld = @ \ {i},
                                    !.uses[q.handles[i].slot] = @ - 1]
                     ELSE q
    IN  from[1]

-----------------------------------------------------------------------------
\* Transport::send() of the registration or of the enable.  Unless it
\* returns Ok the call fails, except that Busy leaves things as they are; a
\* publication of unknown effect keeps the cookie, and its credits, of a
\* transport that is now faulted.
Unsent(r) == {Fail(r), [Fail(r) EXCEPT !.broken = TRUE]}

Registering(r) ==
    IF r.broken THEN {Fail(r)}
    ELSE Unsent(r) \cup
         {Fail([r EXCEPT !.broken = TRUE, !.registration = "SentUnconfirmed"])}

Enabling(r) ==
    IF r.broken THEN {Fail(r)}
    ELSE Unsent(r) \cup {Fail([r EXCEPT !.broken = TRUE, !.enable = "Pending", !.gpu = g]) :
                            g \in {r.gpu, "queued"}}

\* The job is over: the fence has its sequence and the context was enabled.
JobDone(r, seen) == seen = 1 /\ r.enable # "none"

\* Faulty variant: a deadline gives the address space back.
LateReleasing(r) == {r, Fail(ReleaseVm(r))}

\* The deadline may have passed: nothing is given back for that.
Late(r) == {r, Fail(r)}

\* The end of poll(): the fence decides, whatever was reported before.
Fenced(r) ==
    UNION {LET q == [r EXCEPT !.line = o.line]
               released == [ReleaseVm(q) EXCEPT !.state = "Completed"]
           IN  IF o.seen = Unread THEN {Fail(q)}
               ELSE IF JobDone(q, o.seen)
                    THEN {IF released.vmHeld = {} THEN released ELSE Fail(released)}
                    ELSE Late(q) : o \in Observing(r.line, cell)}

\* poll() with the control replies at hand.
Replied(r) ==
    IF r.state \notin {"Enabling", "Running"} THEN Fenced(r)
    ELSE IF \/ r.registration \in {"none", "Failure"}
            \/ r.enable \in {"none", "Failure", "Retry"} THEN {Fail(r)}
    ELSE Fenced(IF r.enable = "Success" THEN [r EXCEPT !.state = "Running"] ELSE r)

\* poll(): a clock that runs back or a withdrawn admission fails the job.
\* Registered contexts are enabled once; Busy is tried again later.
Poll(r) ==
    IF r.state \in {"Idle", "Completed", "Closed"} THEN {r}
    ELSE {Fail(r)} \cup
         (IF r.state # "Registered" THEN Replied(r)
          ELSE IF r.registration # "SentUnconfirmed" THEN {}
          ELSE {r} \cup Enabling(r) \cup
               (IF r.broken THEN {}
                ELSE Replied([r EXCEPT !.state = "Enabling", !.enable = "Pending",
                                       !.gpu = "queued"])))

-----------------------------------------------------------------------------
\* retainUse() of the handles in order: those before the first that fails.
Usable(r, h) == /\ Lookup(ContextOwner, h, {"Bound"})
                /\ r.uses[h.slot] # MaxUses

RetainVm(r) ==
    LET upto[i \in 0 .. JobHandles] ==
            IF i = 0 THEN r
            ELSE LET q == upto[i - 1]
                 IN  IF Cardinality(q.vmHeld) = i - 1 /\ Usable(q, q.handles[i])
                     THEN [q EXCEPT !.vmHeld = @ \cup {i},
                                    !.uses[q.handles[i].slot] = @ + 1]
                     ELSE q
    IN  upto[JobHandles]

\* begin() from the tail write on: the work is published to the context.
Submitted(r) ==
    {Fail(r)} \cup Registering(r) \cup
    (IF r.broken THEN {}
     ELSE Poll([r EXCEPT !.state = "Registered", !.registration = "SentUnconfirmed"]))

\* begin() once the context is held: the uses, the encoding and staging, any
\* of which may refuse the job, then the fence's sequence, then the tail.
Prepared(r) ==
    LET q == RetainVm([r EXCEPT !.contextHeld = TRUE])
    IN  {Fail(q)} \cup
        (IF q.vmHeld # Indices THEN {}
         ELSE UNION {IF p.ok THEN Submitted([q EXCEPT !.line = p.line])
                     ELSE {Fail([q EXCEPT !.line = p.line])} :
                        p \in Publishing(q.line, 1)})

\* begin(): once per instance, on a fence that is fresh and reads zero.
Begin(hs) ==
    /\ state = "Idle"
    /\ LET r == [Run EXCEPT !.handles = hs]
           Observed == {[q |-> [r EXCEPT !.line = o.line], ok |-> o.seen = 0] :
                           o \in Observing(line, cell)}
       IN  \E out \in {Fail(r)} \cup {Fail(o.q) : o \in Observed} \cup
                      (IF line.published # 0 THEN {}
                       ELSE UNION {Prepared(o.q) : o \in {o \in Observed : o.ok}}) :
              RunBecomes(out)

PollJob == \E r \in Poll(Run) : RunBecomes(r)

-----------------------------------------------------------------------------
\* retireControl(): the enable cookie first; retire() is Busy while the GuC
\* owes its answer.
Retirable(r) == r.enable # "Pending"

\* close() of a held context on confirmed quiescence: cookies, fence, uses,
\* context.
Unwound(r) ==
    IF ~Retirable(r) THEN {r}
    ELSE LET retired == [r EXCEPT !.enable = "none", !.registration = "none"]
         IN  UNION {LET q == [retired EXCEPT !.line = c.line]
                        released == ReleaseVm(q)
                    IN  IF ~c.ok THEN {q}
                        ELSE IF released.vmHeld # {} THEN {Fail(released)}
                        ELSE {Fail(released),
                              [released EXCEPT !.contextHeld = FALSE, !.state = "Closed"]} :
                       c \in Closing(r.line, r.gpu)}

\* close()
Close(r) ==
    IF r.state \in {"Idle", "Closed"} THEN {r}
    ELSE IF ~r.contextHeld THEN {[r EXCEPT !.state = "Closed"]}
    ELSE {r} \cup (IF Quiet(r.gpu) THEN Unwound(r) ELSE {})

CloseJob == \E r \in Close(Run) : RunBecomes(r)

\* A close() in which every callback cooperates.
CloseCooperates == \E r \in Close(Run) : r.state = "Closed" /\ RunBecomes(r)

-----------------------------------------------------------------------------
\* The transport receives the GuC's answers until it faults.  An answer to a
\* request that timed out only returns its credits.
EnableAnswered ==
    /\ ~broken /\ enable = "Pending"
    /\ enable' \in {"Success", "Failure", "Retry", "TimedOut"}
    /\ UNCHANGED <<state, handles, vmHeld, contextHeld, registration, broken>>

RegistrationRefused ==
    /\ ~broken /\ registration = "SentUnconfirmed"
    /\ registration' = "Failure"
    /\ UNCHANGED <<state, handles, vmHeld, contextHeld, enable, broken>>

TransportFaults ==
    /\ ~broken /\ broken' = TRUE
    /\ UNCHANGED <<state, handles, vmHeld, contextHeld, registration, enable>>

\* The fence outlives the execution that uses it.
SlotStep ==
    /\ state \in {"Idle", "Closed"}
    /\ AttachOk \/ AttachUndone \/ AttachHalf \/ Detach

ExecInit == VmInit /\ FenceInit /\ RunInit

ExecNext ==
    \/ \E hs \in [Indices -> Handle] : Begin(hs)
    \/ PollJob
    \/ CloseJob
    \/ ClientStep /\ UNCHANGED <<fenceVars, runVars>>
    \/ (SlotStep \/ FenceNext) /\ UNCHANGED <<vmVars, runVars>>
    \/ (EnableAnswered \/ RegistrationRefused \/ TransportFaults)
          /\ UNCHANGED <<vmVars, fenceVars>>

\* The driver retries close() until its callbacks cooperate, and the GuC
\* answers an enable for as long as the transport works.
ExecFairness ==
    /\ WF_execVars(CloseCooperates)
    /\ WF_execVars(EnableAnswered /\ UNCHANGED <<vmVars, fenceVars>>)

ExecSpec == ExecInit /\ [][ExecNext]_execVars /\ ExecFairness

-----------------------------------------------------------------------------
\* While the GPU may run the job, every allocation it names is still that
\* allocation, mapped and pinned; until hardware is known to have stopped,
\* the context and the memory of the fence are held too.  Time-outs, refused
\* or unknown sends, faults and repeated close() calls give nothing back.
RunIsBacked ==
    /\ gpu \in {"queued", "running"} =>
          \A i \in Indices :
              /\ slots[handles[i].slot].generation = handles[i].generation
              /\ handles[i].generation \in pins
              /\ \A p \in SpanOf(handles[i].slot) : pte[p] = handles[i].generation
    /\ ~Quiet(gpu) => contextHeld /\ line.held /\ mount = "mapped"

\* Completed is reported, and a sequence observed, only after this job's own
\* post-sync write.  Neither an acknowledgement of the enable, nor what the
\* memory held before bind(), nor a stray qword beyond the published sequence
\* or with a high half is taken for it, also when hardware is stopped early.
CompletionIsReal == state = "Completed" \/ line.observed # 0 => wrote

\* Once hardware is quiet, an execution that was begun gets closed with every
\* use returned, however it failed: only an enable that the GuC will never
\* answer, because the transport faulted, keeps it.
RunCloses ==
    (state # "Idle" /\ Quiet(gpu)) ~>
        \/ state = "Closed" /\ \A s \in Slots : activeUses[s] = 0
        \/ ~Quiet(gpu)
        \/ broken /\ enable = "Pending"
=============================================================================
