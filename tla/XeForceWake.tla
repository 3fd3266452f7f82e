----------------------------- MODULE XeForceWake -----------------------------
(***************************************************************************)
(* MellowXe::ForceWake (Mellow/XeMmioAccess.cpp) and the BAR mapping that  *)
(* it needs (Mellow/XeMmioIOKit.cpp): reference counts on two power        *)
(* domains, render inside GT, requested by a bit of a control register and *)
(* confirmed by an acknowledge register that follows it in its own time.   *)
(*                                                                         *)
(* Calls are serialised.  Inside one the hardware may answer or not before *)
(* the bounded wait() gives up, any read may fail, and a write that fails  *)
(* may or may not have taken effect.  Before the driver came, somebody     *)
(* else may have requested a domain with the same bit.                     *)
(***************************************************************************)
EXTENDS Integers

CONSTANT MaxRefs    \* refs_ bound (UINT32_MAX in the code)

ASSUME MaxRefsAssumption == MaxRefs \in Nat \ {0}

VARIABLES
    attached,   \* device_, map_ and initialized_
    refs,       \* refs_
    wakeFault,  \* faulted_
    control,    \* hardware: who requests each domain, or nobody
    ack         \* hardware: the acknowledge bit of each domain

wakeVars == <<attached, refs, wakeFault, control, ack>>

Gt == 0
Render == 1
Domains == {Gt, Render}

WakeInit ==
    /\ attached = FALSE
    /\ refs = [d \in Domains |-> 0]
    /\ wakeFault = FALSE
    /\ control \in [Domains -> {"nobody", "other"}]
    /\ ack = [d \in Domains |-> control[d] # "nobody"]

Asked(c) == c # "nobody"

\* What a call on domain d changes.
Wake(d) == [refs |-> refs[d], fault |-> wakeFault, control |-> control[d], ack |-> ack[d]]

WakeBecomes(d, w) ==
    /\ refs' = [refs EXCEPT ![d] = w.refs]
    /\ wakeFault' = w.fault
    /\ control' = [control EXCEPT ![d] = w.control]
    /\ ack' = [ack EXCEPT ![d] = w.ack]
    /\ UNCHANGED attached

\* write32() of the kernel bit: [w, ok].
Written(w, who) ==
    {[w |-> [w EXCEPT !.control = who], ok |-> TRUE],
     [w |-> [w EXCEPT !.control = who], ok |-> FALSE], [w |-> w, ok |-> FALSE]}

\* wait(): Ok on the level looked for, which the hardware may reach meanwhile;
\* otherwise a failed read, a time-out or a clock that ran back.
Waited(w, awake) ==
    LET settled == [w EXCEPT !.ack = Asked(w.control)]
    IN  {[w |-> v, ok |-> FALSE] : v \in {w, settled}} \cup
        {[w |-> v, ok |-> TRUE] : v \in {v \in {w, settled} : v.ack = awake}}

Faulted(w) == [w EXCEPT !.fault = TRUE]

\* Faulty variant: a request that was not acknowledged is left standing.
WithdrawnNot(w) == {w}

\* acquire() that waited in vain: the request is withdrawn, and a fault is
\* recorded unless the withdrawal is confirmed.
Withdrawn(w) ==
    UNION {IF ~x.ok THEN {Faulted(x.w)}
           ELSE {IF y.ok THEN y.w ELSE Faulted(y.w) : y \in Waited(x.w, FALSE)} :
              x \in Written(w, "nobody")}

\* acquire() of a domain that was not held: a bit that somebody else set is
\* not adopted.
FirstAcquired(w) ==
    {w} \cup
    (IF w.ack THEN {}
     ELSE UNION {IF ~x.ok THEN {Faulted(x.w)}
                 ELSE UNION {IF y.ok THEN {[y.w EXCEPT !.refs = 1]} ELSE Withdrawn(y.w) :
                                y \in Waited(x.w, TRUE)} :
                    x \in Written(w, "driver")})

Acquire(d) ==
    /\ attached /\ ~wakeFault
    /\ d = Render => refs[Gt] # 0
    /\ refs[d] # MaxRefs
    /\ IF refs[d] # 0 THEN WakeBecomes(d, [Wake(d) EXCEPT !.refs = @ + 1])
       ELSE \E w \in FirstAcquired(Wake(d)) : WakeBecomes(d, w)

\* The last release(): the count goes only when sleep is confirmed.
LastReleased(w) ==
    UNION {IF ~x.ok THEN {Faulted(x.w)}
           ELSE {IF y.ok THEN [y.w EXCEPT !.refs = 0] ELSE Faulted(y.w) :
                    y \in Waited(x.w, FALSE)} : x \in Written(w, "nobody")}

Release(d) ==
    /\ attached /\ ~wakeFault
    /\ refs[d] # 0
    /\ d = Gt /\ refs[Gt] = 1 => refs[Render] = 0
    /\ IF refs[d] > 1 THEN WakeBecomes(d, [Wake(d) EXCEPT !.refs = @ - 1])
       ELSE \E w \in LastReleased(Wake(d)) : WakeBecomes(d, w)

\* IOKitMmio::attach() with initialize() Ok; otherwise it leaves no mapping.
AttachMmio ==
    /\ ~attached /\ attached' = TRUE
    /\ UNCHANGED <<refs, wakeFault, control, ack>>

CanDetach == ~wakeFault /\ \A d \in Domains : refs[d] = 0

\* IOKitMmio::detach() and shutdown().
DetachMmio ==
    /\ attached /\ CanDetach /\ attached' = FALSE
    /\ UNCHANGED <<refs, wakeFault, control, ack>>

\* Between calls the hardware catches up, and the other owner lets go.
Settles(d) ==
    /\ ack' = [ack EXCEPT ![d] = Asked(control[d])]
    /\ UNCHANGED <<attached, refs, wakeFault, control>>

OtherReleases(d) ==
    /\ control[d] = "other" /\ control' = [control EXCEPT ![d] = "nobody"]
    /\ UNCHANGED <<attached, refs, wakeFault, ack>>

WakeNext ==
    \/ \E d \in Domains : Acquire(d) \/ Release(d) \/ Settles(d) \/ OtherReleases(d)
    \/ AttachMmio \/ DetachMmio

WakeSpec == WakeInit /\ [][WakeNext]_wakeVars

-----------------------------------------------------------------------------
\* A domain that the driver reports as held was requested by the driver and is
\* awake, and render only inside GT; a mapping that was given up left no
\* request of the driver behind, whatever write or wait failed before.
WakeIsOwned ==
    /\ \A d \in Domains : attached /\ ~wakeFault /\ refs[d] # 0 =>
          control[d] = "driver" /\ ack[d] /\ refs[Gt] # 0
    /\ ~attached => \A d \in Domains : control[d] # "driver"
==============================================================================
