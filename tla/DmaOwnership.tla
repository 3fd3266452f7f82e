---------------------------- MODULE DmaOwnership ----------------------------
(***************************************************************************)
(* What every native GPU owner of this repository promises about DMA       *)
(* memory, with nothing said about queues, fences or page tables: memory   *)
(* is acquired once, the device is only ever given memory that is owned,   *)
(* and memory is given back only when no work of the device can reach it.  *)
(***************************************************************************)
CONSTANTS
    Work,   \* identities of the batches a device executes
    Memory  \* identities of allocations; each is used for one lifetime

VARIABLES
    owned,  \* allocations whose backing the host still owns
    access  \* <<work, memory>> pairs the device may still be using

ownershipVars == <<owned, access>>

Init == owned \subseteq Memory /\ access = {}

\* Backing becomes owned; an identity the device knows of is never reissued.
Acquire(m) ==
    /\ m \in Memory \ owned
    /\ \A w \in Work : <<w, m>> \notin access
    /\ owned' = owned \cup {m}
    /\ UNCHANGED access

\* The device starts on one piece of work, which uses owned memory only.
Start(w) ==
    /\ access \subseteq access'
    /\ access' \ access \subseteq {w} \X owned
    /\ UNCHANGED owned

\* The device is done with some of its work, or backing that no work could
\* reach is given back.
Release ==
    /\ access' \subseteq access
    /\ owned' \subseteq owned
    /\ \A a \in access : a[2] \in owned'

Next == Release \/ \E m \in Memory, w \in Work : Acquire(m) \/ Start(w)

Spec == Init /\ [][Next]_ownershipVars

\* The device never reaches memory the host has given back.
AccessIsOwned == \A w \in Work, m \in Memory : <<w, m>> \in access => m \in owned
=============================================================================
