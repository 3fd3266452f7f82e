---------------------------- MODULE XeGuCFirmware ----------------------------
(***************************************************************************)
(* XeGuCFirmware::Loader (Mellow/XeGuCFirmware.cpp) over the region owner: *)
(* it retains the regions of a boot plan, resets the GuC, fills the shared *)
(* regions, starts the firmware and, later, resets the GuC and gives the   *)
(* regions back.  From the write that starts the DMA until a confirmed     *)
(* reset the GuC may access every region of the plan.  A call holds the    *)
(* lock all owners share, so it is one action; its outcomes are the ways   *)
(* its register accesses, waits and callbacks can end.                     *)
(***************************************************************************)
EXTENDS XeGuCRegionOwner

CONSTANT PlanSize       \* regions of a Plan: firmware first, then those the CPU fills

ASSUME PlanAssumption == PlanSize \in 1 .. MaxRegions

VARIABLES
    stage,          \* state_
    attempted,      \* attempted_
    touched,        \* touchedHardware_
    plan,           \* plan_: the regions, as generations
    held,           \* held_
    reach           \* regions the GuC may access

loaderVars == <<stage, attempted, touched, plan, held, reach>>
bootVars == <<regionVars, loaderVars>>

BootInit ==
    /\ RegionInit
    /\ stage = "Idle" /\ attempted = FALSE /\ touched = FALSE
    /\ plan = <<>> /\ held = 0 /\ reach = {}

\* find(): the record of a region that is still reserved, if any.
Found(w, g) == {r \in InUse(w) : w.regions[r].reserved /\ w.regions[r].generation = g}

\* A callback of the owner on the region g; it fails for a region it does not know.
On(w, g, Callback(_, _)) ==
    IF Found(w, g) = {} THEN {[w |-> w, ok |-> FALSE]}
    ELSE UNION {Callback(w, r) : r \in Found(w, g)}

\* The outcomes of a callback for every region of the plan p.
ForPlan(S, p, Callback(_, _)) ==
    Each(S, PlanSize, LAMBDA o, k : On(o.w, p[k], Callback))

-----------------------------------------------------------------------------
\* releaseRegions() of the first n regions of p, latest first: the outcomes
\* with the number of regions left.
ReleaseRegions(w, p, n) ==
    Each({[w |-> w, left |-> n, ok |-> TRUE]}, n,
         LAMBDA o, k : {[w |-> f.w, left |-> IF f.ok THEN o.left - 1 ELSE o.left, ok |-> f.ok]
                           : f \in On(o.w, p[o.left], ReleaseRegion)})

\* fail() with n regions held.  Faulty variant: the regions are given back
\* even if a register was written.
FailReleasing(w, p, n, wrote) ==
    {[w |-> o.w, held |-> o.left, stage |-> "Failed", touched |-> wrote] : o \in ReleaseRegions(w, p, n)}
Fail(w, p, n, wrote) ==
    IF wrote THEN {[w |-> w, held |-> n, stage |-> "Failed", touched |-> TRUE]}
    ELSE {[w |-> o.w, held |-> o.left, stage |-> "Failed", touched |-> FALSE]
             : o \in ReleaseRegions(w, p, n)}

LoaderBecomes(e) ==
    /\ WorldBecomes(e.w)
    /\ held' = e.held /\ stage' = e.stage /\ touched' = e.touched
    /\ UNCHANGED <<shut, regionSerial, closed>>

\* The retaining loop of start().
Retained(p) ==
    Each({[w |-> World, held |-> 0, ok |-> TRUE]}, PlanSize,
         LAMBDA o, k : {[w |-> f.w, held |-> IF f.ok THEN k ELSE k - 1, ok |-> f.ok]
                           : f \in On(o.w, p[k], RetainRegion)})

\* The worlds in which start() may write its first register: everything is
\* retained and every mapping was read back once more.
Checked(p) == ForPlan({o \in Retained(p) : o.ok}, p, Fresh)

\* start() gives up before it wrote a register: on a retain, the firmware
\* image, a mapping, or the permission to reset.
StartRefused(p) ==
    UNION {Fail(o.w, p, o.held, FALSE) : o \in Retained(p)}
    \cup UNION {Fail(o.w, p, PlanSize, FALSE) : o \in Checked(p)}

\* The regions that are filled by the CPU after the reset.
Filled(w, p, n) == [w EXCEPT !.dirty = @ \cup {p[k] : k \in 2 .. n}]

Synchronized(w, p) == ForPlan({[w |-> w, ok |-> TRUE]}, p, SynchronizeRegion)

\* start() after the first register write, up to the one that starts the DMA:
\* a failed reset or layout, a failed synchronization, a failed write.
StartAbandoned(p) ==
    LET C == {o.w : o \in {x \in Checked(p) : x.ok}}
    IN  UNION {Fail(w, p, PlanSize, TRUE)
              : w \in UNION {{Filled(c, p, n) : n \in 1 .. PlanSize} : c \in C}
                      \cup UNION {{o.w : o \in Synchronized(Filled(c, p, PlanSize), p)} : c \in C}}

\* start() past that write: the GuC runs on the plan, whether or not the write
\* was confirmed, the DMA finished in time and the firmware authenticated.
StartLaunched(p) ==
    UNION {Fail(o.w, p, PlanSize, TRUE)
           \cup {[w |-> o.w, held |-> PlanSize, stage |-> "Running", touched |-> TRUE]}
          : o \in {x \in UNION {Synchronized(Filled(c.w, p, PlanSize), p)
                               : c \in {y \in Checked(p) : y.ok}} : x.ok}}

Plans == {p \in [1 .. PlanSize -> 1 .. MaxSerial] :
             \A j, k \in 1 .. PlanSize : p[j] = p[k] => j = k}

\* start(): the caller has exported the regions before, and may have retired
\* them since.
Start(p) ==
    /\ ~attempted /\ ~closed
    /\ \A k \in 1 .. PlanSize : p[k] < regionSerial \/ regionSerial = 0
    /\ attempted' = TRUE /\ plan' = p
    /\ \/ \E e \in StartRefused(p) \cup StartAbandoned(p) :
             LoaderBecomes(e) /\ UNCHANGED reach
       \/ \E e \in StartLaunched(p) :
             LoaderBecomes(e) /\ reach' = {p[k] : k \in 1 .. PlanSize}

\* reset() inside resetAndRelease() fails, and may have stopped the GuC.
ResetFailed ==
    /\ attempted /\ held # 0 /\ ~closed /\ touched
    /\ \E e \in Fail(World, plan, held, TRUE) : LoaderBecomes(e)
    /\ reach' \in {reach, {}}
    /\ UNCHANGED <<attempted, plan>>

\* resetAndRelease(): nothing is given back before a confirmed reset.
ResetAndRelease ==
    /\ attempted /\ held # 0 /\ ~closed
    /\ reach' = IF touched THEN {} ELSE reach
    /\ \E o \in ReleaseRegions(World, plan, held) :
          LoaderBecomes([w |-> o.w, held |-> o.left, stage |-> "Failed", touched |-> touched])
    /\ UNCHANGED <<attempted, plan>>

BootNext ==
    \/ /\ \/ \E n \in RegionSizes : Allocate(n)
          \/ \E r \in RegionIds : Write(r) \/ Export(r) \/ RetireRegion(r)
          \/ Close
       /\ UNCHANGED loaderVars
    \/ \E p \in Plans : Start(p)
    \/ ResetFailed
    \/ ResetAndRelease

BootSpec == BootInit /\ [][BootNext]_bootVars

-----------------------------------------------------------------------------
\* An entry that publish() did not write is never changed: neither one of the
\* firmware found in a granted range, nor one next to the grants, nor one a
\* failed write has left behind.
ForeignKept == [][\A p \in Pages : pte[p] = Other => pte'[p] = Other]_bootVars

\* Whatever the table translates to, or a cache may still translate to, is
\* pinned, through every failure while publishing, clearing, invalidating and
\* unpinning, and every retry of them.
TranslatedIsPinned ==
    \A g \in 1 .. MaxSerial : (g \in stale \/ \E p \in Pages : pte[p] = g) => g \in pins

\* Owner and table agree on every region: a reservation the owner believes in
\* exists and no other does, what the table retains is what it holds, the
\* loader's holds are the references are the users, and charged_ is the size
\* of the regions in use.
TablesAgree ==
    LET believed == {r \in RegionIds : regions[r].reserved}
        planned == {plan[k] : k \in 1 .. held}
    IN  /\ Used(Table) = {regions[r].ggtt : r \in believed}
        /\ \A r \in believed :
              LET m == mappings[regions[r].ggtt]
              IN  /\ m.users = regions[r].refs
                  /\ m.held => m.backing = regions[r].generation
        /\ lent = {mappings[i].backing : i \in {j \in MappingIds : mappings[j].held}}
        /\ \A r \in RegionIds : regions[r].refs =
              IF regions[r].state # "Free" /\ regions[r].generation \in planned THEN 1 ELSE 0
        /\ charged = MapThenSumSet(LAMBDA r : regions[r].pages, RegionIds)

\* A region the GuC may access is pinned, is translated on every page, and
\* holds what the CPU has written to it last.  Nothing here relies on
\* consumersQuiesced() knowing about the GuC.
GucSeesRegions ==
    \A g \in reach : g \in pins /\ g \notin dirty /\
        \E r \in RegionIds : regions[r].generation = g /\ regions[r].reserved /\
            \A p \in Span(mappings[regions[r].ggtt]) : pte[p] = g

\* The regions that can never be given back: an uncertain pin, contents that
\* were never known, or an entry the owner did not write.
Lost(r) ==
    \/ regions[r].uncertain
    \/ regions[r].reserved /\
          LET m == mappings[regions[r].ggtt]
          IN  IF m.touched THEN \E p \in Span(m) : pte[p] = Other
              ELSE m.state = "Quarantined" /\ m.held

\* Recovery is never blocked by anything else: once the loader has let go, a
\* close() whose callbacks all succeed gives every region back, whatever
\* failed before and in whichever order slots were reused.
CloseFrees ==
    (held = 0 /\ \A r \in RegionIds : ~Lost(r)) =>
        \E o \in Drained : InUse(o.w) = {} /\ Used(o.w.t) = {} /\ o.w.pins = {}
=============================================================================
