-------------------------- MODULE XeGuCRegionOwner --------------------------
(***************************************************************************)
(* XeGuCRegions::Owner (Mellow/XeGuCRegionOwner.cpp): memory shared with   *)
(* the GuC.  A region is pinned, mapped in the global table and lent to    *)
(* the firmware loader; every step of giving it back can fail and be       *)
(* retried.  As in XeGgtt, an operation is an operator from the owner's    *)
(* world (its fields, the table and the pins) to the set of its outcomes.  *)
(* Regions are named by their generation, which is also their identity as  *)
(* backing in the table.                                                   *)
(***************************************************************************)
EXTENDS XeGgtt

CONSTANTS
    MaxRegions,     \* size of slots_
    MaxTotalPages,  \* MaxTotalBytes
    RegionSizes     \* bytes of the regions callers allocate, in pages

ASSUME RegionAssumption ==
    MaxRegions \in Nat \ {0} /\ MaxTotalPages \in Nat /\ RegionSizes \subseteq Nat \ {0}

VARIABLES
    regions,        \* slots_: view, bytes, pinOwned, reserved, pinCleanupUncertain
    regionSerial,   \* serial_
    charged,        \* charged_
    draining,       \* draining_
    closed,         \* closed_
    \* behind the callbacks:
    pins,           \* regions whose memory is pinned
    dirty           \* regions with CPU writes the device may not see yet

regionVars == <<ggttVars, regions, regionSerial, charged, draining, closed, pins, dirty>>

RegionIds == 1 .. MaxRegions

NoRegion == [state |-> "Free", generation |-> 0, pages |-> 0, ggtt |-> 0, refs |-> 0,
             pinOwned |-> FALSE, reserved |-> FALSE, uncertain |-> FALSE]

RegionInit ==
    /\ GgttInit
    /\ regions = [r \in RegionIds |-> NoRegion]
    /\ regionSerial = 1 /\ charged = 0 /\ draining = FALSE /\ closed = FALSE
    /\ pins = {} /\ dirty = {}

World == [t |-> Table, regions |-> regions, charged |-> charged,
          draining |-> draining, pins |-> pins, dirty |-> dirty]

WorldBecomes(w) ==
    /\ TableBecomes(w.t) /\ regions' = w.regions /\ charged' = w.charged
    /\ draining' = w.draining /\ pins' = w.pins /\ dirty' = w.dirty

InUse(w) == {r \in RegionIds : w.regions[r].state # "Free"}

\* A loop that takes the outcomes through the steps 1 .. n until one fails.
Each(start, n, Step(_, _)) ==
    LET pass[k \in 0 .. n] ==
            IF k = 0 THEN start
            ELSE UNION {IF o.ok THEN Step(o, k) ELSE {o} : o \in pass[k - 1]}
    IN  pass[n]

-----------------------------------------------------------------------------
Quarantine(w, r) == [w EXCEPT !.regions[r].state = "Quarantined", !.draining = TRUE]

Refused(w, r) == [w |-> Quarantine(w, r), ok |-> FALSE]

\* fresh(): the pin or the published mapping may have become doubtful.
Fresh(w, r) ==
    {Refused(w, r)}
    \cup IF ~w.regions[r].reserved THEN {}
         ELSE {IF o.ok THEN [w |-> [w EXCEPT !.t = o.t], ok |-> TRUE]
                       ELSE Refused([w EXCEPT !.t = o.t], r)
                 : o \in Published(w.t, w.regions[r].ggtt, w.regions[r].generation)}

\* Giving the pin back, once the table is proven not to translate to it.
\* A failed unpin() may have unpinned, but that cannot be found out any more.
Unpin(w, r) ==
    LET g == w.regions[r].generation
        Free(v) == [v EXCEPT !.regions[r] = NoRegion, !.charged = @ - w.regions[r].pages,
                             !.dirty = @ \ {g}]
        unpinned == [w EXCEPT !.pins = @ \ {g}]
    IN  IF g \in w.t.lent \/ w.regions[r].uncertain THEN {Refused(w, r)}
        ELSE IF ~w.regions[r].pinOwned THEN {[w |-> Free(w), ok |-> TRUE]}
        ELSE {[w |-> Free(unpinned), ok |-> TRUE]}
             \cup {Refused([v EXCEPT !.regions[r].uncertain = TRUE], r) : v \in {w, unpinned}}

\* The reservation is taken back first.
TakenBack(w, r) ==
    IF ~w.regions[r].reserved THEN {[w |-> w, ok |-> TRUE]}
    ELSE {IF o.ok THEN [w |-> [w EXCEPT !.t = o.t, !.regions[r].reserved = FALSE], ok |-> TRUE]
                  ELSE Refused([w EXCEPT !.t = o.t], r)
             : o \in Retire(w.t, w.regions[r].ggtt)}

\* cleanup()
Cleanup(w, r) ==
    IF w.regions[r].refs # 0 THEN {[w |-> w, ok |-> FALSE]}
    ELSE {Refused(w, r)}
         \cup UNION {IF o.ok THEN Unpin(o.w, r) ELSE {o} : o \in TakenBack(w, r)}

-----------------------------------------------------------------------------
\* The reservation is forgotten only if publish() says that it was undone,
\* and it is.  Faulty variant: any failure of publish() is taken for that.
UndoneAlways(w, r, status) == TRUE
Undone(w, r, status) ==
    /\ status \in {"Io", "Invalid"}
    /\ w.regions[r].generation \notin w.t.lent
    /\ w.t.slots[w.regions[r].ggtt].state = "Free"

\* allocate() from the publication on.
PublishRegion(w, r) ==
    UNION {LET v == [w EXCEPT !.t = o.t]
           IN  IF o.status = "Ok"
               THEN {IF f.ok THEN [f EXCEPT !.w.regions[r].state = "Published"] ELSE f
                        : f \in Fresh(v, r)}
               ELSE Cleanup([v EXCEPT !.regions[r].reserved = ~Undone(v, r, o.status)], r)
          : o \in Publish(w.t, w.regions[r].ggtt, w.regions[r].generation)}

\* allocate() once the region is pinned: anything from the page list to the
\* reservation may turn out unusable.
MapRegion(w, r) ==
    Cleanup(w, r)
    \cup UNION {PublishRegion([w EXCEPT !.t = o.t, !.regions[r].reserved = TRUE,
                                   !.regions[r].state = "Reserved", !.regions[r].ggtt = o.slot],
                              r)
               : o \in Reserve(w.t, w.regions[r].pages, 1)}

\* pin(): refused, refused with a partial pin, granted without a token, granted.
PinRegion(w, r) ==
    LET g == w.regions[r].generation
        pinned == [w EXCEPT !.pins = @ \cup {g}, !.regions[r].pinOwned = TRUE]
    IN  Cleanup(w, r) \cup Cleanup(pinned, r)
        \cup {Refused([w EXCEPT !.regions[r].uncertain = TRUE], r)}
        \cup MapRegion(pinned, r)

Allocate(n) ==
    /\ ~closed /\ ~draining
    /\ regionSerial # 0 /\ n <= MaxTotalPages - charged /\ InUse(World) # RegionIds
    /\ LET r == Min(RegionIds \ InUse(World))
           w == [World EXCEPT !.regions[r] = [NoRegion EXCEPT !.state = "Pinning",
                                   !.generation = regionSerial, !.pages = n],
                              !.charged = @ + n]
       IN  \E o \in PinRegion(w, r) : WorldBecomes(o.w)
    /\ regionSerial' = Succ(regionSerial)
    /\ UNCHANGED <<shut, closed>>

\* write() is refused while the loader holds the region.
Write(r) ==
    /\ ~closed /\ ~draining /\ regions[r].state = "Published" /\ regions[r].refs = 0
    /\ \E o \in Fresh(World, r) :
          WorldBecomes(IF o.ok THEN [o.w EXCEPT !.dirty = @ \cup {regions[r].generation}] ELSE o.w)
    /\ UNCHANGED <<shut, regionSerial, closed>>

\* region()
Export(r) ==
    /\ ~closed /\ ~draining /\ regions[r].state = "Published"
    /\ \E o \in Fresh(World, r) : WorldBecomes(o.w)
    /\ UNCHANGED <<shut, regionSerial, closed>>

RetireRegion(r) ==
    /\ ~closed /\ regions[r].state # "Free"
    /\ \E o \in Cleanup(World, r) : WorldBecomes(o.w)
    /\ UNCHANGED <<shut, regionSerial, closed>>

\* close(): cleanup() in reverse order of acquisition until one fails, then
\* the manager's close(), which may fail as well.
Latest(w) ==
    CHOOSE r \in InUse(w) : \A s \in InUse(w) : w.regions[s].generation <= w.regions[r].generation

Drained ==
    Each({[w |-> [World EXCEPT !.draining = TRUE], ok |-> TRUE]}, MaxRegions,
         LAMBDA o, k : IF InUse(o.w) = {} THEN {o} ELSE Cleanup(o.w, Latest(o.w)))

Close ==
    /\ ~closed
    /\ \E o \in Drained :
          /\ WorldBecomes(o.w)
          /\ closed' \in {FALSE, InUse(o.w) = {} /\ Used(o.w.t) = {}}
          /\ shut' = closed'
    /\ UNCHANGED regionSerial

-----------------------------------------------------------------------------
\* The loader's callbacks.  retainRegion() is exclusive.
RetainRegion(w, r) ==
    IF w.draining \/ w.regions[r].state # "Published" \/ w.regions[r].refs # 0
    THEN {[w |-> w, ok |-> FALSE]}
    ELSE UNION {IF ~f.ok THEN {f}
                ELSE {[w |-> [f.w EXCEPT !.t = o.t, !.regions[r].refs = IF o.ok THEN 1 ELSE 0],
                       ok |-> o.ok]
                         : o \in Retain(f.w.t, w.regions[r].ggtt, w.regions[r].generation)}
               : f \in Fresh(w, r)}

ReleaseRegion(w, r) ==
    {[w |-> [w EXCEPT !.t = o.t, !.regions[r].refs = IF o.ok THEN @ - 1 ELSE @], ok |-> o.ok]
        : o \in Release(w.t, w.regions[r].ggtt)}

\* synchronizeRegion()
SynchronizeRegion(w, r) ==
    {IF o.ok THEN [o EXCEPT !.w.dirty = @ \ {w.regions[r].generation}] ELSE o : o \in Fresh(w, r)}
    \cup {Refused(o.w, r) : o \in Fresh(w, r)}
=============================================================================
