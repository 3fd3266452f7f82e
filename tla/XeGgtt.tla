------------------------------- MODULE XeGgtt -------------------------------
(***************************************************************************)
(* XeGgtt::Manager (Mellow/XeGgtt.cpp): the owner of ranges of the GPU's   *)
(* global page table.  It reserves address ranges, publishes translations  *)
(* of pinned backing in them and takes them back.  Any access to the table *)
(* may fail, and a failed write may have taken effect or have left an      *)
(* entry that is neither the old nor the new one.                          *)
(*                                                                         *)
(* A call makes many table accesses, each of which can fail, and is itself *)
(* a step of a call of XeGuCRegionOwner.  So an operation is an operator   *)
(* from a table to the set of its outcomes, one for each way the accesses  *)
(* can end: [t |-> table after it, ok or status |-> the answer].  Every     *)
(* callback (admission, PAT, quiescence, backing) may refuse at any time,  *)
(* and none is relied on to know what the GuC is doing.                    *)
(***************************************************************************)
EXTENDS Integers, Sequences, FiniteSets, FiniteSetsExt

CONSTANTS
    MaxMappings,    \* size of slots_
    MaxSerial,      \* largest generation; the serial then wraps to zero
    MaxPage,        \* the table has the pages 0 .. MaxPage
    Ranges          \* the granted ranges_, as [first, pages]

ASSUME GgttAssumption ==
    /\ {MaxMappings, MaxSerial, MaxPage} \subseteq Nat \ {0}
    /\ Ranges \in Seq([first : 0 .. MaxPage, pages : 1 .. MaxPage + 1])

VARIABLES
    mappings,       \* slots_: m, held, touched, cleared
    serial,         \* serial_
    shut,           \* closed_
    \* the hardware and the owner of the backing:
    pte,            \* what each entry of the table translates to
    stale,          \* backings whose removed translations may still be cached
    lent            \* backings retained by retainBacking and not yet released

ggttVars == <<mappings, serial, shut, pte, stale, lent>>

Pages == 0 .. MaxPage
MappingIds == 1 .. MaxMappings
Succ(n) == (n + 1) % (MaxSerial + 1)

\* An entry is empty, a backing, or something this manager has not written.
NoEntry == 0
Other == -1

Unmapped == [state |-> "Free", generation |-> 0, first |-> 0, pages |-> 0,
             backing |-> 0, users |-> 0,
             held |-> FALSE, touched |-> FALSE, cleared |-> FALSE]

Granted == UNION {r.first .. r.first + r.pages - 1 : r \in {Ranges[i] : i \in DOMAIN Ranges}}

\* initialize(): nobody may write outside the grants, and a granted page may
\* still carry an entry of the firmware.
GgttInit ==
    /\ mappings = [i \in MappingIds |-> Unmapped]
    /\ serial = 1 /\ shut = FALSE
    /\ pte \in [Pages -> {NoEntry, Other}]
    /\ \A p \in Pages \ Granted : pte[p] = Other
    /\ stale = {} /\ lent = {}

Table == [slots |-> mappings, serial |-> serial, pte |-> pte,
          stale |-> stale, lent |-> lent]

TableBecomes(t) ==
    /\ mappings' = t.slots /\ serial' = t.serial
    /\ pte' = t.pte /\ stale' = t.stale /\ lent' = t.lent

Span(s) == s.first .. s.first + s.pages - 1
Used(t) == {i \in MappingIds : t.slots[i].state # "Free"}
Holding(t, p) == {i \in Used(t) : p \in Span(t.slots[i])}

-----------------------------------------------------------------------------
AlignUp(p, a) == ((p + a - 1) \div a) * a

\* One pass over slots_: past the furthest record that overlaps n pages at p.
Skip(t, p, n, a) ==
    Max({p} \cup {AlignUp(t.slots[i].first + t.slots[i].pages, a) :
                     i \in UNION {Holding(t, x) : x \in p .. p + n - 1}})

\* Where the search in range r ends, after MaxMappings passes.
Settled(t, r, n, a) ==
    LET at[k \in 0 .. MaxMappings] ==
            IF k = 0 THEN AlignUp(r.first, a) ELSE Skip(t, at[k - 1], n, a)
    IN  at[MaxMappings]

Fits(t, r, n, a) ==
    LET at == Settled(t, r, n, a)
    IN  at + n <= r.first + r.pages /\ Skip(t, at, n, a) = at

\* insert(): the first free record takes n pages at p.
Insert(t, p, n) ==
    IF t.serial = 0 \/ Used(t) = MappingIds THEN {}
    ELSE LET i == Min(MappingIds \ Used(t))
         IN  {[t |-> [t EXCEPT !.slots[i] = [Unmapped EXCEPT !.state = "Reserved",
                          !.generation = t.serial, !.first = p, !.pages = n],
                               !.serial = Succ(@)],
               slot |-> i]}

\* The successful outcomes of reserve(): at most one, and none without space.
Reserve(t, n, a) ==
    LET R == {i \in DOMAIN Ranges : Fits(t, Ranges[i], n, a)}
    IN  IF R = {} THEN {} ELSE Insert(t, Settled(t, Ranges[Min(R)], n, a), n)

-----------------------------------------------------------------------------
\* The table after value was written to the first n pages of s.  What was
\* translated there before may stay cached until an invalidation.
Written(t, s, n, value) ==
    LET P == s.first .. s.first + n - 1
    IN  [t EXCEPT !.pte = [p \in Pages |-> IF p \in P THEN value ELSE @[p]],
                  !.stale = @ \cup ({t.pte[p] : p \in P} \ {NoEntry, Other, value})]

\* A loop of writes that ended after n pages: the access to the next page
\* failed, and may have changed it.
WriteStops(t, s, value) ==
    UNION {LET u == Written(t, s, n, value)
           IN  {u} \cup IF n = s.pages THEN {}
                        ELSE {Written(u, [s EXCEPT !.first = @ + n], 1, v) : v \in {value, Other}}
          : n \in 0 .. s.pages}

\* Faulty variant: nothing is invalidated.
FlushedNot(t) == t

\* A successful invalidate() drops every cached translation.
Flushed(t) == [t EXCEPT !.stale = {}]

Mine(t, s) == s.backing \in t.lent

\* Faulty variant: a range that was cleared in part is not recognised.
OnlyOursAll(t, s) == \A p \in Span(s) : t.pte[p] = s.backing

\* verify() for clearing: no entry of the range is anybody else's.
OnlyOurs(t, s) == \A p \in Span(s) : t.pte[p] \in {NoEntry, s.backing}

Clearable(t, s) == Mine(t, s) /\ OnlyOurs(t, s)

\* The tables in which teardown() of i has the range cleared, proven empty
\* and invalidated, if it had been written at all.
Cleared(t, i) ==
    LET s == t.slots[i]
    IN  IF ~s.touched \/ s.cleared THEN {t}
        ELSE IF Clearable(t, s)
        THEN {[Flushed(Written(t, s, s.pages, NoEntry)) EXCEPT !.slots[i].cleared = TRUE]}
        ELSE {}

\* The tables in which teardown() gave up while clearing.
HalfCleared(t, i) ==
    LET s == t.slots[i]
    IN  IF s.touched /\ ~s.cleared /\ Clearable(t, s)
        THEN WriteStops(t, s, NoEntry) \cup {Flushed(Written(t, s, s.pages, NoEntry))}
        ELSE {}

\* teardown(): nothing is freed while a user is left.
Teardown(t, i) ==
    LET s == t.slots[i]
        Freed(u) == [u EXCEPT !.slots[i] = Unmapped, !.lent = @ \ {s.backing}]
        Gone == IF s.users # 0 THEN {} ELSE Cleared(t, i)
        Stuck == IF s.users # 0 THEN {} ELSE HalfCleared(t, i)
    IN  {[t |-> Freed(u), ok |-> TRUE] : u \in {v \in Gone : ~s.held \/ Mine(v, s)}}
        \cup {[t |-> u, ok |-> FALSE] : u \in {t} \cup Stuck \cup IF s.held THEN Gone ELSE {}}

Quarantined(t, i) == [t EXCEPT !.slots[i].state = "Quarantined"]

\* Faulty variant: whatever is found in the range is overwritten.
EmptyAssumed(t, i) == TRUE

\* No page of the range carries an entry, not even of the firmware.
FoundEmpty(t, i) == \A p \in Span(t.slots[i]) : t.pte[p] = NoEntry

\* publish() of backing b in the reservation i.
Publish(t, i, b) ==
    LET held == Quarantined([t EXCEPT !.slots[i].backing = b, !.slots[i].held = TRUE,
                                      !.lent = @ \cup {b}], i)
        touched == [held EXCEPT !.slots[i].touched = TRUE]
        all == Written(touched, touched.slots[i], touched.slots[i].pages, b)
        Undone(u, status) == {[t |-> o.t, status |-> IF o.ok THEN status ELSE "Quarantined"]
                                 : o \in Teardown(u, i)}
    IN  {[t |-> t, status |-> "Unavailable"]}             \* no PAT, or not retained
        \cup Undone(held, "Invalid")                      \* the backing is not valid
        \cup {[t |-> held, status |-> "Quarantined"]}     \* a page is unread or not empty
        \cup IF ~FoundEmpty(held, i) THEN {}
             ELSE UNION {Undone(u, "Io") : u \in WriteStops(touched, touched.slots[i], b)
                                                   \cup {Flushed(all)}}
                  \cup {[t |-> [Flushed(all) EXCEPT !.slots[i].state = "Published"],
                         status |-> "Ok"]}

\* published(): a mapping that cannot be read back as it was written, or is
\* no longer admitted, is quarantined.
Published(t, i, b) ==
    IF t.slots[i].state # "Published" THEN {[t |-> t, ok |-> FALSE]}
    ELSE {[t |-> Quarantined(t, i), ok |-> FALSE]}
         \cup IF /\ t.slots[i].backing = b /\ Mine(t, t.slots[i])
                 /\ \A p \in Span(t.slots[i]) : t.pte[p] = b
              THEN {[t |-> t, ok |-> TRUE]} ELSE {}

\* retain() after a successful published(), and release().
Retain(t, i, b) ==
    {[o EXCEPT !.t.slots[i].users = IF o.ok THEN @ + 1 ELSE @] : o \in Published(t, i, b)}

Release(t, i) ==
    {[t |-> t, ok |-> FALSE]}
    \cup IF t.slots[i].users = 0 THEN {}
         ELSE {[t |-> [t EXCEPT !.slots[i].users = @ - 1], ok |-> TRUE]}

\* retire(): a reservation whose contents were never ours is never freed.
Unknown(s) == s.state = "Quarantined" /\ s.held /\ ~s.touched

Retire(t, i) ==
    IF t.slots[i].users # 0 THEN {[t |-> t, ok |-> FALSE]}
    ELSE {[t |-> Quarantined(t, i), ok |-> FALSE]}
         \cup IF Unknown(t.slots[i]) THEN {[t |-> t, ok |-> FALSE]}
              ELSE Teardown(Quarantined(t, i), i)
=============================================================================
