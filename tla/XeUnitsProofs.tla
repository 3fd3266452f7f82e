---------------------------- MODULE XeUnitsProofs ----------------------------
(***************************************************************************)
(* Three units that share no state: the execution of a job on a context,   *)
(* the GuC mailbox and forcewake.                                          *)
(*                                                                         *)
(* RunIsBacked and CompletionIsReal for every number of allocations of a   *)
(* job, of records, pages and owners, and every bound.  That the GPU uses  *)
(* memory that is still there is not inductive: a client that retires an   *)
(* allocation is stopped by the uses of its record, so the invariant       *)
(* counts, for each record, the handles of the job that are held on it     *)
(* (Counted), and joins the invariant of the memory manager.  That a       *)
(* completion is real needs to know what a reader of the slot could take   *)
(* for the job's sequence (Told) before anything was read.  The calls      *)
(* are functions from a run to the set of its outcomes; the lemmas follow  *)
(* them, from the loops over the handles up to begin(), poll() and         *)
(* close().  The induction over those loops rests on the numbers being     *)
(* well ordered, a hypothesis of the lemmas that the theorems discharge.   *)
(*                                                                         *)
(* AnswerIsOwn for every number of requests, polls and attempts.  It       *)
(* speaks of a poll; the invariant says when no answer is outstanding.     *)
(*                                                                         *)
(* WakeIsOwned for every bound on the reference counts.  The property says *)
(* nothing of a driver that is attached and holds nothing; the invariant   *)
(* does: without a fault the driver requests exactly the domains it counts,*)
(* so a mapping can be given up only with no request left.                 *)
(***************************************************************************)
EXTENDS XeContextExecution, XeMemoryProofs, XeGuCMailbox, XeForceWake

-----------------------------------------------------------------------------
\* Every set of numbers has a least element.
Wellordered == \A T \in SUBSET Nat : T # {} => \E x \in T : \A y \in T : x <= y

\* Induction over the rounds of a loop or the size of a set, for a set of
\* numbers.
LEMMA Inductive ==
    ASSUME Wellordered, NEW T, 0 \in T, \A n \in Nat : n \in T => n + 1 \in T
    PROVE  Nat \subseteq T
<1>1. SUFFICES ASSUME Nat \ T # {} PROVE FALSE
  OBVIOUS
<1>2. PICK x \in Nat \ T : \A y \in Nat \ T : x <= y
  BY <1>1, Zenon DEF Wellordered
<1>3. x # 0 /\ x - 1 \in Nat
  BY <1>2
<1>4. x - 1 \in T
  BY <1>2, <1>3
<1>5. QED
  BY <1>2, <1>3, <1>4

\* A set of at most n elements: the uses of a record bound the holds on it.
AtMost(s, n) == \E f \in [s -> 1 .. n] : \A x, y \in s : f[x] = f[y] => x = y

\* Without uses there are no holds.
LEMMA FitsEmpty == \A s : AtMost(s, 0) => s = {}
<1>1. SUFFICES ASSUME NEW s, AtMost(s, 0), NEW x \in s PROVE FALSE
  OBVIOUS
<1>2. PICK f \in [s -> 1 .. 0] : TRUE
  BY <1>1 DEF AtMost
<1>3. f[x] \in 1 .. 0
  BY <1>1, <1>2
<1>4. QED
  BY <1>3

\* A released hold leaves one use less.
LEMMA FitsLess ==
    ASSUME NEW s, NEW n \in Nat, AtMost(s, n + 1), NEW p \in s
    PROVE  AtMost(s \ {p}, n)
<1>1. PICK f \in [s -> 1 .. n + 1] : \A x, y \in s : f[x] = f[y] => x = y
  BY DEF AtMost
<1> DEFINE g == [x \in s \ {p} |-> IF f[x] = n + 1 THEN f[p] ELSE f[x]]
<1>2. ASSUME NEW x \in s \ {p} PROVE g[x] \in 1 .. n
  <2>1. f[x] \in 1 .. n + 1 /\ f[p] \in 1 .. n + 1 /\ f[x] # f[p]
    BY <1>1, <1>2
  <2>2. QED
    BY <2>1
<1>3. g \in [s \ {p} -> 1 .. n]
  BY <1>2
<1>4. ASSUME NEW x \in s \ {p}, NEW y \in s \ {p}, g[x] = g[y] PROVE x = y
  <2>1. f[x] # f[p] /\ f[y] # f[p] /\ (f[x] = f[y] => x = y)
    BY <1>1
  <2>2. QED
    BY <1>4, <2>1
<1> HIDE DEF g
<1>5. QED
  BY <1>3, <1>4, Zenon DEF AtMost

\* A retained one needs one use more.
LEMMA AtMostAdded == ASSUME NEW S, NEW n \in Nat, AtMost(S, n), NEW p PROVE AtMost(S \cup {p}, n + 1)
<1>1. PICK f \in [S -> 1 .. n] : \A x, y \in S : f[x] = f[y] => x = y
  BY DEF AtMost
<1> DEFINE g == [x \in S \cup {p} |-> IF x \in S THEN f[x] ELSE n + 1]
<1>2. g \in [S \cup {p} -> 1 .. n + 1]
  BY <1>1
<1>3. \A x, y \in S \cup {p} : g[x] = g[y] => x = y
  BY <1>1
<1> HIDE DEF g
<1>4. QED
  BY <1>2, <1>3, Zenon DEF AtMost

\* With nothing held any count will do.
LEMMA AtMostNone == ASSUME NEW n \in Nat PROVE AtMost({}, n)
<1>1. [x \in {} |-> 1] \in [{} -> 1 .. n]
  OBVIOUS
<1>2. QED
  BY <1>1, Zenon DEF AtMost

\* A loop of N rounds over the values R, and its value after each round.
Rounds(N, R) == [(1 .. N) \X R -> R]
Looped(f, N, R, F, r) ==
    f \in [0 .. N -> R] /\ f[0] = r /\ \A i \in 1 .. N : f[i] = F[<<i, f[i - 1]>>]

\* The loops of begin() and releaseVm() over the handles have a result.
LEMMA Iterated ==
    ASSUME Wellordered, NEW N \in Nat, NEW R, NEW F \in Rounds(N, R), NEW r \in R
    PROVE  \E f : Looped(f, N, R, F, r)
<1> USE DEF Rounds
<1> DEFINE Good(n, f) == /\ f \in [0 .. n -> R] /\ f[0] = r
                         /\ \A i \in 1 .. n : f[i] = F[<<i, f[i - 1]>>]
           T == {n \in Nat : n <= N => \E f : Good(n, f)}
<1>1. 0 \in T
  <2>1. Good(0, [i \in 0 .. 0 |-> r])
    OBVIOUS
  <2>2. QED
    BY <2>1
<1>2. \A n \in Nat : n \in T => n + 1 \in T
  <2>a. SUFFICES ASSUME NEW n \in Nat, n \in T PROVE n + 1 \in T
    OBVIOUS
  <2>b. n + 1 \in Nat /\ (n + 1 <= N => n <= N)
    OBVIOUS
  <2>0. SUFFICES ASSUME n + 1 <= N PROVE \E f : Good(n + 1, f)
    BY <2>b, Zenon
  <2>1. PICK f : Good(n, f)
    BY <2>0, <2>a, <2>b, Zenon
  <2>2. <<n + 1, f[n]>> \in (1 .. N) \X R
    BY <2>0, <2>1
  <2> DEFINE g == [i \in 0 .. n + 1 |-> IF i = n + 1 THEN F[<<n + 1, f[n]>>] ELSE f[i]]
  <2>3. g \in [0 .. n + 1 -> R]
    BY <2>1, <2>2
  <2>4. g[0] = r /\ \A i \in 1 .. n + 1 : g[i] = F[<<i, g[i - 1]>>]
    <3>1. g[0] = r /\ g[n + 1] = F[<<n + 1, f[n]>>] /\ \A i \in 0 .. n : g[i] = f[i]
      BY <2>1
    <3>2. \A i \in 1 .. n + 1 : i = n + 1 \/ (i \in 1 .. n /\ i \in 0 .. n /\ i - 1 \in 0 .. n)
      OBVIOUS
    <3>3. (n + 1) - 1 = n /\ n \in 0 .. n
      OBVIOUS
    <3> HIDE DEF g
    <3>4. QED
      BY <2>1, <3>1, <3>2, <3>3, Zenon
  <2>5. Good(n + 1, g)
    BY <2>3, <2>4
  <2>6. QED
    BY <2>5
<1>3. Nat \subseteq T
  <2> HIDE DEF T
  <2>1. QED
    BY <1>1, <1>2, Inductive, Zenon
<1>4. PICK f : Good(N, f)
  BY <1>3
<1>5. QED
  BY <1>4, Zenon DEF Looped

\* Whatever has the first value and takes the rounds of such a loop stays among
\* its values.
LEMMA IterateStays ==
    ASSUME Wellordered, NEW N \in Nat, NEW R, NEW F \in [(1 .. N) \X R -> R],
           NEW g, g[0] \in R, \A i \in 1 .. N : g[i - 1] \in R => g[i] = F[<<i, g[i - 1]>>]
    PROVE  \A i \in 0 .. N : g[i] \in R
<1> DEFINE T == {n \in Nat : n <= N => g[n] \in R}
<1>1. 0 \in T
  OBVIOUS
<1>2. \A n \in Nat : n \in T => n + 1 \in T
  <2>a. SUFFICES ASSUME NEW n \in Nat, n \in T PROVE n + 1 \in T
    OBVIOUS
  <2>0. SUFFICES ASSUME n + 1 <= N PROVE g[n + 1] \in R
    OBVIOUS
  <2>1. g[n] \in R /\ n + 1 \in 1 .. N /\ (n + 1) - 1 = n
    BY <2>0, <2>a
  <2>2. <<n + 1, g[n]>> \in (1 .. N) \X R
    BY <2>1
  <2>3. g[n + 1] = F[<<n + 1, g[n]>>]
    BY <2>1
  <2>4. QED
    BY <2>2, <2>3
<1>3. Nat \subseteq T
  <2> HIDE DEF T
  <2>1. QED
    BY <1>1, <1>2, Inductive, Zenon
<1>4. QED
  BY <1>3

-----------------------------------------------------------------------------
\* The states of an execution, the replies behind its cookies, the fence slot,
\* the fence's record, what the GPU may be doing with the job, and the whole.
States == {"Idle", "Registered", "Enabling", "Running", "Completed", "Failed", "Closed"}
Replies == {"none", "SentUnconfirmed", "Pending", "Success", "Failure", "Retry", "TimedOut"}
Cells == [high : BOOLEAN, low : Nat]
Lines == [held : BOOLEAN, active : BOOLEAN, used : BOOLEAN, published : {0, 1}, observed : {0, 1}]
Gpus == {"off", "queued", "running", "done", "stopped"}
Runs == [state : States, handles : [Indices -> Handle] \cup {NoHandles}, vmHeld : SUBSET Indices,
         contextHeld : BOOLEAN, registration : Replies, enable : Replies, broken : BOOLEAN,
         line : Lines, gpu : Gpus, uses : [Slots -> Nat]]

\* The handles of r that are held on the record s of the memory manager.
HeldOn(r, s) == {i \in r.vmHeld : r.handles[i].slot = s}

\* What vmHeld_ says is held is an allocation of the context's owner, bound or
\* retiring, and its record counts at least those holds.
Counted(r) ==
    /\ r.handles \in [Indices -> Handle]
    /\ \A i \in r.vmHeld : Lookup(ContextOwner, r.handles[i], {"Bound", "Retiring"})
    /\ \A s \in Slots : AtMost(HeldOn(r, s), r.uses[s])

\* What the timeline has seen, or would see, of its sequence is the job's write:
\* a slot that held it before bind() is not published on.
Told(l) == (l.observed # 0 => wrote) /\ (l.published # 0 /\ cell = Raw(FALSE, 1) => wrote)

\* An active timeline has its slot mapped, and has been used.
Lined(l) == (l.held /\ l.active => mount = "mapped") /\ (l.active => l.used) /\ Told(l)

\* What the GPU may use is held: the allocations while the job may run, the
\* context and the fence slot until hardware is known to be quiet.  The job may
\* run until it has made its write.
Guarded(r) ==
    /\ r.gpu \in {"queued", "running"} => r.vmHeld = Indices
    /\ wrote => r.gpu \in {"done", "stopped"}
    /\ ~Quiet(r.gpu) => r.contextHeld /\ r.line.held /\ mount = "mapped"

\* So whatever a call does next, it gives back nothing that is in use.
Safe(r) == r \in Runs /\ Counted(r) /\ Lined(r.line) /\ Guarded(r)

\* What state_ says on top of that: a registered job is ready to be enabled, a
\* completed one has made its write, a closed one left quiet hardware.
Staged(r) ==
    /\ r.state = "Registered" => /\ r.vmHeld = Indices /\ r.contextHeld /\ r.line.held
                                 /\ mount = "mapped" /\ cell = Raw(FALSE, 0) /\ r.gpu = "off"
    /\ r.state = "Completed" => wrote
    /\ r.state = "Closed" => Quiet(r.gpu)

\* Before begin() nothing is held and nothing written.
Unbegun(r) ==
    r \in Runs /\ r.state = "Idle" /\ r.vmHeld = {} /\ r.gpu = "off" /\ ~wrote /\ Lined(r.line)

\* An execution, begun or not.
Sound(r) == Unbegun(r) \/ (r.state # "Idle" /\ Safe(r) /\ Staged(r))

\* The slot and its mapping, and the inductive invariant.
World == cell \in Cells /\ wrote \in BOOLEAN /\ mount \in {"none", "mapped", "unmapped"}
ExecInv == VmInv /\ World /\ Sound(Run)
-----------------------------------------------------------------------------
\* Two runs that hold the same things are equally safe.
LEMMA SafeSame ==
    ASSUME NEW r, NEW q \in Runs, Safe(r), q.handles = r.handles, q.vmHeld = r.vmHeld,
           q.contextHeld = r.contextHeld, q.line = r.line, q.gpu = r.gpu, q.uses = r.uses
    PROVE  Safe(q)
  BY Zenon DEF Safe, Counted, Guarded, HeldOn

\* fail() is always sound: it only changes the state.
LEMMA FailSound == ASSUME NEW r, Safe(r) PROVE Sound(Fail(r)) /\ Safe(Fail(r)) /\ Fail(r).state = "Failed"
<1>1. r \in Runs
  BY DEF Safe
<1>2. /\ Fail(r) \in Runs /\ Fail(r).state = "Failed"
      /\ Fail(r).handles = r.handles /\ Fail(r).vmHeld = r.vmHeld /\ Fail(r).contextHeld = r.contextHeld
      /\ Fail(r).line = r.line /\ Fail(r).gpu = r.gpu /\ Fail(r).uses = r.uses
  BY <1>1, Zenon DEF Fail, Runs, States
<1>3. Safe(Fail(r))
  BY <1>2, SafeSame, Zenon
<1>4. QED
  BY <1>2, <1>3 DEF Sound, Staged

-----------------------------------------------------------------------------
\* All of a run but its holds.
Kept(r, q) ==
    /\ q.state = r.state /\ q.handles = r.handles /\ q.contextHeld = r.contextHeld
    /\ q.registration = r.registration /\ q.enable = r.enable /\ q.broken = r.broken
    /\ q.line = r.line /\ q.gpu = r.gpu

\* What a loop over the handles of r can reach.
Loop(r) == {q \in Runs : Counted(q) /\ Kept(r, q)}

\* One handle released, and one retained.
Let(q, i) == [q EXCEPT !.vmHeld = @ \ {i}, !.uses[q.handles[i].slot] = @ - 1]
Took(q, i) == [q EXCEPT !.vmHeld = @ \cup {i}, !.uses[q.handles[i].slot] = @ + 1]

\* One releaseUse() of releaseVm() gives up a hold and the use that counted it.
LEMMA LetStays ==
    ASSUME NEW r, NEW q \in Loop(r), NEW i \in q.vmHeld, q.uses[q.handles[i].slot] # 0
    PROVE  Let(q, i) \in Loop(r)
<1>1. q \in Runs /\ Counted(q) /\ Kept(r, q)
  BY DEF Loop
<1>2. PICK z \in Slots : z = q.handles[i].slot
  BY <1>1 DEF Runs, Counted, Handle
<1>3. PICK n \in Nat : q.uses[z] = n + 1
  <2>1. q.uses[z] \in Nat /\ q.uses[z] # 0
    BY <1>1, <1>2 DEF Runs
  <2>2. q.uses[z] - 1 \in Nat /\ q.uses[z] = (q.uses[z] - 1) + 1
    BY <2>1
  <2>3. QED
    BY <2>2
<1>4. PICK t : t = Let(q, i)
  OBVIOUS
<1>5. /\ t.vmHeld = q.vmHeld \ {i} /\ t.uses = [q.uses EXCEPT ![z] = @ - 1] /\ Kept(q, t)
      /\ t \in [state : States, handles : [Indices -> Handle] \cup {NoHandles}, vmHeld : {t.vmHeld},
         contextHeld : BOOLEAN, registration : Replies, enable : Replies, broken : BOOLEAN,
         line : Lines, gpu : Gpus, uses : {t.uses}]
  BY <1>1, <1>2, <1>4, Zenon DEF Let, Runs, Kept
<1>6. t.uses \in [Slots -> Nat] /\ t.uses[z] = n /\ \A s \in Slots \ {z} : t.uses[s] = q.uses[s]
  BY <1>1, <1>2, <1>3, <1>5 DEF Runs
<1>7. t \in Runs
  BY <1>1, <1>5, <1>6, Zenon DEF Runs
<1>8. HeldOn(t, z) = HeldOn(q, z) \ {i} /\ i \in HeldOn(q, z)
      /\ \A s \in Slots \ {z} : HeldOn(t, s) = HeldOn(q, s)
  BY <1>2, <1>5, Zenon DEF HeldOn, Kept
<1>9. \A s \in Slots : AtMost(HeldOn(t, s), t.uses[s])
  <2>1. AtMost(HeldOn(t, z), t.uses[z])
    <3>1. AtMost(HeldOn(q, z), n + 1)
      BY <1>1, <1>2, <1>3 DEF Counted
    <3>2. AtMost(HeldOn(q, z) \ {i}, n)
      BY <1>8, <3>1, FitsLess
    <3>3. QED
      BY <1>6, <1>8, <3>2, Zenon
  <2>2. \A s \in Slots \ {z} : AtMost(HeldOn(t, s), t.uses[s])
    BY <1>1, <1>6, <1>8, Zenon DEF Counted
  <2>3. QED
    BY <2>1, <2>2
<1>10. Counted(t)
  BY <1>1, <1>5, <1>9, Zenon DEF Counted, Kept
<1>11. QED
  BY <1>1, <1>4, <1>5, <1>7, <1>10, Zenon DEF Loop, Kept

\* One retainUse() of begin() adds a hold and a use.
LEMMA TookStays ==
    ASSUME NEW r, NEW q \in Loop(r), NEW i \in Indices,
           Lookup(ContextOwner, q.handles[i], {"Bound", "Retiring"})
    PROVE  Took(q, i) \in Loop(r)
<1>1. q \in Runs /\ Counted(q) /\ Kept(r, q)
  BY DEF Loop
<1>2. PICK z \in Slots : z = q.handles[i].slot
  BY <1>1 DEF Counted, Handle
<1>4. PICK t : t = Took(q, i)
  OBVIOUS
<1>5. /\ t.vmHeld = q.vmHeld \cup {i} /\ t.uses = [q.uses EXCEPT ![z] = @ + 1] /\ Kept(q, t)
      /\ t \in [state : States, handles : [Indices -> Handle] \cup {NoHandles}, vmHeld : {t.vmHeld},
         contextHeld : BOOLEAN, registration : Replies, enable : Replies, broken : BOOLEAN,
         line : Lines, gpu : Gpus, uses : {t.uses}]
  BY <1>1, <1>2, <1>4, Zenon DEF Took, Runs, Kept
<1>3. PICK n \in Nat : q.uses[z] = n
  BY <1>1 DEF Runs
<1>6. t.uses \in [Slots -> Nat] /\ t.uses[z] = n + 1 /\ \A s \in Slots \ {z} : t.uses[s] = q.uses[s]
  BY <1>1, <1>2, <1>3, <1>5 DEF Runs
<1>7. t \in Runs
  BY <1>1, <1>5, <1>6, Zenon DEF Runs
<1>8. HeldOn(t, z) = HeldOn(q, z) \cup {i} /\ \A s \in Slots \ {z} : HeldOn(t, s) = HeldOn(q, s)
  BY <1>2, <1>5, Zenon DEF HeldOn, Kept
<1>9. \A s \in Slots : AtMost(HeldOn(t, s), t.uses[s])
  <2>1. AtMost(HeldOn(t, z), t.uses[z])
    <3>1. AtMost(HeldOn(q, z), n)
      BY <1>1, <1>2, <1>3 DEF Counted
    <3>2. AtMost(HeldOn(q, z) \cup {i}, n + 1)
      BY <3>1, AtMostAdded
    <3>3. QED
      BY <1>6, <1>8, <3>2, Zenon
  <2>2. \A s \in Slots \ {z} : AtMost(HeldOn(t, s), t.uses[s])
    BY <1>1, <1>6, <1>8, Zenon DEF Counted
  <2>3. QED
    BY <2>1, <2>2
<1>10. Counted(t)
  BY <1>1, <1>5, <1>9, Zenon DEF Counted, Kept
<1>11. QED
  BY <1>1, <1>4, <1>5, <1>7, <1>10, Zenon DEF Loop, Kept

-----------------------------------------------------------------------------
\* releaseVm() leaves a run in which what is still held is counted.
LEMMA ReleaseStays == ASSUME Wellordered, NEW r, r \in Loop(r) PROVE ReleaseVm(r) \in Loop(r)
<1> DEFINE N == JobHandles
           R == Loop(r)
           Held(q, h) == Lookup(ContextOwner, h, {"Bound", "Retiring"}) /\ q.uses[h.slot] # 0
           Step(j, q) == IF j \in q.vmHeld /\ Held(q, q.handles[j]) THEN Let(q, j) ELSE q
           F == [x \in (1 .. N) \X R |-> Step((N + 1) - x[1], x[2])]
           Body(h) == [i \in 1 .. N + 1 |-> IF i > N THEN r ELSE Step(i, h[i + 1])]
<1>1. N \in Nat /\ N # 0
  BY JobHandlesAssumption
<1>2. \A j, q : q \in R => Step(j, q) \in R
  BY LetStays, Zenon
<1> HIDE DEF Step
<1>3. F \in [(1 .. N) \X R -> R] /\ \A i \in 1 .. N, q \in R : F[<<i, q>>] = Step((N + 1) - i, q)
  BY <1>2
<1> HIDE DEF F, R
<1>4. r \in R
  BY DEF R
<1>5. PICK f \in [0 .. N -> R] : f[0] = r /\ \A i \in 1 .. N : f[i] = F[<<i, f[i - 1]>>]
  <2>1. N \in Nat /\ F \in Rounds(N, R) /\ r \in R
    BY <1>1, <1>3, <1>4 DEF Rounds
  <2>2. QED
    <3>1. PICK f : Looped(f, N, R, F, r)
      BY <2>1, Iterated, Zenon
    <3>2. QED
      BY <3>1, Zenon DEF Looped
<1> DEFINE g == [j \in 1 .. N + 1 |-> f[(N + 1) - j]]
<1>6. g = Body(g)
  <2>1. g[N + 1] = r
    BY <1>1, <1>5
  <2>2. ASSUME NEW j \in 1 .. N PROVE g[j] = Step(j, g[j + 1])
    <3>1. PICK i \in 1 .. N : i = (N + 1) - j /\ i - 1 = (N + 1) - (j + 1) /\ j = (N + 1) - i /\ i - 1 \in 0 .. N
      BY <1>1
    <3>2. g[j] = f[i] /\ g[j + 1] = f[i - 1] /\ f[i - 1] \in R
      BY <1>1, <1>5, <3>1
    <3>3. f[i] = Step((N + 1) - i, f[i - 1])
      BY <1>3, <1>5, <3>2
    <3>4. QED
      BY <3>1, <3>2, <3>3
  <2> HIDE DEF g
  <2>3. \A j \in 1 .. N + 1 : g[j] = IF j > N THEN r ELSE Step(j, g[j + 1])
    <3>1. \A j \in 1 .. N + 1 : j = N + 1 \/ j \in 1 .. N
      BY <1>1
    <3>2. (N + 1) > N /\ \A j \in 1 .. N : ~(j > N)
      BY <1>1
    <3>3. QED
      BY <2>1, <2>2, <3>1, <3>2, Zenon
  <2>4. g = [j \in 1 .. N + 1 |-> g[j]]
    BY DEF g
  <2>5. QED
    BY <2>3, <2>4, Zenon
<1> HIDE DEF g
<1>7. PICK h : h = CHOOSE w : w = Body(w)
  OBVIOUS
<1>8. h = Body(h)
  BY <1>6, <1>7, Zenon
<1>9. ReleaseVm(r) = h[1]
  BY <1>7, Zenon DEF ReleaseVm, Step, Let
<1>10. h[N + 1] = r /\ \A j \in 1 .. N : h[j] = Step(j, h[j + 1])
  BY <1>1, <1>8
<1> DEFINE e == [z \in 0 .. N |-> h[(N + 1) - z]]
<1>11. e[0] = r /\ e[N] = h[1]
  <2>1. (N + 1) - 0 = N + 1 /\ (N + 1) - N = 1 /\ 0 \in 0 .. N /\ N \in 0 .. N
    BY <1>1
  <2>2. QED
    BY <1>10, <2>1
<1>12. ASSUME NEW i \in 1 .. N, e[i - 1] \in R PROVE e[i] = F[<<i, e[i - 1]>>]
  <2>1. PICK j \in 1 .. N : j = (N + 1) - i /\ j + 1 = (N + 1) - (i - 1) /\ i - 1 \in 0 .. N /\ i \in 0 .. N
    BY <1>1
  <2>2. e[i] = h[j] /\ e[i - 1] = h[j + 1]
    BY <2>1
  <2>3. QED
    BY <1>3, <1>10, <1>12, <2>1, <2>2, Zenon
<1> HIDE DEF e
<1>13. \A i \in 0 .. N : e[i] \in R
  BY <1>1, <1>3, <1>4, <1>11, <1>12, IterateStays
<1>14. QED
  BY <1>1, <1>9, <1>11, <1>13 DEF R

\* So does the loop of retainUse() in begin().
LEMMA RetainStays == ASSUME Wellordered, NEW r, r \in Loop(r) PROVE RetainVm(r) \in Loop(r)
<1> DEFINE N == JobHandles
           R == Loop(r)
           Step(j, q) == IF Cardinality(q.vmHeld) = j - 1 /\ Usable(q, q.handles[j]) THEN Took(q, j) ELSE q
           F == [x \in (1 .. N) \X R |-> Step(x[1], x[2])]
           Body(h) == [i \in 0 .. N |-> IF i = 0 THEN r ELSE Step(i, h[i - 1])]
<1>1. N \in Nat /\ N # 0
  BY JobHandlesAssumption
<1>2. \A j \in 1 .. N : \A q \in R : Step(j, q) \in R
  <2>1. SUFFICES ASSUME NEW j \in 1 .. N, NEW q \in R, Usable(q, q.handles[j]) PROVE Took(q, j) \in R
    BY Zenon
  <2>2. Lookup(ContextOwner, q.handles[j], {"Bound", "Retiring"})
    BY <2>1, Zenon DEF Usable, Lookup
  <2>3. QED
    BY <2>2, TookStays, Zenon DEF Indices
<1> HIDE DEF Step
<1>3. F \in [(1 .. N) \X R -> R] /\ \A i \in 1 .. N, q \in R : F[<<i, q>>] = Step(i, q)
  BY <1>2
<1> HIDE DEF F, R
<1>4. r \in R
  BY DEF R
<1>5. PICK f \in [0 .. N -> R] : f[0] = r /\ \A i \in 1 .. N : f[i] = F[<<i, f[i - 1]>>]
  <2>1. N \in Nat /\ F \in Rounds(N, R) /\ r \in R
    BY <1>1, <1>3, <1>4 DEF Rounds
  <2>2. QED
    <3>1. PICK f : Looped(f, N, R, F, r)
      BY <2>1, Iterated, Zenon
    <3>2. QED
      BY <3>1, Zenon DEF Looped
<1>6. f = Body(f)
  <2>1. \A i \in 1 .. N : f[i] = Step(i, f[i - 1])
    <3>1. \A i \in 1 .. N : f[i - 1] \in R
      BY <1>1, <1>5
    <3>2. QED
      BY <1>3, <1>5, <3>1, Zenon
  <2>2. f = [i \in 0 .. N |-> f[i]] /\ \A i \in 0 .. N : i = 0 \/ i \in 1 .. N
    BY <1>1, <1>5
  <2>3. \A i \in 1 .. N : i # 0
    OBVIOUS
  <2>4. \A i \in 0 .. N : f[i] = IF i = 0 THEN r ELSE Step(i, f[i - 1])
    BY <1>5, <2>1, <2>2, <2>3, Zenon
  <2>5. QED
    BY <2>2, <2>4, Zenon
<1>7. PICK h : h = CHOOSE w : w = Body(w)
  OBVIOUS
<1>8. h = Body(h)
  BY <1>6, <1>7, Zenon
<1>9. RetainVm(r) = h[N]
  BY <1>7, Zenon DEF RetainVm, Step, Took
<1>10. h[0] = r /\ \A j \in 1 .. N : h[j] = Step(j, h[j - 1])
  BY <1>1, <1>8
<1>12. ASSUME NEW i \in 1 .. N, h[i - 1] \in R PROVE h[i] = F[<<i, h[i - 1]>>]
  BY <1>3, <1>10, <1>12, Zenon
<1>13. \A i \in 0 .. N : h[i] \in R
  BY <1>1, <1>3, <1>4, <1>10, <1>12, IterateStays
<1>14. QED
  BY <1>1, <1>9, <1>13 DEF R

-----------------------------------------------------------------------------
\* A call that leaves the holds alone only has to guard what the GPU may use.
LEMMA Fields ==
    ASSUME NEW r, NEW q \in Runs, Safe(r), q.handles = r.handles, q.vmHeld = r.vmHeld,
           q.uses = r.uses, Lined(q.line), Guarded(q)
    PROVE  Safe(q)
  BY Zenon DEF Safe, Counted, HeldOn

\* observe() returns what the slot holds, and only of a slot that is there.
LEMMA Observes ==
    ASSUME cell \in Cells, NEW l \in Lines, Lined(l), NEW o \in Observing(l, cell)
    PROVE  /\ o.line \in Lines /\ Lined(o.line) /\ o.line.held = l.held
           /\ o.seen = 0 => cell = Raw(FALSE, 0) /\ l.held /\ mount = "mapped"
           /\ o.seen = 1 => wrote
<1> DEFINE dead == [l EXCEPT !.active = FALSE]
           read == [l EXCEPT !.observed = cell.low]
<1>1. \/ o = [line |-> l, seen |-> Unread]
      \/ o = [line |-> dead, seen |-> Unread]
      \/ l.held /\ l.active /\ Readable(l, cell) /\ o = [line |-> read, seen |-> cell.low]
  BY Zenon DEF Observing
<1>2. cell.low \in Nat /\ Unread # 0 /\ Unread # 1
  BY DEF Cells, Unread
<1>3. dead \in Lines /\ Lined(dead) /\ dead.held = l.held
  BY Zenon DEF Lines, Lined, Told
<1>4. ASSUME l.held, l.active, Readable(l, cell)
      PROVE  /\ read \in Lines /\ Lined(read) /\ read.held = l.held
             /\ cell = Raw(FALSE, cell.low) /\ mount = "mapped" /\ (cell.low = 1 => wrote)
  <2>1. l.published \in {0, 1} /\ cell.low <= l.published /\ ~cell.high
    BY <1>4 DEF Lines, Readable
  <2>2. cell.low \in {0, 1} /\ (cell.low # 0 => l.published # 0 /\ cell.low = 1)
    BY <1>2, <2>1
  <2>3. cell = Raw(FALSE, cell.low)
    <3>1. cell = [high |-> cell.high, low |-> cell.low] /\ cell.high \in BOOLEAN
      BY Zenon DEF Cells
    <3>2. cell.high = FALSE
      BY <2>1, <3>1, Zenon
    <3>3. QED
      BY <3>1, <3>2, Zenon DEF Raw
  <2>4. cell.low # 0 => wrote
    BY <2>2, <2>3, Zenon DEF Lined, Told
  <2>5. read \in Lines /\ read.held = l.held /\ read.active = l.active /\ read.used = l.used
        /\ read.published = l.published /\ read.observed = cell.low
    BY <2>2, Zenon DEF Lines
  <2> HIDE DEF read
  <2>6. Lined(read)
    BY <2>4, <2>5, Zenon DEF Lined, Told
  <2>7. mount = "mapped"
    BY <1>4, Zenon DEF Lined
  <2>8. cell.low = 1 => wrote
    BY <2>4
  <2>9. QED
    BY <2>3, <2>5, <2>6, <2>7, <2>8, Zenon
<1> HIDE DEF dead, read
<1>5. CASE o = [line |-> l, seen |-> Unread] \/ o = [line |-> dead, seen |-> Unread]
  <2>1. o.line \in {l, dead} /\ o.seen = Unread
    BY <1>5
  <2>2. QED
    BY <1>2, <1>3, <2>1, Zenon
<1>6. CASE l.held /\ l.active /\ Readable(l, cell) /\ o = [line |-> read, seen |-> cell.low]
  <2>1. o.line = read /\ o.seen = cell.low
    BY <1>6, Zenon
  <2>2. QED
    BY <1>4, <1>6, <2>1, Zenon
<1>7. QED
  BY <1>1, <1>5, <1>6, Zenon

\* published() succeeds only on a timeline that holds its slot.  The slot read
\* zero before, so nothing is taken for the write that is to come.
LEMMA Publishes ==
    ASSUME NEW l \in Lines, Lined(l), cell = Raw(FALSE, 0), NEW p \in Publishing(l, 1)
    PROVE  /\ p.line \in Lines /\ Lined(p.line) /\ p.line.held = l.held
           /\ p.ok => l.held /\ mount = "mapped"
<1> DEFINE dead == [l EXCEPT !.active = FALSE]
           said == [l EXCEPT !.published = 1]
<1>1. \/ p = [line |-> l, ok |-> FALSE]
      \/ p = [line |-> dead, ok |-> FALSE]
      \/ l.held /\ l.active /\ p = [line |-> said, ok |-> TRUE]
  BY Zenon DEF Publishing
<1>2. cell # Raw(FALSE, 1)
  BY DEF Raw
<1>3. dead \in Lines /\ Lined(dead) /\ dead.held = l.held
  BY Zenon DEF Lines, Lined, Told
<1>4. said \in Lines /\ Lined(said) /\ said.held = l.held
  BY <1>2, Zenon DEF Lines, Lined, Told
<1>5. l.held /\ l.active => mount = "mapped"
  BY Zenon DEF Lined
<1> HIDE DEF dead, said
<1>6. \/ p.line \in {l, dead} /\ ~p.ok
      \/ p.line = said /\ p.ok /\ l.held /\ l.active
  BY <1>1
<1>7. QED
  BY <1>3, <1>4, <1>5, <1>6, Zenon

\* close() of the timeline leaves nothing held when it succeeds.
LEMMA Closes ==
    ASSUME NEW l \in Lines, l.active => l.used, NEW g, NEW c \in Closing(l, g)
    PROVE  /\ c.line \in Lines /\ (c.line.active => c.line.used) /\ (c.ok => ~c.line.held)
           /\ c.line.held /\ c.line.active => l.held /\ l.active
           /\ ~Quiet(g) \/ ~c.ok => c.line.held = l.held
           /\ c.line.published = l.published /\ c.line.observed = l.observed
<1> DEFINE dead == [l EXCEPT !.active = FALSE]
           free == [l EXCEPT !.active = FALSE, !.held = FALSE]
<1>1. \/ ~l.held /\ c = [line |-> l, ok |-> TRUE]
      \/ c = [line |-> dead, ok |-> FALSE]
      \/ Quiet(g) /\ c = [line |-> free, ok |-> TRUE]
  BY Zenon DEF Closing, Releasable
<1>2. /\ dead \in Lines /\ ~dead.active /\ dead.held = l.held
      /\ dead.published = l.published /\ dead.observed = l.observed
  BY Zenon DEF Lines
<1>3. /\ free \in Lines /\ ~free.active /\ ~free.held
      /\ free.published = l.published /\ free.observed = l.observed
  BY Zenon DEF Lines
<1> HIDE DEF dead, free
<1>4. \/ ~l.held /\ c.line = l /\ c.ok
      \/ c.line = dead /\ ~c.ok
      \/ Quiet(g) /\ c.line = free /\ c.ok
  BY <1>1
<1>5. QED
  BY <1>2, <1>3, <1>4, Zenon

\* A run with another record of its fence.
Reline(r, l) == [r EXCEPT !.line = l]

\* A run whose timeline was read, published or closed.
LEMMA Relined ==
    ASSUME NEW r, Safe(r), NEW l \in Lines, Lined(l), l.held = r.line.held \/ Quiet(r.gpu),
           NEW q, q = Reline(r, l)
    PROVE  /\ Safe(q) /\ q.line = l /\ q.state = r.state /\ q.vmHeld = r.vmHeld /\ q.gpu = r.gpu
           /\ q.contextHeld = r.contextHeld /\ q.enable = r.enable /\ q.broken = r.broken
<1>1. r \in Runs /\ Guarded(r)
  BY DEF Safe
<1>2. /\ q \in Runs /\ q.state = r.state /\ q.handles = r.handles /\ q.vmHeld = r.vmHeld
      /\ q.contextHeld = r.contextHeld /\ q.line = l /\ q.gpu = r.gpu /\ q.uses = r.uses
      /\ q.enable = r.enable /\ q.broken = r.broken
  BY <1>1, Zenon DEF Runs, Reline
<1>3. Guarded(q)
  <2>1. Quiet(r.gpu) => r.gpu \notin {"queued", "running"}
    BY DEF Quiet
  <2>2. QED
    BY <1>1, <1>2, <2>1, Zenon DEF Guarded
<1>4. QED
  BY <1>2, <1>3, Fields, Zenon

\* releaseVm() once the job has ended or hardware is quiet.
LEMMA Releases ==
    ASSUME Wellordered, NEW r, Safe(r), r.gpu \notin {"queued", "running"}, NEW q, q = ReleaseVm(r)
    PROVE  Safe(q) /\ Kept(r, q)
<1>1. r \in Runs /\ Counted(r) /\ Lined(r.line) /\ Guarded(r)
  BY DEF Safe
<1>2. r \in Loop(r)
  BY <1>1, Zenon DEF Loop, Kept
<1>3. q \in Runs /\ Counted(q) /\ Kept(r, q)
  BY <1>2, ReleaseStays, Zenon DEF Loop
<1>4. Lined(q.line) /\ Guarded(q)
  BY <1>1, <1>3, Zenon DEF Kept, Guarded
<1>5. QED
  BY <1>3, <1>4, Zenon DEF Safe

-----------------------------------------------------------------------------
\* A job on its way.
Busy(r) == Safe(r) /\ r.state \in {"Enabling", "Running", "Failed"}

\* Such a job is sound in whichever of these states poll() leaves it.
LEMMA BusySound == ASSUME NEW r, Busy(r) PROVE Sound(r)
  BY DEF Busy, Sound, Staged

\* The end of poll() completes a job only after its write.
LEMMA FencedSound ==
    ASSUME Wellordered, cell \in Cells, NEW r, Busy(r), NEW q \in Fenced(r)
    PROVE  Sound(q)
<1>1. Safe(r) /\ r \in Runs /\ r.line \in Lines /\ Lined(r.line) /\ Guarded(r)
  BY Zenon DEF Busy, Safe, Runs
<1>2. PICK o \in Observing(r.line, cell) :
          q \in LET m == [r EXCEPT !.line = o.line]
                    released == [ReleaseVm(m) EXCEPT !.state = "Completed"]
                IN  IF o.seen = Unread THEN {Fail(m)}
                    ELSE IF JobDone(m, o.seen)
                         THEN {IF released.vmHeld = {} THEN released ELSE Fail(released)}
                         ELSE Late(m)
  BY Zenon DEF Fenced
<1>3. PICK m : m = [r EXCEPT !.line = o.line]
  OBVIOUS
<1>4. PICK d : d = ReleaseVm(m)
  OBVIOUS
<1>5. PICK e : e = [d EXCEPT !.state = "Completed"]
  OBVIOUS
<1>6. \/ q = Fail(m) \/ q = m
      \/ o.seen = 1 /\ (q = e \/ q = Fail(e))
  BY <1>2, <1>3, <1>4, <1>5, Zenon DEF Late, JobDone
<1>7. Safe(m) /\ m.gpu = r.gpu /\ m.state = r.state
  <2>1. o.line \in Lines /\ Lined(o.line) /\ o.line.held = r.line.held
    BY <1>1, Observes, Zenon
  <2>2. m = Reline(r, o.line)
    BY <1>3 DEF Reline
  <2>3. QED
    BY <1>1, <2>1, <2>2, Relined
<1>8. Sound(Fail(m)) /\ Sound(m)
  BY <1>7, FailSound, BusySound, Zenon DEF Busy
<1>9. ASSUME o.seen = 1 PROVE Sound(e) /\ Sound(Fail(e))
  <2>1. wrote
    BY <1>1, <1>9, Observes, Zenon
  <2>2. m.gpu \notin {"queued", "running"}
    BY <1>1, <1>7, <2>1 DEF Guarded
  <2>3. Safe(d) /\ Kept(m, d)
    BY <1>4, <1>7, <2>2, Releases, Zenon
  <2>4. d \in Runs
    BY <2>3 DEF Safe
  <2>5. /\ e \in Runs /\ e.state = "Completed"
        /\ e.handles = d.handles /\ e.vmHeld = d.vmHeld /\ e.contextHeld = d.contextHeld
        /\ e.line = d.line /\ e.gpu = d.gpu /\ e.uses = d.uses
    BY <1>5, <2>4, Zenon DEF Runs, States
  <2>6. Safe(e)
    BY <2>3, <2>5, SafeSame, Zenon
  <2>7. Staged(e) /\ e.state # "Idle"
    BY <2>1, <2>5 DEF Staged
  <2>8. QED
    BY <2>6, <2>7, FailSound, Zenon DEF Sound
<1>10. QED
  BY <1>6, <1>8, <1>9, Zenon

\* So does poll() with the replies at hand.
LEMMA RepliedSound ==
    ASSUME Wellordered, cell \in Cells, NEW r, Busy(r), NEW q \in Replied(r)
    PROVE  Sound(q)
<1>1. Safe(r) /\ r \in Runs
  BY DEF Busy, Safe
<1>2. PICK m : m = [r EXCEPT !.state = "Running"]
  OBVIOUS
<1>3. q = Fail(r) \/ q \in Fenced(r) \/ q \in Fenced(m)
  BY <1>2, Zenon DEF Replied
<1>4. /\ m \in Runs /\ m.state = "Running"
      /\ m.handles = r.handles /\ m.vmHeld = r.vmHeld /\ m.contextHeld = r.contextHeld
      /\ m.line = r.line /\ m.gpu = r.gpu /\ m.uses = r.uses
  BY <1>1, <1>2, Zenon DEF Runs, States
<1>5. Safe(m)
  BY <1>1, <1>4, SafeSame, Zenon
<1>6. Busy(m)
  BY <1>4, <1>5 DEF Busy
<1>7. QED
  BY <1>1, <1>3, <1>6, FailSound, FencedSound, Zenon

\* A registered job that may be handed to the GPU.
Ready(r) == /\ Safe(r) /\ r.vmHeld = Indices /\ r.contextHeld /\ r.line.held
            /\ mount = "mapped" /\ cell = Raw(FALSE, 0) /\ r.gpu = "off"

\* Handing it over keeps what the GPU may use.
LEMMA HandOver ==
    ASSUME NEW r, Ready(r), NEW q \in Runs, q.gpu \in {"off", "queued"}, q.handles = r.handles,
           q.vmHeld = r.vmHeld, q.contextHeld = r.contextHeld, q.line = r.line, q.uses = r.uses
    PROVE  Safe(q)
<1>1. Safe(r) /\ Lined(q.line)
  BY Zenon DEF Ready, Safe
<1>2. ~wrote
  BY DEF Ready, Safe, Guarded
<1>3. Guarded(q)
  BY <1>2, Zenon DEF Ready, Guarded
<1>4. QED
  BY <1>1, <1>3, Fields, Zenon

\* The send of the enable in poll() may fail, or queue the job without telling:
\* all that the GPU would use is held by then.
LEMMA EnablingSound == ASSUME NEW r, Ready(r), NEW q \in Enabling(r) PROVE Sound(q)
<1>1. Safe(r) /\ r \in Runs
  BY DEF Ready, Safe
<1>2. \/ q = Fail(r)
      \/ q = [Fail(r) EXCEPT !.broken = TRUE]
      \/ \E g \in {r.gpu, "queued"} : q = Fail([r EXCEPT !.broken = TRUE, !.enable = "Pending", !.gpu = g])
  BY Zenon DEF Enabling, Unsent
<1>3. Sound(Fail(r)) /\ Safe(Fail(r)) /\ Fail(r).state = "Failed"
  BY <1>1, FailSound, Zenon
<1>4. ASSUME q = [Fail(r) EXCEPT !.broken = TRUE] PROVE Sound(q)
  <2>1. PICK f \in Runs : f = Fail(r)
    BY <1>3, Zenon DEF Safe
  <2>2. /\ q \in Runs /\ q.state = f.state
        /\ q.handles = f.handles /\ q.vmHeld = f.vmHeld /\ q.contextHeld = f.contextHeld
        /\ q.line = f.line /\ q.gpu = f.gpu /\ q.uses = f.uses
    BY <1>4, <2>1, Zenon DEF Runs
  <2>3. Safe(q) /\ q.state = "Failed"
    BY <1>3, <2>1, <2>2, SafeSame, Zenon
  <2>4. QED
    BY <2>3, BusySound DEF Busy
<1>5. ASSUME NEW g \in {r.gpu, "queued"}, q = Fail([r EXCEPT !.broken = TRUE, !.enable = "Pending", !.gpu = g])
      PROVE  Sound(q)
  <2>1. g \in {"off", "queued"}
    BY DEF Ready
  <2>2. PICK m : m = [r EXCEPT !.broken = TRUE, !.enable = "Pending", !.gpu = g]
    OBVIOUS
  <2>3. /\ m \in Runs /\ m.gpu = g /\ m.handles = r.handles /\ m.vmHeld = r.vmHeld
        /\ m.contextHeld = r.contextHeld /\ m.line = r.line /\ m.uses = r.uses
    BY <1>1, <2>1, <2>2, Zenon DEF Runs, Gpus, Replies
  <2>4. Safe(m)
    BY <2>1, <2>3, HandOver, Zenon
  <2>5. QED
    BY <1>5, <2>2, <2>4, FailSound, Zenon
<1>6. QED
  BY <1>2, <1>3, <1>4, <1>5, Zenon

\* poll() in any state, with any replies and any reading of the slot.
LEMMA PollSound ==
    ASSUME Wellordered, cell \in Cells, NEW r, Sound(r), NEW q \in Poll(r)
    PROVE  Sound(q)
<1>1. CASE r.state \in {"Idle", "Completed", "Closed"}
  BY <1>1, Zenon DEF Poll
<1>2. CASE r.state \notin {"Idle", "Completed", "Closed"}
  <2>1. Safe(r) /\ r \in Runs /\ Staged(r)
    BY <1>2 DEF Sound, Unbegun, Safe
  <2>2. Sound(Fail(r))
    BY <2>1, FailSound, Zenon
  <2>3. CASE r.state # "Registered"
    <3>1. Busy(r)
      BY <1>2, <2>1, <2>3 DEF Busy, Runs, States
    <3>2. q = Fail(r) \/ q \in Replied(r)
      BY <1>2, <2>3, Zenon DEF Poll
    <3>3. QED
      BY <2>2, <3>1, <3>2, RepliedSound, Zenon
  <2>4. CASE r.state = "Registered"
    <3>1. Ready(r)
      BY <2>1, <2>4, Zenon DEF Staged, Ready
    <3>2. PICK m : m = [r EXCEPT !.state = "Enabling", !.enable = "Pending", !.gpu = "queued"]
      OBVIOUS
    <3>3. q = Fail(r) \/ q = r \/ q \in Enabling(r) \/ q \in Replied(m)
      BY <1>2, <2>4, <3>2, Zenon DEF Poll
    <3>4. /\ m \in Runs /\ m.state = "Enabling" /\ m.gpu = "queued" /\ m.handles = r.handles
          /\ m.vmHeld = r.vmHeld /\ m.contextHeld = r.contextHeld /\ m.line = r.line /\ m.uses = r.uses
      BY <2>1, <3>2, Zenon DEF Runs, States, Gpus, Replies
    <3>5. Safe(m)
      BY <3>1, <3>4, HandOver, Zenon
    <3>6. Busy(m)
      BY <3>4, <3>5 DEF Busy
    <3>7. QED
      BY <2>2, <3>1, <3>3, <3>6, EnablingSound, RepliedSound, Zenon
  <2>5. QED
    BY <2>3, <2>4
<1>3. QED
  BY <1>1, <1>2

-----------------------------------------------------------------------------
\* begin() from the tail write on.
LEMMA SubmittedSound ==
    ASSUME Wellordered, cell \in Cells, NEW r, Ready(r), NEW q \in Submitted(r)
    PROVE  Sound(q)
<1>1. Safe(r) /\ r \in Runs
  BY DEF Ready, Safe
<1>2. PICK f : f = Fail(r)
  OBVIOUS
<1>3. PICK b : b = [r EXCEPT !.broken = TRUE, !.registration = "SentUnconfirmed"]
  OBVIOUS
<1>4. PICK p : p = [r EXCEPT !.state = "Registered", !.registration = "SentUnconfirmed"]
  OBVIOUS
<1>5. q = f \/ q = [f EXCEPT !.broken = TRUE] \/ q = Fail(b) \/ q \in Poll(p)
  BY <1>2, <1>3, <1>4, Zenon DEF Submitted, Registering, Unsent
<1>6. Sound(f) /\ Safe(f) /\ f.state = "Failed" /\ f \in Runs
  <2>1. Sound(f) /\ Safe(f) /\ f.state = "Failed"
    BY <1>1, <1>2, FailSound, Zenon
  <2>2. QED
    BY <2>1 DEF Safe
<1>7. ASSUME q = [f EXCEPT !.broken = TRUE] PROVE Sound(q)
  <2>1. /\ q \in Runs /\ q.state = f.state
        /\ q.handles = f.handles /\ q.vmHeld = f.vmHeld /\ q.contextHeld = f.contextHeld
        /\ q.line = f.line /\ q.gpu = f.gpu /\ q.uses = f.uses
    BY <1>6, <1>7, Zenon DEF Runs
  <2>2. Safe(q)
    BY <1>6, <2>1, SafeSame, Zenon
  <2>3. QED
    BY <1>6, <2>1, <2>2, BusySound DEF Busy
<1>8. Sound(Fail(b))
  <2>1. /\ b \in Runs
        /\ b.handles = r.handles /\ b.vmHeld = r.vmHeld /\ b.contextHeld = r.contextHeld
        /\ b.line = r.line /\ b.gpu = r.gpu /\ b.uses = r.uses
    BY <1>1, <1>3, Zenon DEF Runs, Replies
  <2>2. Safe(b)
    BY <1>1, <2>1, SafeSame, Zenon
  <2>3. QED
    BY <2>2, FailSound, Zenon
<1>9. Sound(p)
  <2>1. /\ p \in Runs /\ p.state = "Registered"
        /\ p.handles = r.handles /\ p.vmHeld = r.vmHeld /\ p.contextHeld = r.contextHeld
        /\ p.line = r.line /\ p.gpu = r.gpu /\ p.uses = r.uses
    BY <1>1, <1>4, Zenon DEF Runs, States, Replies
  <2>2. Safe(p)
    BY <1>1, <2>1, SafeSame, Zenon
  <2>3. Staged(p)
    <3>1. /\ p.vmHeld = Indices /\ p.contextHeld /\ p.line.held
          /\ mount = "mapped" /\ cell = Raw(FALSE, 0) /\ p.gpu = "off"
      BY <2>1, Zenon DEF Ready
    <3>2. "Registered" # "Completed" /\ "Registered" # "Closed"
      OBVIOUS
    <3>3. QED
      BY <2>1, <3>1, <3>2, Zenon DEF Staged
  <2>4. QED
    BY <2>1, <2>2, <2>3 DEF Sound
<1>10. QED
  BY <1>5, <1>6, <1>7, <1>8, <1>9, PollSound, Zenon

\* begin() from the retained context on: a run that holds nothing, whose
\* slot reads zero.
LEMMA PreparedSound ==
    ASSUME Wellordered, cell \in Cells, cell = Raw(FALSE, 0), NEW r \in Runs, r.vmHeld = {},
           r.handles \in [Indices -> Handle], r.gpu = "off", ~wrote, Lined(r.line),
           NEW q \in Prepared(r)
    PROVE  Sound(q)
<1>1. PICK c : c = [r EXCEPT !.contextHeld = TRUE]
  OBVIOUS
<1>2. /\ c \in Runs /\ c.handles = r.handles /\ c.vmHeld = r.vmHeld /\ c.contextHeld
      /\ c.line = r.line /\ c.gpu = r.gpu /\ c.uses = r.uses
  BY <1>1, Zenon DEF Runs
<1>3. Counted(c)
  <2>1. \A s \in Slots : HeldOn(c, s) = {} /\ c.uses[s] \in Nat
    BY <1>2 DEF HeldOn, Runs
  <2>2. QED
    BY <1>2, <2>1, AtMostNone, Zenon DEF Counted
<1>4. PICK m : m = RetainVm(c)
  OBVIOUS
<1>5. m \in Runs /\ Counted(m) /\ Kept(c, m)
  <2>1. c \in Loop(c)
    BY <1>2, <1>3, Zenon DEF Loop, Kept
  <2>2. QED
    BY <1>4, <2>1, RetainStays, Zenon DEF Loop
<1>6. m.gpu = "off" /\ m.contextHeld /\ m.line \in Lines /\ Lined(m.line)
  BY <1>2, <1>5, Zenon DEF Kept, Runs
<1>7. Safe(m)
  <2>1. Guarded(m)
    BY <1>6 DEF Guarded, Quiet
  <2>2. QED
    BY <1>5, <1>6, <2>1, Zenon DEF Safe
<1>8. \/ q = Fail(m)
      \/ /\ m.vmHeld = Indices
         /\ \E p \in Publishing(m.line, 1) : IF p.ok THEN q \in Submitted([m EXCEPT !.line = p.line])
                                             ELSE q = Fail([m EXCEPT !.line = p.line])
  BY <1>1, <1>4, Zenon DEF Prepared
<1>9. ASSUME m.vmHeld = Indices, NEW p \in Publishing(m.line, 1),
             IF p.ok THEN q \in Submitted([m EXCEPT !.line = p.line]) ELSE q = Fail([m EXCEPT !.line = p.line])
      PROVE  Sound(q)
  <2>1. PICK t : t = [m EXCEPT !.line = p.line]
    OBVIOUS
  <2>2. p.line \in Lines /\ Lined(p.line) /\ p.line.held = m.line.held
        /\ (p.ok => m.line.held /\ mount = "mapped")
    BY <1>6, Publishes, Zenon
  <2>3. Safe(t) /\ t.line = p.line /\ t.vmHeld = m.vmHeld /\ t.gpu = m.gpu /\ t.contextHeld = m.contextHeld
    <3>1. t = Reline(m, p.line)
      BY <2>1 DEF Reline
    <3>2. QED
      BY <1>7, <2>2, <3>1, Relined
  <2>4. p.ok => Ready(t)
    BY <1>6, <1>9, <2>2, <2>3, Zenon DEF Ready
  <2>5. QED
    BY <1>9, <2>1, <2>3, <2>4, SubmittedSound, FailSound, Zenon
<1>10. QED
  BY <1>7, <1>8, <1>9, FailSound, Zenon

\* begin() ends in a sound run, wherever it stops.
LEMMA BeginSound ==
    ASSUME Wellordered, World, Sound(Run), NEW hs \in [Indices -> Handle], Begin(hs)
    PROVE  \E q : Sound(q) /\ RunBecomes(q)
<1>1. cell \in Cells /\ Unbegun(Run)
  BY DEF World, Begin, Sound, Run
<1>2. PICK r : r = [Run EXCEPT !.handles = hs]
  OBVIOUS
<1>3. /\ r \in Runs /\ r.handles = hs /\ r.vmHeld = {} /\ r.gpu = "off" /\ r.line = line
      /\ line \in Lines /\ Lined(line) /\ ~wrote
  <2>1. Run \in Runs /\ Run.vmHeld = {} /\ Run.gpu = "off" /\ Lined(Run.line) /\ ~wrote
    BY <1>1, Zenon DEF Unbegun
  <2>2. Run.line = line
    BY DEF Run
  <2>3. /\ r \in Runs /\ r.handles = hs /\ r.vmHeld = Run.vmHeld /\ r.gpu = Run.gpu /\ r.line = Run.line
        /\ Run.line \in Lines
    BY <1>2, <2>1, Zenon DEF Runs
  <2>4. QED
    BY <2>1, <2>2, <2>3, Zenon
<1>4. PICK q : /\ RunBecomes(q)
               /\ \/ q = Fail(r)
                  \/ \E o \in Observing(line, cell) :
                        \/ q = Fail([r EXCEPT !.line = o.line])
                        \/ o.seen = 0 /\ q \in Prepared([r EXCEPT !.line = o.line])
  <2> DEFINE Seen == {[q |-> [r EXCEPT !.line = o.line], ok |-> o.seen = 0] : o \in Observing(line, cell)}
  <2>1. PICK q \in {Fail(r)} \cup {Fail(o.q) : o \in Seen} \cup
                  (IF line.published # 0 THEN {} ELSE UNION {Prepared(o.q) : o \in {o \in Seen : o.ok}}) :
               RunBecomes(q)
    BY <1>2, Zenon DEF Begin
  <2>2. q = Fail(r) \/ \E s \in Seen : q = Fail(s.q) \/ (s.ok /\ q \in Prepared(s.q))
    <3> HIDE DEF Seen
    <3>1. QED
      BY <2>1, Zenon
  <2>3. ASSUME NEW s \in Seen
        PROVE  \E o \in Observing(line, cell) : s.q = [r EXCEPT !.line = o.line] /\ (s.ok => o.seen = 0)
    <3>1. PICK o \in Observing(line, cell) : s = [q |-> [r EXCEPT !.line = o.line], ok |-> o.seen = 0]
      OBVIOUS
    <3>2. s.q = [r EXCEPT !.line = o.line] /\ s.ok = (o.seen = 0)
      BY <3>1, Zenon
    <3>3. QED
      BY <3>2, Zenon
  <2> HIDE DEF Seen
  <2>4. ASSUME NEW s \in Seen, q = Fail(s.q) \/ (s.ok /\ q \in Prepared(s.q))
        PROVE  \E o \in Observing(line, cell) :
                  \/ q = Fail([r EXCEPT !.line = o.line])
                  \/ o.seen = 0 /\ q \in Prepared([r EXCEPT !.line = o.line])
    <3>1. PICK o \in Observing(line, cell) : s.q = [r EXCEPT !.line = o.line] /\ (s.ok => o.seen = 0)
      BY <2>3
    <3>2. q = Fail([r EXCEPT !.line = o.line]) \/ (o.seen = 0 /\ q \in Prepared([r EXCEPT !.line = o.line]))
      BY <2>4, <3>1
    <3>3. QED
      BY <3>2, Zenon
  <2>5. QED
    BY <2>1, <2>2, <2>4, Zenon
<1>5. ASSUME NEW m \in Runs, m.handles = hs, m.vmHeld = {}, m.gpu = "off", Lined(m.line) PROVE Sound(Fail(m))
  <2>1. Counted(m)
    <3>1. \A s \in Slots : HeldOn(m, s) = {} /\ m.uses[s] \in Nat
      BY <1>5 DEF HeldOn, Runs
    <3>2. QED
      BY <1>5, <3>1, AtMostNone, Zenon DEF Counted
  <2>2. Guarded(m)
    BY <1>3, <1>5 DEF Guarded, Quiet
  <2>3. QED
    BY <1>5, <2>1, <2>2, FailSound, Zenon DEF Safe
<1>6. ASSUME NEW o \in Observing(line, cell), NEW m, m = [r EXCEPT !.line = o.line]
      PROVE  /\ m \in Runs /\ m.handles = hs /\ m.vmHeld = {} /\ m.gpu = "off" /\ Lined(m.line)
             /\ (o.seen = 0 => cell = Raw(FALSE, 0))
  <2>1. o.line \in Lines /\ Lined(o.line) /\ (o.seen = 0 => cell = Raw(FALSE, 0))
    BY <1>1, <1>3, Observes, Zenon
  <2>2. m \in Runs /\ m.handles = r.handles /\ m.vmHeld = r.vmHeld /\ m.gpu = r.gpu /\ m.line = o.line
    BY <1>3, <1>6, <2>1, Zenon DEF Runs
  <2>3. QED
    BY <1>3, <2>1, <2>2, Zenon
<1>7. ASSUME NEW o \in Observing(line, cell), NEW m, m = [r EXCEPT !.line = o.line],
             o.seen = 0, q \in Prepared(m)
      PROVE  Sound(q)
  <2>1. /\ m \in Runs /\ m.handles = hs /\ m.vmHeld = {} /\ m.gpu = "off" /\ Lined(m.line)
        /\ cell = Raw(FALSE, 0)
    BY <1>6, <1>7, Zenon
  <2>2. QED
    BY <1>1, <1>3, <1>7, <2>1, PreparedSound, Zenon
<1>8. Sound(q)
  <2>1. Sound(Fail(r))
    BY <1>3, <1>5, Zenon
  <2>2. \A o \in Observing(line, cell) : Sound(Fail([r EXCEPT !.line = o.line]))
    BY <1>5, <1>6, Zenon
  <2>3. QED
    BY <1>4, <1>7, <2>1, <2>2, Zenon
<1>9. QED
  BY <1>4, <1>8

-----------------------------------------------------------------------------
\* close() gives up the context and the fence on quiet hardware only.
LEMMA CloseSound ==
    ASSUME Wellordered, NEW r, Sound(r), NEW q \in Close(r)
    PROVE  Sound(q)
<1>1. CASE r.state \in {"Idle", "Closed"}
  BY <1>1, Zenon DEF Close
<1>2. CASE r.state \notin {"Idle", "Closed"}
  <2>1. Safe(r) /\ r \in Runs /\ Guarded(r) /\ r.line \in Lines /\ Lined(r.line)
    BY <1>2 DEF Sound, Unbegun, Safe, Runs
  <2>2. PICK c : c = [r EXCEPT !.state = "Closed"]
    OBVIOUS
  <2>3. (~r.contextHeld /\ q = c) \/ q = r \/ (Quiet(r.gpu) /\ q \in Unwound(r))
    BY <1>2, <2>2, Zenon DEF Close
  <2>4. ASSUME ~r.contextHeld PROVE Sound(c)
    <3>1. Quiet(r.gpu)
      BY <2>1, <2>4, Zenon DEF Guarded
    <3>2. /\ c \in Runs /\ c.state = "Closed"
          /\ c.handles = r.handles /\ c.vmHeld = r.vmHeld /\ c.contextHeld = r.contextHeld
          /\ c.line = r.line /\ c.gpu = r.gpu /\ c.uses = r.uses
      BY <2>1, <2>2, Zenon DEF Runs, States
    <3>3. Safe(c)
      BY <2>1, <3>2, SafeSame, Zenon
    <3>4. QED
      BY <3>1, <3>2, <3>3 DEF Sound, Staged
  <2>5. ASSUME Quiet(r.gpu), q \in Unwound(r) PROVE Sound(q)
    <3>1. PICK t : t = [r EXCEPT !.enable = "none", !.registration = "none"]
      OBVIOUS
    <3>2. /\ t \in Runs /\ t.state = r.state
          /\ t.handles = r.handles /\ t.vmHeld = r.vmHeld /\ t.contextHeld = r.contextHeld
          /\ t.line = r.line /\ t.gpu = r.gpu /\ t.uses = r.uses
      BY <2>1, <3>1, Zenon DEF Runs, Replies
    <3>3. Safe(t)
      BY <2>1, <3>2, SafeSame, Zenon
    <3>4. SUFFICES ASSUME NEW z \in Closing(r.line, r.gpu),
                          q \in LET m == [t EXCEPT !.line = z.line]
                                    released == ReleaseVm(m)
                                IN  IF ~z.ok THEN {m}
                                    ELSE IF released.vmHeld # {} THEN {Fail(released)}
                                    ELSE {Fail(released),
                                          [released EXCEPT !.contextHeld = FALSE, !.state = "Closed"]}
                   PROVE  Sound(q)
      BY <2>5, <3>1, Zenon DEF Unwound
    <3>5. PICK m : m = [t EXCEPT !.line = z.line]
      OBVIOUS
    <3>6. PICK d : d = ReleaseVm(m)
      OBVIOUS
    <3>7. PICK e : e = [d EXCEPT !.contextHeld = FALSE, !.state = "Closed"]
      OBVIOUS
    <3>8. (q = m /\ ~z.ok) \/ q = Fail(d) \/ q = e
      BY <3>4, <3>5, <3>6, <3>7, Zenon
    <3>9. z.line \in Lines /\ Lined(z.line)
      <4>1. z.line \in Lines /\ (z.line.active => z.line.used)
            /\ (z.line.held /\ z.line.active => r.line.held /\ r.line.active)
            /\ z.line.published = r.line.published /\ z.line.observed = r.line.observed
        <5>1. r.line.active => r.line.used
          BY <2>1, Zenon DEF Lined
        <5>2. QED
          BY <2>1, <5>1, Closes, Zenon
      <4>2. QED
        BY <2>1, <4>1, Zenon DEF Lined, Told
    <3>10. /\ Safe(m) /\ m.gpu = r.gpu /\ m.state = r.state /\ m.vmHeld = r.vmHeld
           /\ m.contextHeld = r.contextHeld /\ m.line = z.line
      <4>1. m = Reline(t, z.line)
        BY <3>5 DEF Reline
      <4>2. QED
        BY <2>5, <3>2, <3>3, <3>9, <4>1, Relined
    <3>11. ASSUME ~z.ok PROVE Sound(m)
      <4>1. Staged(r) /\ r.state # "Idle"
        BY <1>2 DEF Sound, Unbegun
      <4>2. m.line.held = r.line.held
        <5>1. r.line.active => r.line.used
          BY <2>1, Zenon DEF Lined
        <5>2. z.line.held = r.line.held
          BY <2>1, <3>11, <5>1, Closes, Zenon
        <5>3. QED
          BY <3>10, <5>2, Zenon
      <4>3. Staged(m)
        BY <3>10, <4>1, <4>2, Zenon DEF Staged
      <4>4. QED
        BY <3>10, <4>1, <4>3 DEF Sound
    <3>12. m.gpu \notin {"queued", "running"}
      BY <2>5, <3>10 DEF Quiet
    <3>13. Safe(d) /\ d.gpu = r.gpu
      <4>1. Safe(d) /\ Kept(m, d)
        BY <3>6, <3>10, <3>12, Releases, Zenon
      <4>2. QED
        BY <3>10, <4>1, Zenon DEF Kept
    <3>14. Sound(e)
      <4>1. d \in Runs /\ Lined(d.line)
        BY <3>13 DEF Safe
      <4>2. /\ e \in Runs /\ e.state = "Closed" /\ e.handles = d.handles /\ e.vmHeld = d.vmHeld
            /\ e.line = d.line /\ e.gpu = d.gpu /\ e.uses = d.uses
        BY <3>7, <4>1, Zenon DEF Runs, States
      <4>3. Guarded(e)
        BY <2>5, <3>13, <4>2 DEF Safe, Guarded, Quiet
      <4>4. Safe(e)
        BY <3>13, <4>1, <4>2, <4>3, Fields, Zenon
      <4>5. QED
        BY <2>5, <3>13, <4>2, <4>4 DEF Sound, Staged
    <3>15. QED
      BY <3>8, <3>11, <3>13, <3>14, FailSound, Zenon
  <2>6. QED
    BY <2>3, <2>4, <2>5, Zenon
<1>3. QED
  BY <1>1, <1>2

-----------------------------------------------------------------------------
\* What a call returns is what the execution is then.
LEMMA Became ==
    ASSUME NEW q, Sound(q), Run' = q, UNCHANGED <<slots, cell, mount, wrote>>
    PROVE  Sound(Run)'
  BY Zenon DEF Sound, Unbegun, Safe, Staged, Counted, Lined, Told, Guarded, HeldOn, Lookup

\* So a call that ends in a sound run keeps the invariant of the whole.
LEMMA RunBecame == ASSUME VmInv, World, NEW q, Sound(q), RunBecomes(q) PROVE ExecInv'
<1>1. q \in Runs
  BY DEF Sound, Unbegun, Safe
<1>2. Run' = q
  BY <1>1, Zenon DEF RunBecomes, Run, Runs
<1>3. UNCHANGED <<slots, nextGeneration, pte, pins, completed, recorded, cell, mount, wrote>>
  BY DEF RunBecomes
<1>4. Sound(Run)'
  BY <1>2, <1>3, Became
<1>5. VmInv'
  <2>1. \A t \in Timelines : completed[t] <= completed'[t]
    BY <1>3 DEF VmInv, VmTypeOK
  <2>2. QED
    BY <1>3, <2>1, QuietKeepsInv DEF VmInv, VmTypeOK
<1>6. QED
  BY <1>3, <1>4, <1>5 DEF ExecInv, World

\* A record in use keeps its identity and its uses.
KeepsUsed(s) ==
    slots[s].state \in {"Bound", "Retiring"} /\ activeUses[s] # 0 =>
        /\ slots'[s].state \in {"Bound", "Retiring"} /\ slots'[s].generation = slots[s].generation
        /\ slots'[s].owner = slots[s].owner /\ activeUses'[s] = activeUses[s]

\* No call of a client takes a record from under a use.
LEMMA ClientKeeps ==
    ASSUME VmInv, activeUses \in [Slots -> Nat], ClientStep
    PROVE  activeUses' \in [Slots -> Nat] /\ \A s \in Slots : KeepsUsed(s)
<1> USE DEF VmInv, VmTypeOK
<1>1. ASSUME NEW z \in Slots, NEW a, slots[z].state \notin {"Bound", "Retiring"} \/ activeUses[z] = 0,
             slots' = [slots EXCEPT ![z] = a], activeUses' \in {activeUses, [activeUses EXCEPT ![z] = 0]}
      PROVE  activeUses' \in [Slots -> Nat] /\ \A s \in Slots : KeepsUsed(s)
  <2>1. activeUses' \in [Slots -> Nat]
    BY <1>1
  <2>2. \A s \in Slots \ {z} : slots'[s] = slots[s] /\ activeUses'[s] = activeUses[s]
    BY <1>1
  <2>3. QED
    BY <1>1, <2>1, <2>2 DEF KeepsUsed
<1>2. ASSUME NEW o \in Owners, NEW n \in Sizes, NEW a \in Alignments, Reserve(o, n, a)
      PROVE  activeUses' \in [Slots -> Nat] /\ \A s \in Slots : KeepsUsed(s)
  <2>1. PICK z \in Slots : /\ slots[z].state = "Free" /\ activeUses' = [activeUses EXCEPT ![z] = 0]
                           /\ \E b : slots' = [slots EXCEPT ![z] = b]
    BY <1>2, Zenon DEF Reserve, Insert, IsFirstFreeSlot
  <2>2. QED
    BY <1>1, <2>1
<1>3. ASSUME NEW o \in Owners, NEW h \in Handle,
             \/ Pin(o, h) \/ PinUncertain(o, h)
             \/ Bind(o, h) \/ \E P \in SUBSET Pages : BindUncertain(o, h, P)
             \/ ReclaimReserved(o, h) \/ ReclaimPinned(o, h) \/ ReclaimRetiring(o, h)
             \/ \E P \in SUBSET Pages : ReclaimUncertain(o, h, P)
      PROVE  activeUses' \in [Slots -> Nat] /\ \A s \in Slots : KeepsUsed(s)
  <2>1. PICK z \in Slots : z = h.slot
    BY DEF Handle
  <2>2. slots[z].state \notin {"Bound", "Retiring"} \/ activeUses[z] = 0
    BY <1>3, <2>1 DEF Pin, PinUncertain, Bind, BindUncertain, ReclaimReserved, ReclaimPinned,
                      ReclaimRetiring, ReclaimUncertain, Lookup, Unbindable
  <2>3. activeUses' \in {activeUses, [activeUses EXCEPT ![z] = 0]}
    BY <1>3, <2>1, Zenon DEF Pin, PinUncertain, Bind, BindUncertain, ReclaimReserved, ReclaimPinned,
                      ReclaimRetiring, ReclaimUncertain, Unpin, Freed, Quarantined
  <2>4. \E b : slots' = [slots EXCEPT ![z] = b]
    BY <1>3, <2>1, Zenon DEF Pin, PinUncertain, Bind, BindUncertain, ReclaimReserved, ReclaimPinned,
                      ReclaimRetiring, ReclaimUncertain, Unpin, Freed, Quarantined
  <2>5. QED
    BY <1>1, <2>2, <2>3, <2>4
<1>4. ASSUME NEW o \in Owners, NEW h \in Handle, RetireMapping(o, h) \/ \E f \in Fence : RecordUse(o, h, f)
      PROVE  activeUses' \in [Slots -> Nat] /\ \A s \in Slots : KeepsUsed(s)
  <2>1. PICK z \in Slots : z = h.slot
    BY DEF Handle
  <2>2. activeUses' = activeUses /\ slots[z].state = "Bound"
    BY <1>4, <2>1 DEF RetireMapping, RecordUse, Lookup
  <2>3. /\ \A s \in Slots \ {z} : slots'[s] = slots[s]
        /\ slots'[z].state \in {"Bound", "Retiring"} /\ slots'[z].generation = slots[z].generation
        /\ slots'[z].owner = slots[z].owner
    <3>1. CASE RetireMapping(o, h)
      BY <2>1, <2>2, <3>1 DEF RetireMapping, Allocations
    <3>2. ASSUME NEW f \in Fence, RecordUse(o, h, f)
          PROVE  /\ \A s \in Slots \ {z} : slots'[s] = slots[s]
                 /\ slots'[z].state \in {"Bound", "Retiring"} /\ slots'[z].generation = slots[z].generation
                 /\ slots'[z].owner = slots[z].owner
      BY <2>1, <2>2, <3>2 DEF RecordUse, Allocations
    <3>3. QED
      BY <1>4, <3>1, <3>2
  <2>4. QED
    BY <2>2, <2>3 DEF KeepsUsed
<1>5. ASSUME NEW t \in Timelines, TimelineAdvances(t)
      PROVE  activeUses' \in [Slots -> Nat] /\ \A s \in Slots : KeepsUsed(s)
  BY <1>5 DEF TimelineAdvances, KeepsUsed
<1>6. QED
  <2>1. CASE \E o \in Owners, n \in Sizes, a \in Alignments : Reserve(o, n, a)
    BY <1>2, <2>1, Zenon
  <2>2. CASE \E t \in Timelines : TimelineAdvances(t)
    BY <1>5, <2>2, Zenon
  <2>3. CASE \E o \in Owners, h \in Handle :
               \/ Pin(o, h) \/ PinUncertain(o, h)
               \/ Bind(o, h) \/ \E P \in SUBSET Pages : BindUncertain(o, h, P)
               \/ \E f \in Fence : RecordUse(o, h, f)
               \/ RetireMapping(o, h)
               \/ ReclaimReserved(o, h) \/ ReclaimPinned(o, h) \/ ReclaimRetiring(o, h)
               \/ \E P \in SUBSET Pages : ReclaimUncertain(o, h, P)
    BY <1>3, <1>4, <2>3, Zenon
  <2>4. QED
    BY <2>1, <2>2, <2>3, Zenon DEF ClientStep

-----------------------------------------------------------------------------
\* What is held stays held and counted while clients go on.
LEMMA ClientSound ==
    ASSUME VmInv, Sound(Run), ClientStep, UNCHANGED <<fenceVars, runVars>>
    PROVE  Sound(Run)'
<1>1. Run \in Runs
  BY DEF Sound, Unbegun, Safe
<1>2. activeUses \in [Slots -> Nat]
  <2>1. Run.uses \in [Slots -> Nat]
    BY <1>1, Zenon DEF Runs
  <2>2. QED
    BY <2>1 DEF Run
<1>3. activeUses' \in [Slots -> Nat] /\ \A s \in Slots : KeepsUsed(s)
  BY <1>2, ClientKeeps
<1>4. PICK q : q = [Run EXCEPT !.uses = activeUses']
  OBVIOUS
<1>5. /\ q \in Runs /\ q.state = state /\ q.handles = handles /\ q.vmHeld = vmHeld /\ q.contextHeld = contextHeld
      /\ q.line = line /\ q.gpu = gpu /\ q.uses = activeUses' /\ Run' = q
  <2>1. /\ q \in Runs /\ q.state = Run.state /\ q.handles = Run.handles /\ q.vmHeld = Run.vmHeld
        /\ q.contextHeld = Run.contextHeld /\ q.line = Run.line /\ q.gpu = Run.gpu /\ q.uses = activeUses'
    BY <1>1, <1>3, <1>4, Zenon DEF Runs
  <2>2. Run' = q
    BY <1>4, Zenon DEF Run, fenceVars, runVars
  <2>3. QED
    BY <2>1, <2>2, Zenon DEF Run
<1>6. UNCHANGED <<cell, mount, wrote>>
  BY DEF fenceVars
<1>7. /\ Run.state = state /\ Run.handles = handles /\ Run.vmHeld = vmHeld /\ Run.contextHeld = contextHeld
      /\ Run.line = line /\ Run.gpu = gpu /\ Run.uses = activeUses
  BY Zenon DEF Run
<1>8. CASE Unbegun(Run)
  BY <1>5, <1>6, <1>7, <1>8, Zenon DEF Sound, Unbegun, Lined, Told
<1>9. CASE Run.state # "Idle" /\ Safe(Run) /\ Staged(Run)
  <2>1. handles \in [Indices -> Handle] /\ vmHeld \subseteq Indices
    BY <1>7, <1>9, <1>1, Zenon DEF Safe, Counted, Runs
  <2>2. ASSUME NEW i \in vmHeld
        PROVE  /\ activeUses[handles[i].slot] # 0 /\ handles[i].slot \in Slots
               /\ Lookup(ContextOwner, handles[i], {"Bound", "Retiring"})
    <3>1. PICK s \in Slots : s = handles[i].slot
      BY <2>1 DEF Handle
    <3>2. i \in HeldOn(Run, s)
      BY <1>7, <3>1, Zenon DEF HeldOn
    <3>3. AtMost(HeldOn(Run, s), activeUses[s]) /\ Lookup(ContextOwner, handles[i], {"Bound", "Retiring"})
      BY <1>7, <1>9, Zenon DEF Safe, Counted
    <3>4. activeUses[s] # 0
      BY <3>2, <3>3, FitsEmpty, Zenon
    <3>5. QED
      BY <3>1, <3>3, <3>4
  <2>3. \A i \in vmHeld : Lookup(ContextOwner, handles[i], {"Bound", "Retiring"})'
    <3>1. SUFFICES ASSUME NEW i \in vmHeld PROVE Lookup(ContextOwner, handles[i], {"Bound", "Retiring"})'
      BY Zenon
    <3>2. PICK s \in Slots : s = handles[i].slot
      BY <2>2
    <3>3. handles' = handles
      BY DEF runVars
    <3>4. QED
      BY <1>3, <2>2, <3>2, <3>3 DEF Lookup, KeepsUsed
  <2>4. \A s \in Slots : AtMost(HeldOn(q, s), q.uses[s])
    <3>1. SUFFICES ASSUME NEW s \in Slots PROVE AtMost(HeldOn(q, s), activeUses'[s])
      BY <1>5, Zenon
    <3>2. HeldOn(q, s) = HeldOn(Run, s) /\ AtMost(HeldOn(Run, s), activeUses[s])
      BY <1>5, <1>7, <1>9, Zenon DEF HeldOn, Safe, Counted
    <3>3. CASE HeldOn(q, s) = {}
      BY <1>3, <3>3, AtMostNone
    <3>4. CASE HeldOn(q, s) # {}
      <4>1. PICK i \in vmHeld : handles[i].slot = s
        BY <1>5, <3>4, Zenon DEF HeldOn
      <4>2. activeUses'[s] = activeUses[s]
        BY <1>3, <2>2, <4>1 DEF KeepsUsed, Lookup
      <4>3. QED
        BY <3>2, <4>2
    <3>5. QED
      BY <3>3, <3>4
  <2>5. Counted(Run)'
    BY <1>5, <2>1, <2>3, <2>4, Zenon DEF Counted, HeldOn, runVars
  <2>6. Lined(Run.line)' /\ Guarded(Run)' /\ Staged(Run)' /\ (Run.state # "Idle")'
    BY <1>5, <1>6, <1>7, <1>9, Zenon DEF Safe, Lined, Told, Guarded, Staged
  <2>7. QED
    BY <1>5, <2>5, <2>6, Zenon DEF Sound, Safe
<1>10. QED
  BY <1>8, <1>9, Zenon DEF Sound

-----------------------------------------------------------------------------
\* The fields of the run are the variables.
LEMMA RunFields ==
    /\ Run.state = state /\ Run.handles = handles /\ Run.vmHeld = vmHeld /\ Run.contextHeld = contextHeld
    /\ Run.line = line /\ Run.gpu = gpu /\ Run.uses = activeUses
  BY Zenon DEF Run

\* attach() and detach() map the slot while a timeline may use it.
LEMMA SlotLined ==
    ASSUME World, line \in Lines, Lined(line), SlotStep
    PROVE  World' /\ line' \in Lines /\ Lined(line)' /\ gpu' = gpu /\ wrote' = wrote
<1>1. cell \in Cells /\ wrote \in BOOLEAN /\ mount \in {"none", "mapped", "unmapped"}
  BY DEF World
<1>2. ASSUME NEW l \in Lines, l.active => l.used, NEW c \in Closing(l, gpu), line' = c.line,
             \/ mount' \in {"none", "unmapped"} /\ c.ok
             \/ mount' = "mapped"
             \/ mount' = mount /\ l = line, cell' = cell, wrote' = wrote, Told(l)
      PROVE  World' /\ line' \in Lines /\ Lined(line)'
  <2>1. /\ c.line \in Lines /\ (c.line.active => c.line.used) /\ (c.ok => ~c.line.held)
        /\ c.line.held /\ c.line.active => l.held /\ l.active
        /\ c.line.published = l.published /\ c.line.observed = l.observed
    BY <1>2, Closes, Zenon
  <2>2. World'
    BY <1>1, <1>2 DEF World
  <2>3. Lined(line)'
    <3>1. Told(line)'
      BY <1>2, <2>1, Zenon DEF Told
    <3>2. QED
      BY <1>2, <2>1, <3>1, Zenon DEF Lined
  <2>4. QED
    BY <1>2, <2>1, <2>2, <2>3, Zenon
<1>3. ASSUME Detaching(line) PROVE World' /\ line' \in Lines /\ Lined(line)' /\ gpu' = gpu /\ wrote' = wrote
  <2>1. PICK c \in Closing(line, gpu) : /\ line' = c.line /\ cell' = cell /\ gpu' = gpu /\ wrote' = wrote
                                        /\ mount' \in IF c.ok THEN {"none", "unmapped"} ELSE {mount}
    BY <1>3, Zenon DEF Detaching
  <2>2. (line.active => line.used) /\ Told(line)
    BY Zenon DEF Lined
  <2>3. (mount' \in {"none", "unmapped"} /\ c.ok) \/ mount' = mount
    BY <2>1, Zenon
  <2>4. QED
    BY <1>2, <2>1, <2>2, <2>3, Zenon
<1>4. CASE AttachHalf
  <2>1. PICK l : l = Bound(line)
    OBVIOUS
  <2>2. PICK c \in Closing(l, gpu) : /\ line' = c.line /\ cell' = cell /\ gpu' = gpu /\ wrote' = wrote
                                     /\ mount' \in IF c.ok THEN {"none", "unmapped"} ELSE {"mapped"}
    BY <1>4, <2>1, Zenon DEF AttachHalf
  <2>3. l \in Lines /\ (l.active => l.used) /\ Told(l)
    <3>1. l \in Lines /\ l.used /\ l.published = line.published /\ l.observed = line.observed
      BY <2>1, Zenon DEF Bound, Lines
    <3>2. QED
      BY <3>1, Zenon DEF Lined, Told
  <2>4. (mount' \in {"none", "unmapped"} /\ c.ok) \/ mount' = "mapped"
    BY <2>2, Zenon
  <2>5. QED
    BY <1>2, <2>2, <2>3, <2>4
<1>5. CASE AttachOk
  <2>1. PICK l : l = Activated(line)
    OBVIOUS
  <2>2. l \in Lines /\ l.used /\ l.published = 0 /\ l.observed = 0
    BY <2>1, Zenon DEF Activated, Bound, Lines
  <2>3. line' = l /\ cell' = Raw(FALSE, 0) /\ mount' = "mapped" /\ gpu' = gpu /\ wrote' = wrote
    BY <1>5, <2>1 DEF AttachOk
  <2>4. World'
    BY <1>1, <2>3 DEF World, Cells, Raw
  <2>5. QED
    BY <2>2, <2>3, <2>4, Zenon DEF Lined, Told
<1>6. QED
  BY <1>3, <1>4, <1>5, Zenon DEF SlotStep, AttachUndone, Detach

\* Whatever a stray write leaves in the slot is a qword.
LEMMA QwordCells == ASSUME NEW raw \in Qwords PROVE raw \in Cells
<1>1. raw = Raw(TRUE, 1) \/ \E n \in 0 .. MaxSequence : raw = Raw(FALSE, n)
  BY Zenon DEF Qwords
<1>2. 1 \in Nat /\ \A n \in 0 .. MaxSequence : n \in Nat
  OBVIOUS
<1>3. \A h \in BOOLEAN, n \in Nat : Raw(h, n) \in Cells
  BY Zenon DEF Raw, Cells
<1>4. QED
  BY <1>1, <1>2, <1>3, Zenon

\* The hardware moves only what is held, and the slot when it ends.
LEMMA FenceLined ==
    ASSUME World, line \in Lines, Lined(line), gpu \in Gpus, FenceNext
    PROVE  /\ World' /\ line' \in Lines /\ Lined(line)' /\ mount' = mount /\ gpu' \in Gpus
           /\ line'.held = line.held
           /\ (gpu = "off" => gpu' = "off" /\ cell' = cell)
           /\ (wrote => wrote') /\ (wrote' # wrote => gpu' = "done")
           /\ \/ gpu' = gpu
              \/ gpu = "queued" /\ gpu' = "running"
              \/ gpu = "running" /\ gpu' = "done"
              \/ ~Quiet(gpu) /\ gpu' = "stopped"
<1> USE DEF World
<1>1. CASE Invalidate
  <2>1. PICK l : l = [line EXCEPT !.active = FALSE]
    OBVIOUS
  <2>2. l \in Lines /\ ~l.active /\ l.held = line.held /\ l.published = line.published /\ l.observed = line.observed
    BY <2>1, Zenon DEF Lines
  <2>3. line' = l /\ UNCHANGED <<cell, mount, gpu, wrote>>
    BY <1>1, <2>1 DEF Invalidate
  <2>4. QED
    BY <2>2, <2>3, Zenon DEF Lined, Told
<1>2. CASE GpuStarts \/ HostStops
  <2>1. UNCHANGED <<line, cell, mount, wrote>>
    BY <1>2 DEF GpuStarts, HostStops
  <2>2. (gpu = "queued" /\ gpu' = "running") \/ (~Quiet(gpu) /\ gpu' = "stopped")
    BY <1>2 DEF GpuStarts, HostStops
  <2>3. gpu # "off" /\ gpu' \in Gpus
    BY <2>2 DEF Quiet, Gpus
  <2>4. QED
    BY <2>1, <2>2, <2>3, Zenon DEF Lined, Told
<1>3. CASE GpuFinishes
  <2>1. /\ gpu = "running" /\ gpu' = "done" /\ cell' = Raw(FALSE, 1) /\ wrote' = TRUE
        /\ line' = line /\ mount' = mount
    BY <1>3 DEF GpuFinishes
  <2>2. cell' \in Cells /\ gpu' \in Gpus /\ gpu # "off"
    BY <2>1 DEF Cells, Raw, Gpus
  <2>3. Lined(line)'
    BY <2>1, Zenon DEF Lined, Told
  <2>4. QED
    BY <2>1, <2>2, <2>3, Zenon
<1>4. CASE SlotCorrupted
  <2>1. PICK raw \in Qwords : (raw.high \/ raw.low \notin line.observed .. line.published) /\ cell' = raw
    BY <1>4 DEF SlotCorrupted
  <2>2. ~Quiet(gpu) /\ UNCHANGED <<line, mount, gpu, wrote>>
    BY <1>4 DEF SlotCorrupted
  <2>3. gpu # "off"
    BY <2>2 DEF Quiet
  <2>4. cell' \in Cells
    BY <2>1, QwordCells
  <2>5. ~(line.published # 0 /\ cell' = Raw(FALSE, 1))
    BY <2>1 DEF Lines, Raw
  <2>6. Lined(line)'
    BY <2>2, <2>5, Zenon DEF Lined, Told
  <2>7. QED
    BY <2>2, <2>3, <2>4, <2>6, Zenon
<1>5. QED
  BY <1>1, <1>2, <1>3, <1>4, Zenon DEF FenceNext

\* Neither disturbs the run.
LEMMA FenceSound ==
    ASSUME World, Sound(Run), SlotStep \/ FenceNext, UNCHANGED <<vmVars, runVars>>
    PROVE  World' /\ Sound(Run)'
<1>1. Run \in Runs /\ Lined(Run.line)
  BY DEF Sound, Unbegun, Safe
<1>2. Run.line \in Lines /\ Run.gpu \in Gpus
  BY <1>1, Zenon DEF Runs
<1>3. line \in Lines /\ gpu \in Gpus /\ Lined(line)
  BY <1>1, <1>2, RunFields, Zenon
<1>4. /\ slots' = slots /\ activeUses' = activeUses /\ state' = state /\ handles' = handles /\ vmHeld' = vmHeld
      /\ contextHeld' = contextHeld /\ registration' = registration /\ enable' = enable /\ broken' = broken
  BY DEF vmVars, runVars
<1>5. /\ World' /\ line' \in Lines /\ Lined(line)' /\ gpu' \in Gpus
  BY <1>3, SlotLined, FenceLined, Zenon
<1>6. PICK q : q = [Run EXCEPT !.line = line', !.gpu = gpu']
  OBVIOUS
<1>7. q \in Runs /\ Run' = q
  <2>1. q \in Runs
    BY <1>1, <1>5, <1>6, Zenon DEF Runs
  <2>2. Run' = q
    BY <1>4, <1>6, Zenon DEF Run
  <2>3. QED
    BY <2>1, <2>2
<1>8. (Run \in Runs)'
  BY <1>7, Zenon DEF Runs
<1>9. CASE Unbegun(Run)
  <2>1. gpu = "off" /\ vmHeld = {} /\ state = "Idle" /\ ~wrote
    BY <1>9, RunFields, Zenon DEF Unbegun
  <2>2. gpu' = "off" /\ ~wrote'
    <3>1. CASE SlotStep
      <4>1. gpu' = gpu /\ wrote' = wrote
        BY <1>3, <3>1, SlotLined, Zenon
      <4>2. QED
        BY <2>1, <4>1
    <3>2. CASE FenceNext
      <4>1. gpu' = "off" /\ (wrote' # wrote => gpu' = "done")
        BY <1>3, <2>1, <3>2, FenceLined, Zenon
      <4>2. QED
        BY <2>1, <4>1
    <3>3. QED
      BY <3>1, <3>2
  <2>3. (Run.state = "Idle" /\ Run.vmHeld = {} /\ Run.gpu = "off")' /\ Lined(Run.line)'
    <3>1. Lined(Run.line)'
      BY <1>5, Zenon DEF Lined, Told, Run
    <3>2. QED
      BY <1>4, <2>1, <2>2, <3>1, Zenon DEF Run
  <2>4. QED
    BY <1>5, <1>8, <2>2, <2>3, Zenon DEF Sound, Unbegun
<1>10. CASE Run.state # "Idle" /\ Safe(Run) /\ Staged(Run)
  <2>1. Counted(Run)'
    <3>1. Counted(Run)
      BY <1>10 DEF Safe
    <3>2. QED
      BY <1>4, <3>1, Zenon DEF Counted, HeldOn, Lookup, Run
  <2>2. Lined(Run.line)'
    BY <1>5, Zenon DEF Lined, Told, Run
  <2>3. /\ state # "Idle"
        /\ gpu \in {"queued", "running"} => vmHeld = Indices
        /\ wrote => gpu \in {"done", "stopped"}
        /\ ~Quiet(gpu) => contextHeld /\ line.held /\ mount = "mapped"
        /\ state = "Registered" => /\ vmHeld = Indices /\ contextHeld /\ line.held
                                   /\ mount = "mapped" /\ cell = Raw(FALSE, 0) /\ gpu = "off"
        /\ state = "Completed" => wrote
        /\ state = "Closed" => Quiet(gpu)
    BY <1>10, RunFields, Zenon DEF Safe, Guarded, Staged
  <2>4. /\ gpu' \in {"queued", "running"} => vmHeld = Indices
        /\ wrote' => gpu' \in {"done", "stopped"}
        /\ ~Quiet(gpu') => contextHeld /\ line'.held /\ mount' = "mapped"
        /\ state = "Registered" => /\ vmHeld = Indices /\ contextHeld /\ line'.held
                                   /\ mount' = "mapped" /\ cell' = Raw(FALSE, 0) /\ gpu' = "off"
        /\ state = "Completed" => wrote'
        /\ state = "Closed" => Quiet(gpu')
    <3>1. CASE SlotStep
      <4>1. state = "Closed" /\ gpu' = gpu /\ wrote' = wrote
        BY <1>3, <2>3, <3>1, SlotLined DEF SlotStep
      <4>2. QED
        BY <2>3, <4>1 DEF Quiet
    <3>2. CASE FenceNext
      <4>1. /\ mount' = mount /\ line'.held = line.held
            /\ (gpu = "off" => gpu' = "off" /\ cell' = cell)
            /\ (wrote => wrote') /\ (wrote' # wrote => gpu' = "done")
            /\ \/ gpu' = gpu
               \/ gpu = "queued" /\ gpu' = "running"
               \/ gpu = "running" /\ gpu' = "done"
               \/ ~Quiet(gpu) /\ gpu' = "stopped"
        BY <1>3, <3>2, FenceLined, Zenon
      <4>2. gpu' \in {"queued", "running"} => gpu \in {"queued", "running"}
        BY <4>1
      <4>3. (Quiet(gpu) => Quiet(gpu')) /\ (~Quiet(gpu') => ~Quiet(gpu))
        BY <4>1 DEF Quiet
      <4>4. wrote' => gpu' \in {"done", "stopped"}
        BY <2>3, <4>1 DEF World
      <4>5. QED
        BY <2>3, <4>1, <4>2, <4>3, <4>4, Zenon
    <3>3. QED
      BY <3>1, <3>2
  <2>5. Guarded(Run)' /\ Staged(Run)' /\ (Run.state # "Idle")'
    BY <1>4, <2>3, <2>4, Zenon DEF Guarded, Staged, Run, Quiet
  <2>6. QED
    BY <1>5, <1>8, <2>1, <2>2, <2>5, Zenon DEF Sound, Safe
<1>11. QED
  BY <1>9, <1>10, Zenon DEF Sound

-----------------------------------------------------------------------------
\* An answer, a refusal or a fault of the transport only changes replies.
LEMMA ReplySound ==
    ASSUME Sound(Run), EnableAnswered \/ RegistrationRefused \/ TransportFaults, UNCHANGED <<vmVars, fenceVars>>
    PROVE  Sound(Run)'
<1>1. Run \in Runs
  BY DEF Sound, Unbegun, Safe
<1>2. Run.registration \in Replies /\ Run.enable \in Replies /\ Run.broken \in BOOLEAN
  BY <1>1, Zenon DEF Runs
<1>3. registration \in Replies /\ enable \in Replies /\ broken \in BOOLEAN
  BY <1>2, Zenon DEF Run
<1>4. registration' \in Replies /\ enable' \in Replies /\ broken' \in BOOLEAN
      /\ UNCHANGED <<state, handles, vmHeld, contextHeld>>
  <2>1. CASE EnableAnswered
    BY <1>3, <2>1, Zenon DEF EnableAnswered, Replies
  <2>2. CASE RegistrationRefused
    BY <1>3, <2>2, Zenon DEF RegistrationRefused, Replies
  <2>3. CASE TransportFaults
    BY <1>3, <2>3, Zenon DEF TransportFaults
  <2>4. QED
    BY <2>1, <2>2, <2>3
<1>5. PICK q : q = [Run EXCEPT !.registration = registration', !.enable = enable', !.broken = broken']
  OBVIOUS
<1>6. /\ q \in Runs /\ q.state = Run.state /\ q.handles = Run.handles /\ q.vmHeld = Run.vmHeld
      /\ q.contextHeld = Run.contextHeld /\ q.line = Run.line /\ q.gpu = Run.gpu /\ q.uses = Run.uses
  BY <1>1, <1>4, <1>5, Zenon DEF Runs
<1>7. Run' = q
  BY <1>4, <1>5, Zenon DEF Run, vmVars, fenceVars
<1>8. Sound(q)
  <2>1. Unbegun(Run) => Unbegun(q)
    BY <1>6, Zenon DEF Unbegun
  <2>2. Safe(Run) => Safe(q)
    BY <1>6, SafeSame, Zenon
  <2>3. Staged(Run) => Staged(q)
    BY <1>6, Zenon DEF Staged
  <2>4. QED
    BY <1>6, <2>1, <2>2, <2>3, Zenon DEF Sound
<1>9. QED
  BY <1>7, <1>8, Became DEF vmVars, fenceVars

\* The execution starts with nothing held.
LEMMA ExecStarts == ASSUME ExecInit PROVE ExecInv
<1>1. VmInv
  BY VmInitInv DEF ExecInit
<1>2. World
  <2>1. cell \in Qwords /\ wrote = FALSE /\ mount = "none"
    BY DEF ExecInit, FenceInit
  <2>2. QED
    BY <2>1, QwordCells DEF World
<1>3. line \in Lines /\ Lined(line) /\ activeUses \in [Slots -> Nat] /\ gpu = "off" /\ ~wrote
  <2>1. line \in Lines /\ ~line.active /\ line.published = 0 /\ line.observed = 0
    BY Zenon DEF ExecInit, FenceInit, Lines
  <2>2. QED
    BY <2>1 DEF ExecInit, FenceInit, VmInit, Lined, Told
<1>4. Run \in Runs
  <2>1. state \in States /\ registration \in Replies /\ enable \in Replies /\ gpu \in Gpus /\ vmHeld \subseteq Indices
        /\ contextHeld \in BOOLEAN /\ broken \in BOOLEAN /\ handles = NoHandles
    BY <1>3, Zenon DEF ExecInit, RunInit, States, Replies, Gpus
  <2>2. QED
    BY <1>3, <2>1, Zenon DEF Run, Runs
<1>5. Unbegun(Run)
  BY <1>3, <1>4, RunFields, Zenon DEF Unbegun, ExecInit, RunInit
<1>6. QED
  BY <1>1, <1>2, <1>5 DEF ExecInv, Sound

\* Every step keeps the invariant.
LEMMA ExecSteps == ASSUME Wellordered, ExecInv, [ExecNext]_execVars PROVE ExecInv'
<1>1. VmInv /\ World /\ Sound(Run) /\ cell \in Cells
  BY DEF ExecInv, World
<1>2. CASE \E hs \in [Indices -> Handle] : Begin(hs)
  BY <1>1, <1>2, BeginSound, RunBecame, Zenon
<1>3. CASE PollJob
  BY <1>1, <1>3, PollSound, RunBecame, Zenon DEF PollJob
<1>4. CASE CloseJob
  BY <1>1, <1>4, CloseSound, RunBecame, Zenon DEF CloseJob
<1>5. CASE ClientStep /\ UNCHANGED <<fenceVars, runVars>>
  <2>1. VmInv'
    BY <1>1, <1>5, VmNextInv DEF VmNext
  <2>2. Sound(Run)'
    BY <1>1, <1>5, ClientSound
  <2>3. QED
    BY <1>1, <1>5, <2>1, <2>2 DEF ExecInv, World, fenceVars
<1>6. CASE (SlotStep \/ FenceNext) /\ UNCHANGED <<vmVars, runVars>>
  <2>1. VmInv'
    BY <1>1, <1>6, VmNextInv
  <2>2. World' /\ Sound(Run)'
    BY <1>1, <1>6, FenceSound
  <2>3. QED
    BY <2>1, <2>2 DEF ExecInv
<1>7. CASE (EnableAnswered \/ RegistrationRefused \/ TransportFaults) /\ UNCHANGED <<vmVars, fenceVars>>
  <2>1. VmInv'
    BY <1>1, <1>7, VmNextInv
  <2>2. Sound(Run)'
    BY <1>1, <1>7, ReplySound
  <2>3. QED
    BY <1>1, <1>7, <2>1, <2>2 DEF ExecInv, World, fenceVars
<1>8. CASE UNCHANGED execVars
  <2>1. UNCHANGED vmVars /\ UNCHANGED fenceVars /\ UNCHANGED runVars
    BY <1>8 DEF execVars
  <2>2. VmInv'
    BY <1>1, <2>1, VmNextInv
  <2>3. Run' = Run
    BY <2>1 DEF Run, vmVars, fenceVars, runVars
  <2>4. Sound(Run)'
    BY <1>1, <2>1, <2>3, Became DEF vmVars, fenceVars
  <2>5. QED
    BY <1>1, <2>1, <2>2, <2>4 DEF ExecInv, World, fenceVars
<1>9. QED
  BY <1>2, <1>3, <1>4, <1>5, <1>6, <1>7, <1>8, Zenon DEF ExecNext

\* The invariant gives the two properties.
LEMMA ExecMeans == ASSUME ExecInv PROVE RunIsBacked /\ CompletionIsReal
<1>1. VmInv /\ Sound(Run)
  BY DEF ExecInv
<1>2. CompletionIsReal
  <2>1. state = "Completed" => wrote
    BY <1>1, RunFields DEF Sound, Unbegun, Staged
  <2>2. line.observed # 0 => wrote
    BY <1>1, RunFields, Zenon DEF Sound, Unbegun, Safe, Lined, Told
  <2>3. QED
    BY <2>1, <2>2, Zenon DEF CompletionIsReal
<1>3. ~Quiet(gpu) => contextHeld /\ line.held /\ mount = "mapped"
  <2>1. Unbegun(Run) => Quiet(gpu)
    BY RunFields DEF Unbegun, Quiet
  <2>2. QED
    BY <1>1, <2>1, RunFields, Zenon DEF Sound, Safe, Guarded
<1>4. ASSUME gpu \in {"queued", "running"}, NEW i \in Indices
      PROVE  /\ slots[handles[i].slot].generation = handles[i].generation
             /\ handles[i].generation \in pins
             /\ \A p \in SpanOf(handles[i].slot) : pte[p] = handles[i].generation
  <2>1. Safe(Run)
    BY <1>1, <1>4, RunFields DEF Sound, Unbegun
  <2>2. vmHeld = Indices /\ handles \in [Indices -> Handle]
    BY <1>4, <2>1, RunFields, Zenon DEF Safe, Guarded, Counted
  <2>3. Lookup(ContextOwner, handles[i], {"Bound", "Retiring"})
    BY <2>1, <2>2, RunFields, Zenon DEF Safe, Counted
  <2>4. PICK s \in Slots : s = handles[i].slot
    BY <2>2 DEF Handle
  <2>5. slots[s].state \in {"Bound", "Retiring"} /\ slots[s].generation = handles[i].generation
    BY <2>3, <2>4 DEF Lookup
  <2>6. slots[s].generation \in pins /\ \A p \in SpanOf(s) : pte[p] = slots[s].generation
    BY <1>1, <2>5 DEF VmInv, Backed, BoundIsMapped
  <2>7. QED
    BY <2>4, <2>5, <2>6
<1>5. QED
  BY <1>2, <1>3, <1>4 DEF RunIsBacked

-----------------------------------------------------------------------------
\* A mailbox in use has at most one request with the GuC: the one it polls for.
\* Any other that may still be answered has poisoned it.
MboxInv ==
    /\ bound \in BOOLEAN /\ poisoned \in BOOLEAN /\ attempt \in Nat
    /\ attempt = 0 => phase = "idle" /\ ~poisoned
    /\ ~poisoned /\ phase # "poll" => serving = None
    /\ phase \in {"ring", "poll"} => ~poisoned
    /\ phase = "ring" => reg = Host
    /\ phase = "poll" =>
          /\ serving \in {None, This}
          /\ reg = Host \/ reg.to = This
          /\ reg.by \notin {"host", "busy", "unknown"} => serving = None

\* Every step of the host and every answer of the GuC keeps it so.
LEMMA MboxSteps == MboxInv /\ [MboxNext]_mboxVars => MboxInv'
<1> SUFFICES ASSUME MboxInv, [MboxNext]_mboxVars PROVE MboxInv'
  OBVIOUS
<1>h. Host.by = "host"
  BY DEF Host
<1>1. CASE Configure
  BY <1>1 DEF MboxInv, Configure, Attempted
<1>2. CASE Refuse
  BY <1>2 DEF MboxInv, Refuse, Leave
<1>3. CASE WriteRequest
  BY <1>3 DEF MboxInv, WriteRequest
<1>4. CASE RingDoorbell
  BY <1>h, <1>4 DEF MboxInv, RingDoorbell, This
<1>5. CASE AccessFails
  BY <1>5 DEF MboxInv, AccessFails, Leave, Poison
<1>6. CASE TimesOut \/ PollsUsed \/ PollCorrupt
  BY <1>6, Zenon DEF MboxInv, TimesOut, PollsUsed, PollCorrupt, Leave, Poison
<1>7. CASE PollAgain
  BY <1>7 DEF MboxInv, PollAgain, This
<1>8. CASE PollRefused
  BY <1>8 DEF MboxInv, PollRefused, Leave
<1>9. CASE PollSuccess
  <2>1. phase = "poll" /\ reg.by = "success" /\ phase' \in {"idle", "write"}
        /\ UNCHANGED <<bound, attempt, poisoned, reg, serving>>
    BY <1>9 DEF PollSuccess, Expected, Leave
  <2>2. serving = None
    BY <2>1 DEF MboxInv
  <2>3. QED
    BY <2>1, <2>2 DEF MboxInv
<1>10. CASE GuCAnswers
  <2>1. serving # None /\ UNCHANGED <<bound, attempt, k, phase, poisoned>>
    BY <1>10 DEF GuCAnswers, hostOnly
  <2>2. PICK by \in Answers : /\ reg' = [by |-> by, to |-> serving]
                              /\ serving' = IF by \in {"busy", "unknown"} THEN serving ELSE None
    BY <1>10, Zenon DEF GuCAnswers
  <2>3. poisoned \/ (phase = "poll" /\ serving = This)
    BY <2>1 DEF MboxInv
  <2>4. reg'.by = by /\ reg'.to = serving
    BY <2>2
  <2>5. QED
    BY <2>1, <2>2, <2>3, <2>4 DEF MboxInv, This
<1>11. CASE UNCHANGED mboxVars
  BY <1>11 DEF MboxInv, mboxVars, This
<1>12. QED
  BY <1>1, <1>2, <1>3, <1>4, <1>5, <1>6, <1>7, <1>8, <1>9, <1>10, <1>11, Zenon DEF MboxNext

\* exchange() never takes the late answer to an earlier request for its own:
\* whatever failed or timed out before, the mailbox was given up with it.
THEOREM AnswersAreOwn == MboxSpec => []AnswerIsOwn
<1>1. MboxInit => MboxInv
  <2>1. 0 \in Nat /\ "idle" \notin {"ring", "poll"}
    OBVIOUS
  <2>2. QED
    BY <2>1, Zenon DEF MboxInit, MboxInv
<1>2. MboxInv => AnswerIsOwn
  <2>1. Host.by = "host"
    BY DEF Host
  <2>2. QED
    BY <2>1 DEF MboxInv, AnswerIsOwn
<1>3. QED
  BY <1>1, <1>2, MboxSteps, PTL DEF MboxSpec

-----------------------------------------------------------------------------
Requesters == {"nobody", "other", "driver"}

WakeStates == [refs : 0..MaxRefs, fault : BOOLEAN, control : Requesters, ack : BOOLEAN]

WakeTypeOK ==
    /\ attached \in BOOLEAN /\ wakeFault \in BOOLEAN
    /\ refs \in [Domains -> 0..MaxRefs]
    /\ control \in [Domains -> Requesters]
    /\ ack \in [Domains -> BOOLEAN]

\* The count of one domain tells the truth about the request and its answer.
Honest(w) ==
    /\ w.refs # 0 <=> w.control = "driver"
    /\ w.refs # 0 => w.ack

WakeInv ==
    /\ WakeTypeOK
    /\ ~wakeFault => \A d \in Domains : Honest(Wake(d))
    /\ ~wakeFault /\ refs[Render] # 0 => refs[Gt] # 0
    /\ ~attached => CanDetach

\* write32() changes the requester, at most; when it succeeds, it does.
LEMMA WrittenFacts ==
    ASSUME NEW w \in WakeStates, NEW who \in Requesters, NEW x \in Written(w, who)
    PROVE  /\ x.w \in WakeStates /\ x.w.refs = w.refs /\ x.w.fault = w.fault /\ x.w.ack = w.ack
           /\ x.ok \in BOOLEAN
           /\ x.ok => x.w.control = who
<1> DEFINE u == [w EXCEPT !.control = who]
<1>1. u \in WakeStates /\ u.refs = w.refs /\ u.fault = w.fault /\ u.ack = w.ack /\ u.control = who
  BY DEF WakeStates
<1>2. \/ x = [w |-> u, ok |-> TRUE]
      \/ x = [w |-> u, ok |-> FALSE]
      \/ x = [w |-> w, ok |-> FALSE]
  BY DEF Written
<1> HIDE DEF u
<1>3. \/ x.w = u /\ x.ok = TRUE
      \/ x.w = u /\ x.ok = FALSE
      \/ x.w = w /\ x.ok = FALSE
  BY <1>2
<1>4. QED
  BY <1>1, <1>3, Zenon

\* wait() changes the acknowledge bit, at most, and towards the request; when
\* it succeeds, the bit has the level looked for.
LEMMA WaitedFacts ==
    ASSUME NEW w \in WakeStates, NEW awake \in BOOLEAN, NEW y \in Waited(w, awake)
    PROVE  /\ y.w \in WakeStates /\ y.w.refs = w.refs /\ y.w.fault = w.fault
           /\ y.w.control = w.control
           /\ y.ok \in BOOLEAN
           /\ y.ok => y.w.ack = awake
<1> DEFINE settled == [w EXCEPT !.ack = Asked(w.control)]
<1>1. /\ settled \in WakeStates /\ settled.refs = w.refs /\ settled.fault = w.fault
      /\ settled.control = w.control
  BY Zenon DEF WakeStates, Asked
<1>2. \E v \in {w, settled} :
         \/ y = [w |-> v, ok |-> FALSE]
         \/ y = [w |-> v, ok |-> TRUE] /\ v.ack = awake
  BY Zenon DEF Waited
<1> HIDE DEF settled
<1>3. PICK v \in {w, settled} :
         y.w = v /\ (y.ok = FALSE \/ (y.ok = TRUE /\ v.ack = awake))
  BY <1>2
<1>4. v \in WakeStates /\ v.refs = w.refs /\ v.fault = w.fault /\ v.control = w.control
  BY <1>1, <1>3
<1>5. QED
  BY <1>3, <1>4, Zenon

\* Recording a fault changes nothing else of the state's shape.
LEMMA FaultedFacts ==
    ASSUME NEW w \in WakeStates
    PROVE  Faulted(w) \in WakeStates /\ Faulted(w).fault
  BY Zenon DEF Faulted, WakeStates

\* A withdrawn request leaves a fault or no request of the driver.
LEMMA WithdrawnFacts ==
    ASSUME NEW w \in WakeStates, w.refs = 0, NEW v \in Withdrawn(w)
    PROVE  v \in WakeStates /\ (v.fault \/ Honest(v))
<1>1. PICK x \in Written(w, "nobody") :
         v \in IF ~x.ok THEN {Faulted(x.w)}
               ELSE {IF y.ok THEN y.w ELSE Faulted(y.w) : y \in Waited(x.w, FALSE)}
  BY Zenon DEF Withdrawn
<1>2. /\ x.w \in WakeStates /\ x.w.refs = 0 /\ x.ok \in BOOLEAN
      /\ x.ok => x.w.control = "nobody"
  BY WrittenFacts DEF Requesters
<1>3. CASE ~x.ok
  BY <1>1, <1>2, <1>3, FaultedFacts
<1>4. CASE x.ok
  <2>1. PICK y \in Waited(x.w, FALSE) : v = IF y.ok THEN y.w ELSE Faulted(y.w)
    BY <1>1, <1>4, Zenon
  <2>2. /\ y.w \in WakeStates /\ y.w.refs = 0 /\ y.w.control = "nobody" /\ y.ok \in BOOLEAN
    BY <1>2, <1>4, WaitedFacts, Zenon
  <2>3. QED
    BY <2>1, <2>2, FaultedFacts DEF Honest
<1>5. QED
  BY <1>2, <1>3, <1>4

\* The first acquire() of a domain counts it only with the driver's request
\* acknowledged, and otherwise leaves a fault or no request of the driver.
LEMMA FirstAcquiredFacts ==
    ASSUME NEW w \in WakeStates, w.refs = 0, Honest(w), NEW v \in FirstAcquired(w)
    PROVE  v \in WakeStates /\ (v.fault \/ Honest(v))
<1>1. CASE v = w
  BY <1>1
<1>2. CASE v # w
  <2>1. PICK x \in Written(w, "driver") :
           v \in IF ~x.ok THEN {Faulted(x.w)}
                 ELSE UNION {IF y.ok THEN {[y.w EXCEPT !.refs = 1]} ELSE Withdrawn(y.w) :
                                y \in Waited(x.w, TRUE)}
    BY <1>2, Zenon DEF FirstAcquired
  <2>2. /\ x.w \in WakeStates /\ x.w.refs = 0 /\ x.ok \in BOOLEAN
        /\ x.ok => x.w.control = "driver"
    BY WrittenFacts DEF Requesters
  <2>3. CASE ~x.ok
    BY <2>1, <2>2, <2>3, FaultedFacts
  <2>4. CASE x.ok
    <3>1. PICK y \in Waited(x.w, TRUE) :
             v \in IF y.ok THEN {[y.w EXCEPT !.refs = 1]} ELSE Withdrawn(y.w)
      BY <2>1, <2>4, Zenon
    <3>2. /\ y.w \in WakeStates /\ y.w.refs = 0 /\ y.w.control = "driver" /\ y.ok \in BOOLEAN
          /\ y.ok => y.w.ack = TRUE
      BY <2>2, <2>4, WaitedFacts, Zenon
    <3>3. CASE y.ok
      <4>1. v = [y.w EXCEPT !.refs = 1]
        BY <3>1, <3>3
      <4>2. QED
        BY <4>1, <3>2, <3>3, MaxRefsAssumption DEF WakeStates, Honest
    <3>4. CASE ~y.ok
      BY <3>1, <3>2, <3>4, WithdrawnFacts
    <3>5. QED
      BY <3>2, <3>3, <3>4
  <2>5. QED
    BY <2>2, <2>3, <2>4
<1>3. QED
  BY <1>1, <1>2

\* The last release() gives the count up only with the request withdrawn.
LEMMA LastReleasedFacts ==
    ASSUME NEW w \in WakeStates, NEW v \in LastReleased(w)
    PROVE  v \in WakeStates /\ (v.fault \/ Honest(v))
<1>1. PICK x \in Written(w, "nobody") :
         v \in IF ~x.ok THEN {Faulted(x.w)}
               ELSE {IF y.ok THEN [y.w EXCEPT !.refs = 0] ELSE Faulted(y.w) :
                        y \in Waited(x.w, FALSE)}
  BY Zenon DEF LastReleased
<1>2. /\ x.w \in WakeStates /\ x.ok \in BOOLEAN
      /\ x.ok => x.w.control = "nobody"
  BY WrittenFacts DEF Requesters
<1>3. CASE ~x.ok
  BY <1>1, <1>2, <1>3, FaultedFacts
<1>4. CASE x.ok
  <2>1. PICK y \in Waited(x.w, FALSE) : v = IF y.ok THEN [y.w EXCEPT !.refs = 0] ELSE Faulted(y.w)
    BY <1>1, <1>4, Zenon
  <2>2. /\ y.w \in WakeStates /\ y.w.control = "nobody" /\ y.ok \in BOOLEAN
    BY <1>2, <1>4, WaitedFacts, Zenon
  <2>3. CASE y.ok
    BY <2>1, <2>2, <2>3, MaxRefsAssumption DEF WakeStates, Honest
  <2>4. CASE ~y.ok
    BY <2>1, <2>2, <2>4, FaultedFacts
  <2>5. QED
    BY <2>2, <2>3, <2>4
<1>5. QED
  BY <1>2, <1>3, <1>4

\* A call that leaves its domain with a fault or an honest count, and that
\* takes GT's count away only when render's is gone, keeps the invariant.
LEMMA CallKeepsInv ==
    ASSUME WakeInv, attached, ~wakeFault, NEW d \in Domains, NEW w \in WakeStates,
           w.fault \/ Honest(w), WakeBecomes(d, w),
           ~w.fault /\ d = Render /\ w.refs # 0 => refs[Gt] # 0,
           ~w.fault /\ d = Gt /\ w.refs = 0 => refs[Render] = 0
    PROVE  WakeInv'
<1> USE DEF Domains, Gt, Render
<1>1. /\ attached' = TRUE /\ wakeFault' = w.fault
      /\ refs' = [refs EXCEPT ![d] = w.refs]
      /\ control' = [control EXCEPT ![d] = w.control]
      /\ ack' = [ack EXCEPT ![d] = w.ack]
  BY DEF WakeBecomes, WakeInv, WakeTypeOK
<1>2. WakeTypeOK'
  BY <1>1 DEF WakeInv, WakeTypeOK, WakeStates
<1>3. ASSUME ~wakeFault', NEW e \in Domains
      PROVE  Honest(Wake(e))'
  <2>1. CASE e = d
    <3>1. /\ refs'[e] = w.refs /\ control'[e] = w.control /\ ack'[e] = w.ack
      BY <1>1, <2>1 DEF WakeInv, WakeTypeOK
    <3>2. Honest(w)
      BY <1>1, <1>3
    <3>3. QED
      BY <3>1, <3>2 DEF Honest, Wake
  <2>2. CASE e # d
    <3>1. /\ refs'[e] = refs[e] /\ control'[e] = control[e] /\ ack'[e] = ack[e]
      BY <1>1, <2>2 DEF WakeInv, WakeTypeOK
    <3>2. Honest(Wake(e))
      BY DEF WakeInv
    <3>3. QED
      BY <3>1, <3>2 DEF Honest, Wake
  <2>3. QED
    BY <2>1, <2>2
<1>4. ~wakeFault' /\ refs'[Render] # 0 => refs'[Gt] # 0
  BY <1>1 DEF WakeInv, WakeTypeOK
<1>5. QED
  BY <1>1, <1>2, <1>3, <1>4 DEF WakeInv

\* Nothing is counted or requested before the driver attaches.
LEMMA WakeInitInv == WakeInit => WakeInv
<1> SUFFICES ASSUME WakeInit PROVE WakeInv
  OBVIOUS
<1> USE DEF Domains, Gt, Render
<1>1. refs = [d \in Domains |-> 0] /\ refs \in [Domains -> 0..MaxRefs]
  BY MaxRefsAssumption DEF WakeInit
<1>2. control \in [Domains -> {"nobody", "other"}] /\ control \in [Domains -> Requesters]
  BY DEF WakeInit, Requesters
<1>3. ack \in [Domains -> BOOLEAN]
  <2>1. ASSUME NEW d \in Domains PROVE (control[d] # "nobody") \in BOOLEAN
    OBVIOUS
  <2>2. QED
    BY <2>1, Zenon DEF WakeInit
<1>4. attached = FALSE /\ wakeFault = FALSE
  BY DEF WakeInit
<1>5. \A d \in Domains : refs[d] = 0 /\ control[d] # "driver"
  BY <1>1, <1>2
<1>6. \A d \in Domains : Honest(Wake(d))
  BY <1>5 DEF Honest, Wake
<1>7. QED
  BY <1>1, <1>2, <1>3, <1>4, <1>5, <1>6, Zenon DEF WakeInv, WakeTypeOK, CanDetach

\* Every call, failed ones included, and every step of the hardware or of the
\* other owner keeps the invariant.
LEMMA WakeNextInv == WakeInv /\ [WakeNext]_wakeVars => WakeInv'
<1> SUFFICES ASSUME WakeInv, [WakeNext]_wakeVars PROVE WakeInv'
  OBVIOUS
<1>0. ASSUME NEW d \in Domains PROVE Wake(d) \in WakeStates
  BY <1>0 DEF WakeInv, WakeTypeOK, Wake, WakeStates
<1>1. ASSUME NEW d \in Domains, Acquire(d) PROVE WakeInv'
  <2>1. /\ attached /\ ~wakeFault /\ refs[d] # MaxRefs /\ refs[d] \in 0..MaxRefs
        /\ Honest(Wake(d)) /\ (d = Render => refs[Gt] # 0)
        /\ refs[Render] # 0 => refs[Gt] # 0
    BY <1>1 DEF Acquire, WakeInv, WakeTypeOK
  <2>2. CASE refs[d] # 0
    <3> DEFINE w == [Wake(d) EXCEPT !.refs = @ + 1]
    <3>1. WakeBecomes(d, w)
      BY <1>1, <2>2 DEF Acquire
    <3>2. w \in WakeStates /\ Honest(w) /\ w.refs # 0
      BY <1>0, <2>1, <2>2, MaxRefsAssumption DEF Wake, WakeStates, Honest
    <3> HIDE DEF w
    <3>3. QED
      BY <2>1, <3>1, <3>2, CallKeepsInv
  <2>3. CASE refs[d] = 0
    <3>1. PICK w \in FirstAcquired(Wake(d)) : WakeBecomes(d, w)
      BY <1>1, <2>3 DEF Acquire
    <3>2. w \in WakeStates /\ (w.fault \/ Honest(w))
      BY <1>0, <2>1, <2>3, FirstAcquiredFacts DEF Wake
    <3>3. d = Gt => refs[Render] = 0
      BY <2>1, <2>3
    <3>4. QED
      BY <2>1, <3>1, <3>2, <3>3, CallKeepsInv
  <2>4. QED
    BY <2>2, <2>3
<1>2. ASSUME NEW d \in Domains, Release(d) PROVE WakeInv'
  <2>1. /\ attached /\ ~wakeFault /\ refs[d] # 0 /\ refs[d] \in 0..MaxRefs
        /\ Honest(Wake(d)) /\ (refs[Render] # 0 => refs[Gt] # 0)
        /\ d = Gt /\ refs[Gt] = 1 => refs[Render] = 0
    BY <1>2 DEF Release, WakeInv, WakeTypeOK
  <2>2. CASE refs[d] > 1
    <3> DEFINE w == [Wake(d) EXCEPT !.refs = @ - 1]
    <3>1. WakeBecomes(d, w)
      BY <1>2, <2>2 DEF Release
    <3>2. w \in WakeStates /\ Honest(w) /\ w.refs # 0
      BY <1>0, <2>1, <2>2, MaxRefsAssumption DEF Wake, WakeStates, Honest
    <3> HIDE DEF w
    <3>3. d = Render => refs[Gt] # 0
      BY <2>1
    <3>4. QED
      BY <2>1, <3>1, <3>2, <3>3, CallKeepsInv
  <2>3. CASE ~(refs[d] > 1)
    <3>1. PICK w \in LastReleased(Wake(d)) : WakeBecomes(d, w)
      BY <1>2, <2>3 DEF Release
    <3>2. w \in WakeStates /\ (w.fault \/ Honest(w))
      BY <1>0, LastReleasedFacts
    <3>3. refs[d] = 1
      BY <2>1, <2>3, MaxRefsAssumption
    <3>4. (d = Render => refs[Gt] # 0) /\ (d = Gt => refs[Render] = 0)
      BY <2>1, <3>3
    <3>5. QED
      BY <2>1, <3>1, <3>2, <3>4, CallKeepsInv
  <2>4. QED
    BY <2>2, <2>3
<1>3. ASSUME NEW d \in Domains, Settles(d) PROVE WakeInv'
  BY <1>3 DEF Settles, Asked, WakeInv, WakeTypeOK, Honest, Wake, CanDetach, Requesters
<1>4. ASSUME NEW d \in Domains, OtherReleases(d) PROVE WakeInv'
  BY <1>4 DEF OtherReleases, WakeInv, WakeTypeOK, Honest, Wake, CanDetach, Requesters
<1>5. CASE AttachMmio
  BY <1>5 DEF AttachMmio, WakeInv, WakeTypeOK, Honest, Wake, CanDetach
<1>6. CASE DetachMmio
  BY <1>6, Zenon DEF DetachMmio, WakeInv, WakeTypeOK, Honest, Wake, CanDetach
<1>7. CASE UNCHANGED wakeVars
  BY <1>7 DEF wakeVars, WakeInv, WakeTypeOK, Honest, Wake, CanDetach
<1>8. QED
  BY <1>1, <1>2, <1>3, <1>4, <1>5, <1>6, <1>7 DEF WakeNext

\* The invariant gives the property the run checks.
LEMMA WakeInvOwns == WakeInv => WakeIsOwned
  BY DEF WakeInv, WakeTypeOK, WakeIsOwned, CanDetach, Honest, Wake, Domains, Gt, Render

\* ForceWake's counts are true whatever write, read or wait failed: what the
\* driver counts it requested and the hardware confirmed, render only inside
\* GT, and a mapping that was given up left no request behind.
THEOREM WakeOwned == WakeSpec => []WakeIsOwned
<1>1. QED
  BY WakeInitInv, WakeNextInv, WakeInvOwns, PTL DEF WakeSpec

-----------------------------------------------------------------------------
LOCAL INSTANCE WellFoundedInduction

\* The numbers are well ordered, for they are well founded: what the inductions
\* over the handles of releaseVm() and begin() rest on.
LEMMA Least == Wellordered
<1> SUFFICES ASSUME NEW T \in SUBSET Nat, T # {} PROVE \E x \in T : \A y \in T : x <= y
  BY DEF Wellordered
<1>1. PICK R : IsWellFoundedOn(R, Nat) /\ R = {p \in Nat \X Nat : p[1] < p[2]}
  BY NatLessThanWellFounded, Zenon DEF OpToRel
<1>2. PICK x \in T : \A y \in T : ~(<<y, x>> \in R)
  BY <1>1, WFMin, Zenon
<1>3. \A y \in T : ~(y < x)
  BY <1>1, <1>2, Zenon
<1>4. QED
  BY <1>3

\* Whatever begin(), poll() and close() meet, what the execution holds is
\* counted, what the GPU may use is held, and the state is earned.
THEOREM ExecutionInvariant == ExecSpec => []ExecInv
<1>1. ExecInit => ExecInv
  BY ExecStarts
<1>2. ExecInv /\ [ExecNext]_execVars => ExecInv'
  BY Least, ExecSteps
<1>3. QED
  BY <1>1, <1>2, PTL DEF ExecSpec

\* While the GPU may run a job, every allocation it names is the one it named,
\* mapped and pinned, and until hardware is quiet the context and the fence
\* slot are held: for any number of handles, of clients that retire and reclaim
\* them, of time-outs, refused sends and calls of close().
THEOREM RunIsAlwaysBacked == ExecSpec => []RunIsBacked
<1>1. ExecInv => RunIsBacked
  BY ExecMeans
<1>2. QED
  BY <1>1, ExecutionInvariant, PTL

\* poll() reports Completed, and observe() a sequence, only after the job's own
\* post-sync write, whatever the slot held before bind() and whatever stray
\* qword outside the window hits it.
THEOREM CompletionIsAlwaysReal == ExecSpec => []CompletionIsReal
<1>1. ExecInv => CompletionIsReal
  BY ExecMeans
<1>2. QED
  BY <1>1, ExecutionInvariant, PTL

=============================================================================
