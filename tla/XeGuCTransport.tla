--------------------------- MODULE XeGuCTransport ---------------------------
(***************************************************************************)
(* XeGuC::Transport (Mellow/XeGuCTransport.cpp): commands to the GuC go    *)
(* through the H2G ring, replies and events come back through the G2H      *)
(* ring.  A table of pending commands owns cookies and response credits.   *)
(*                                                                         *)
(* Host calls are serialised, so one action is one call.  The GuC runs     *)
(* concurrently; it is modelled by what it may read and answer.  The H2G   *)
(* ring is modelled word by word, the G2H ring as a bounded queue of       *)
(* messages.  Every entry has a deadline of its own choosing, so a call    *)
(* that looks at the clock may expire any set of unanswered entries.       *)
(***************************************************************************)
EXTENDS Integers, Sequences, FiniteSets, FiniteSetsExt

CONSTANTS
    MaxPending,         \* maxPending: entries of pending_
    HCount, GCount,     \* words of the two rings, powers of two
    MaxFences,          \* the range of cookie numbers (0x8000 in the code)
    Environments        \* the callers and peers considered

\* Words of an action, CT header included.
Length == [request |-> 3, mode |-> 4, dereg |-> 3, schedule |-> 3,
           register |-> 13]
\* Response words reserved in G2H.
Reserve == [request |-> 256, mode |-> 4, dereg |-> 3, schedule |-> 0,
            register |-> 0]

\* words[0], words[1] and words[2] of an action.
Action == [act : DOMAIN Length, ctx : Nat, mode : Nat]

ASSUME PendingAssumption == MaxPending \in Nat \ {0}
ASSUME RingAssumption == HCount \in Nat /\ HCount > 13 /\ GCount \in Nat
ASSUME FencesAssumption == MaxFences \in Nat \ {0}

\* A caller and a GuC: the commands sent, how many of them in an epoch, a bound
\* on unread G2H messages, whether the GuC also sends replies nobody asked for,
\* and whether the caller retires a command that has no final reply.
ASSUME EnvironmentsAssumption == \A e \in Environments :
    /\ e.actions \subseteq Action /\ e.fences \in 1 .. MaxFences
    /\ e.depth \in Nat /\ e.faulty \in BOOLEAN /\ e.impatient \in BOOLEAN

MaxCredits == GCount - 1 - GCount \div 2

VARIABLES
    env,            \* the caller and the GuC, fixed for a behaviour
    attached,       \* attached_
    broken,         \* broken_, with its cause: an access or a message
    pending,        \* pending_
    nextFence,      \* nextFence_
    credits,        \* credits_
    hTail,          \* hTail_ and the published H2G tail
    hWords,         \* H2G buffer
    hHead,          \* GuC: H2G head
    guc,            \* GuC: commands read and not finally answered
    g2h,            \* GuC: messages the host has not consumed
    granted         \* GuC: cookies it answered with success

table == <<pending, nextFence, credits>>
ring == <<hTail, hWords>>
peer == <<hHead, guc, g2h, granted>>
ctVars == <<env, attached, broken, pending, nextFence, credits, hTail, hWords,
            hHead, guc, g2h, granted>>

Entries == 1 .. MaxPending
Finals == {"Success", "Failure", "Retry", "TimedOut"}
ReplyStates == Finals \cup {"Free", "Pending", "Busy", "SentUnconfirmed"}

\* FAST_REQUEST cookies have bit 15 set.
Cookie(a, n) == IF a.act = "request" THEN n ELSE n + MaxFences
IsFast(fence) == fence >= MaxFences
Number(fence) == fence % MaxFences

NoCommand == [fence |-> 0, a |-> [act |-> "request", ctx |-> 0, mode |-> 0]]
FreeEntry == [state |-> "Free", cmd |-> NoCommand, held |-> FALSE,
              late |-> FALSE, terminal |-> FALSE]
Padding == [at |-> 0, cmd |-> NoCommand]

CtInit ==
    /\ env \in Environments
    /\ attached = FALSE /\ broken = "no"
    /\ pending = [i \in Entries |-> FreeEntry]
    /\ nextFence = 0 /\ credits = 0
    /\ hTail = 0 /\ hWords = [w \in 0 .. HCount - 1 |-> Padding]
    /\ hHead = 0 /\ guc = {} /\ g2h = <<>> /\ granted = {}

Used(i) == pending[i].state # "Free"
Free == {i \in Entries : ~Used(i)}
Live == attached /\ broken = "no"

\* attach: the GuC may already have queued unsolicited events.
Attach ==
    /\ ~attached
    /\ attached' = TRUE
    /\ credits' = MaxCredits
    /\ UNCHANGED <<env, broken, pending, nextFence, ring, peer>>

-----------------------------------------------------------------------------
\* A mode or deregister command still waiting for its event on the context.
\* Faulty variant: OverlapsNever allows a second transition.
OverlapsNever(a) == FALSE
Overlaps(a) ==
    /\ a.act # "request"
    /\ \E i \in Entries :
           /\ pending[i].held
           /\ pending[i].cmd.a.ctx = a.ctx
           /\ pending[i].cmd.a.act \in {"mode", "dereg"}

Space == (hHead - hTail - 1) % HCount

Affordable(a) == Reserve[a.act] # 0 => credits > Reserve[a.act]

\* Every check of send() that comes before the ring is written.
SendAdmitted(a) ==
    /\ Live
    /\ nextFence < env.fences
    /\ ~Overlaps(a)
    /\ Free # {}
    /\ Affordable(a)
    /\ Space >= Length[a.act]

\* A message must be contiguous: the end of the buffer is zero-filled first.
NeedsPadding(a) == hTail + Length[a.act] > HCount
Padded == [w \in DOMAIN hWords |-> IF w >= hTail THEN Padding ELSE hWords[w]]
Start(a) == IF NeedsPadding(a) THEN 0 ELSE hTail
\* Faulty variant: RoomAfterPaddingAlways does not count the padding.
RoomAfterPaddingAlways(a) == TRUE
RoomAfterPadding(a) ==
    NeedsPadding(a) => Space - (HCount - hTail) >= Length[a.act]

Command(a) == [fence |-> Cookie(a, nextFence), a |-> a]

\* *slot = {...}: the last free entry takes the command.
Enter(a) ==
    /\ pending' = [pending EXCEPT ![Max(Free)] =
                     [state |-> IF Reserve[a.act] # 0 THEN "Pending"
                                                      ELSE "SentUnconfirmed",
                      cmd |-> Command(a), held |-> Reserve[a.act] # 0,
                      late |-> FALSE, terminal |-> FALSE]]
    /\ credits' = credits - Reserve[a.act]

TakeFence == nextFence' = nextFence + 1

\* The words of the message in the (padded) buffer.
Written(a) ==
    LET base == IF NeedsPadding(a) THEN Padded ELSE hWords
        first == Start(a)
    IN  [w \in DOMAIN base |->
            IF w \in first .. first + Length[a.act] - 1
            THEN [at |-> w - first + 1, cmd |-> Command(a)]
            ELSE base[w]]
NextTail(a) == (Start(a) + Length[a.act]) % HCount

Send(a) ==
    /\ SendAdmitted(a)
    /\ RoomAfterPadding(a)
    /\ Enter(a) /\ TakeFence
    /\ hWords' = Written(a)
    /\ hTail' = NextTail(a)
    /\ UNCHANGED <<env, attached, broken, peer>>

\* The padding is published, but the message no longer fits: Busy.
SendPadding(a) ==
    /\ SendAdmitted(a)
    /\ NeedsPadding(a) /\ ~RoomAfterPadding(a)
    /\ hWords' = Padded
    /\ hTail' = 0
    /\ UNCHANGED <<env, attached, broken, table, peer>>

\* A barrier or the doorbell fails while the padding is written: the new
\* tail may or may not have been published.
SendPaddingFails(a) ==
    /\ SendAdmitted(a)
    /\ NeedsPadding(a)
    /\ hWords' = Padded
    /\ hTail' \in {hTail, 0}
    /\ broken' = "access"
    /\ UNCHANGED <<env, attached, table, peer>>

\* PublishedUnknown: the entry keeps its cookie and its credits.
SendUnknown(a) ==
    /\ SendAdmitted(a)
    /\ RoomAfterPadding(a)
    /\ Enter(a) /\ TakeFence
    /\ hWords' = Written(a)
    /\ hTail' \in {Start(a), NextTail(a)}
    /\ broken' = "access"
    /\ UNCHANGED <<env, attached, peer>>

\* checkDescriptors: admission lost, a failed barrier or a corrupt descriptor.
DescriptorsFail ==
    /\ Live
    /\ broken' = "access"
    /\ UNCHANGED <<env, attached, table, ring, peer>>

-----------------------------------------------------------------------------
\* expire(): a timed-out entry keeps its credits.
\* Faulty variant: ExpiredReleasing gives them up.
ExpiredReleasing(S) ==
    [i \in Entries |-> IF i \in S THEN [pending[i] EXCEPT !.state = "TimedOut",
                                                          !.held = FALSE]
                                  ELSE pending[i]]
Expired(S) ==
    [i \in Entries |-> IF i \in S THEN [pending[i] EXCEPT !.state = "TimedOut"]
                                  ELSE pending[i]]
Overdue == SUBSET {i \in Entries : /\ pending[i].held
                                   /\ pending[i].state # "TimedOut"}

Expire(S) ==
    /\ S # {}
    /\ pending' = Expired(S)
    /\ UNCHANGED <<env, attached, broken, nextFence, credits, ring, peer>>

\* dispatch: events name a context, replies a cookie.
Events == {"modeDone", "deregDone"}
Replies == {"busy", "retry", "failure", "success"}

Candidates(t, m) ==
    CASE m.type = "modeDone" ->
            {i \in Entries : /\ t[i].held /\ t[i].cmd.a.act = "mode"
                             /\ t[i].cmd.a.ctx = m.ctx}
      [] m.type = "deregDone" ->
            {i \in Entries : /\ t[i].held /\ t[i].cmd.a.act = "dereg"
                             /\ t[i].cmd.a.ctx = m.ctx}
      [] OTHER ->
            {i \in Entries : t[i].state # "Free" /\ t[i].cmd.fence = m.fence}

\* The checks on the entry a message was matched to.
Accepts(e, m) ==
    /\ m.type = "modeDone" => m.mode = e.cmd.a.mode
    /\ m.type \in Replies =>
           IF IsFast(m.fence) THEN m.type = "failure" ELSE e.held
    /\ ~e.terminal
    /\ m.type # "busy" /\ e.held => Reserve[e.cmd.a.act] <= MaxCredits - credits

Target(t, m) == Max(Candidates(t, m))
Owned(t, m) == Candidates(t, m) # {} /\ Accepts(t[Target(t, m)], m)

Outcome(type) == CASE type = "failure" -> "Failure"
                   [] type = "retry" -> "Retry"
                   [] OTHER -> "Success"

\* BUSY is intermediate; a final reply releases the credits, and a result
\* that was already reported as TimedOut stays TimedOut.
Settled(e, m) ==
    LET late == e.state = "TimedOut"
    IN  IF m.type = "busy"
        THEN [e EXCEPT !.state = IF late THEN @ ELSE "Busy"]
        ELSE [e EXCEPT !.state = IF late THEN @ ELSE Outcome(m.type),
                       !.late = late, !.held = FALSE, !.terminal = TRUE]

Returned(e, m) ==
    IF m.type # "busy" /\ e.held THEN Reserve[e.cmd.a.act] ELSE 0

Dispatched(t, m) ==
    IF m.type = "unsolicited"
    THEN pending' = t /\ UNCHANGED credits
    ELSE /\ pending' = [t EXCEPT ![Target(t, m)] = Settled(@, m)]
         /\ credits' = credits + Returned(t[Target(t, m)], m)

\* receive(): expire, take one message, dispatch it, publish the new head.
Receivable(S, m) == m.type = "unsolicited" \/ Owned(Expired(S), m)

Receive(S) ==
    /\ Live /\ g2h # <<>>
    /\ Receivable(S, Head(g2h))
    /\ Dispatched(Expired(S), Head(g2h))
    /\ g2h' = Tail(g2h)
    /\ UNCHANGED <<env, attached, broken, nextFence, ring, hHead, guc, granted>>

\* A message without an owner stops the transport.
ReceiveRejected(S) ==
    /\ Live /\ g2h # <<>>
    /\ ~Receivable(S, Head(g2h))
    /\ pending' = Expired(S)
    /\ broken' = "message"
    /\ UNCHANGED <<env, attached, nextFence, credits, ring, peer>>

\* A barrier fails around the publication of the head.
ReceiveFails(S) ==
    /\ Live /\ g2h # <<>>
    /\ Receivable(S, Head(g2h))
    /\ Dispatched(Expired(S), Head(g2h))
    /\ g2h' \in {g2h, Tail(g2h)}
    /\ broken' = "access"
    /\ UNCHANGED <<env, attached, nextFence, ring, hHead, guc, granted>>

\* Faulty variant: RetirableHeld forgets credits that are still out.
RetirableHeld(i) == Used(i)
Retirable(i) ==
    /\ Used(i) /\ ~pending[i].held
    /\ env.impatient \/ pending[i].terminal

Retire(i) ==
    /\ Retirable(i)
    /\ pending' = [pending EXCEPT ![i] = FreeEntry]
    /\ UNCHANGED <<env, attached, broken, nextFence, credits, ring, peer>>

-----------------------------------------------------------------------------
\* The GuC reads the word at its head: padding is skipped, a command taken.
\* What it does after the transport has stopped is not observed any more.
PeerRead ==
    /\ Live /\ hHead # hTail
    /\ LET w == hWords[hHead]
       IN  IF w.at = 0
           THEN hHead' = (hHead + 1) % HCount /\ UNCHANGED guc
           ELSE /\ hHead' = (hHead + Length[w.cmd.a.act]) % HCount
                /\ guc' = IF env.faulty THEN {} ELSE guc \cup {w.cmd}
    /\ UNCHANGED <<env, attached, broken, table, ring, g2h, granted>>

Reply(type, c) == [type |-> type, fence |-> c.fence, ctx |-> c.a.ctx,
                   mode |-> c.a.mode]
Post(m) == broken = "no" /\ Len(g2h) < env.depth /\ g2h' = Append(g2h, m)

PeerBusy(c) ==
    /\ c.a.act = "request"
    /\ Post(Reply("busy", c))
    /\ UNCHANGED <<env, attached, broken, table, ring, hHead, guc, granted>>

\* What tells the host that command c was done; a plain FAST_REQUEST has none.
Done(c) == CASE c.a.act = "request" -> {"success"}
             [] c.a.act = "mode" -> {"modeDone"}
             [] c.a.act = "dereg" -> {"deregDone"}
             [] OTHER -> {}

PeerDone(c) ==
    /\ \E type \in Done(c) : Post(Reply(type, c))
    /\ guc' = guc \ {c}
    /\ granted' = granted \cup {c.fence}
    /\ UNCHANGED <<env, attached, broken, table, ring, hHead>>

PeerRefuses(c) ==
    /\ \E type \in {"failure"} \cup
                   (IF c.a.act = "request" THEN {"retry"} ELSE {}) :
           Post(Reply(type, c))
    /\ guc' = guc \ {c}
    /\ UNCHANGED <<env, attached, broken, table, ring, hHead, granted>>

PeerSilent(c) ==
    /\ Live /\ Done(c) = {}
    /\ guc' = guc \ {c}
    /\ UNCHANGED <<env, attached, broken, table, ring, hHead, g2h, granted>>

\* Unsolicited traffic.  A faulty GuC sends any reply to any command, whether
\* it has read it or not, so that it needs no state of its own.
PeerEvent ==
    /\ Post(Reply("unsolicited", NoCommand))
    /\ UNCHANGED <<env, attached, broken, table, ring, hHead, guc, granted>>

PeerFault ==
    /\ env.faulty
    /\ \E type \in Events \cup Replies, a \in env.actions, n \in 0 .. nextFence :
           Post(Reply(type, [fence |-> Cookie(a, n % MaxFences), a |-> a]))
    /\ UNCHANGED <<env, attached, broken, table, ring, hHead, guc, granted>>

Sending ==
    \E a \in env.actions :
        Send(a) \/ SendPadding(a) \/ SendPaddingFails(a) \/ SendUnknown(a)

Receiving ==
    \E S \in Overdue : Receive(S) \/ ReceiveRejected(S) \/ ReceiveFails(S)

Peer ==
    \/ PeerRead \/ PeerEvent \/ PeerFault
    \/ \E c \in guc : PeerBusy(c) \/ PeerDone(c) \/ PeerRefuses(c) \/ PeerSilent(c)

CtNext ==
    \/ Attach \/ Sending \/ DescriptorsFail \/ Receiving
    \/ \E S \in Overdue : Expire(S)
    \/ \E i \in Entries : Retire(i)
    \/ Peer

CtSpec == CtInit /\ [][CtNext]_ctVars

-----------------------------------------------------------------------------
\* Response credits are neither lost nor invented by timeouts, late replies,
\* uncertain publications, retirement or a misbehaving GuC.
CreditsConserved ==
    LET Out(i) == IF pending[i].held THEN Reserve[pending[i].cmd.a.act] ELSE 0
    IN  attached => credits + MapThenSumSet(Out, Entries) = MaxCredits

\* The commands the GuC will read from its head to the tail, by distance.
Torn == [NoCommand EXCEPT !.fence = -1]
Unread ==
    LET Walk[d \in 0 .. HCount - 1] ==
            LET at == (hTail - d) % HCount
                w == hWords[at]
                len == Length[w.cmd.a.act]
            IN  IF d = 0 THEN <<>>
                ELSE IF w.at = 0 THEN Walk[d - 1]
                ELSE IF /\ len <= d /\ at + len <= HCount
                        /\ \A k \in 1 .. len :
                               hWords[at + k - 1] = [at |-> k, cmd |-> w.cmd]
                THEN <<w.cmd>> \o Walk[d - len]
                ELSE <<Torn>>
    IN  Walk[(hTail - hHead) % HCount]

\* What the GuC finds in the H2G ring is exactly the latest commands sent, in
\* order, whole, across wrap-around, padding and a full ring.
RingIsFifo ==
    broken = "no" =>
        \A k \in 1 .. Len(Unread) :
            /\ Unread[k] # Torn
            /\ Number(Unread[k].fence) = nextFence - Len(Unread) + k - 1

\* A control command is reported successful only if the GuC answered that
\* very command with success, although events name only a context.
SuccessIsReal ==
    \A i \in Entries :
        pending[i].state = "Success" /\ ~env.faulty =>
            pending[i].cmd.fence \in granted

\* A GuC that follows the protocol never stops the transport by a message:
\* every reply still to come has an owner in the table.
RepliesHaveOwners == broken = "message" => env.faulty

=============================================================================
