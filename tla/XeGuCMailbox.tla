---------------------------- MODULE XeGuCMailbox ----------------------------
(***************************************************************************)
(* XeGuC::Mailbox::exchange and configureAndEnable, as IOKitBinding::      *)
(* startTransport uses them (Mellow/XeGuCTransport.cpp, ...IOKit.cpp): six *)
(* SELF_CFG requests and CONTROL_CTB, one at a time through the same four  *)
(* registers, each polled for an answer of the GuC.                        *)
(*                                                                         *)
(* The GuC runs between any two register accesses of the host.  A request  *)
(* is <<attempt, number>>; the register holds either the words of the host *)
(* or an answer tagged with the request it belongs to.  The registers have *)
(* one owner: a caller that keeps one Mailbox, or a binding that makes a   *)
(* new one in startTransport.                                              *)
(***************************************************************************)
EXTENDS Integers

CONSTANTS
    Requests,       \* SELF_CFG requests before CONTROL_CTB (6 in the code)
    MaxPolls,       \* polls of one exchange (2052 in the code)
    MaxAttempts     \* calls of configureAndEnable on one mailbox

ASSUME RequestsAssumption == Requests \in Nat \ {0}
ASSUME PollsAssumption == MaxPolls \in Nat \ {0}
ASSUME AttemptsAssumption == MaxAttempts \in Nat \ {0}

VARIABLES
    bound,      \* the owner is a binding (IOKitBinding)
    attempt,    \* calls of configureAndEnable so far
    k,          \* request being exchanged, 0 outside configureAndEnable
    phase,      \* "idle", "write", "ring" (doorbell) or "poll"
    polls,      \* polls of this exchange
    seenBusy,   \* seenBusy
    poisoned,   \* poisoned_
    enabled,    \* configureAndEnable returned Ok (enabled_)
    reg,        \* first mailbox register: who wrote it and what
    serving,    \* GuC: request latched by the doorbell, or none
    applied     \* GuC: requests it has carried out

mboxVars == <<bound, attempt, k, phase, polls, seenBusy, poisoned, enabled,
              reg, serving, applied>>
hostOnly == <<attempt, k, phase, polls, seenBusy, poisoned, enabled>>

Last == Requests + 1
None == <<0, 0>>
This == <<attempt, k>>

\* Answers: BUSY, RETRY, FAILURE, SUCCESS with the expected or another value,
\* and a header of no known type.
Answers == {"busy", "retry", "failure", "success", "other", "unknown"}
Host == [by |-> "host", to |-> None]

MboxInit ==
    /\ bound \in BOOLEAN
    /\ attempt = 0 /\ k = 0 /\ phase = "idle" /\ polls = 0
    /\ seenBusy = FALSE /\ poisoned = FALSE /\ enabled = FALSE
    /\ reg = Host /\ serving = None /\ applied = {}

\* attempted_: a binding configures once.
Attempted == bound /\ attempt > 0

\* configureAndEnable on a valid configuration, allowed because the CTB is
\* stopped; a binding brings a new mailbox.
Configure ==
    /\ phase = "idle" /\ attempt < MaxAttempts /\ ~Attempted
    /\ \A a \in 1 .. attempt : <<a, Last>> \notin applied
    /\ attempt' = attempt + 1 /\ k' = 1 /\ phase' = "write"
    /\ poisoned' = (poisoned /\ ~bound)
    /\ UNCHANGED <<bound, polls, seenBusy, enabled, reg, serving, applied>>

\* Return of configureAndEnable with an error.
Leave == k' = 0 /\ phase' = "idle"

\* No register has been touched: admission lost, or the mailbox is poisoned.
Refuse ==
    /\ phase = "write"
    /\ Leave
    /\ UNCHANGED <<bound, attempt, polls, seenBusy, poisoned, enabled, reg,
                   serving, applied>>

\* The request words are written, and read back to post them.
WriteRequest ==
    /\ phase = "write" /\ ~poisoned
    /\ reg' = Host
    /\ phase' = "ring" /\ polls' = 0 /\ seenBusy' = FALSE
    /\ UNCHANGED <<bound, attempt, k, poisoned, enabled, serving, applied>>

RingDoorbell ==
    /\ phase = "ring"
    /\ serving' = This
    /\ phase' = "poll"
    /\ UNCHANGED <<bound, attempt, k, polls, seenBusy, poisoned, enabled, reg, applied>>

\* finish(s, true): failed accesses, a clock that runs backwards, timeouts and
\* unexpected headers leave an answer possible that nobody will wait for.
\* Faulty variant: PoisonNot keeps using the mailbox.
PoisonNot == UNCHANGED poisoned
Poison == poisoned' = TRUE

AccessFails ==
    /\ phase \in {"write", "ring", "poll"} /\ ~poisoned
    /\ Leave /\ Poison
    /\ reg' \in IF phase = "write" THEN {reg, Host} ELSE {reg}
    /\ serving' \in IF phase = "ring" THEN {serving, This} ELSE {serving}
    /\ UNCHANGED <<bound, attempt, polls, seenBusy, enabled, applied>>

\* 50 ms without an answer or 2 s of BUSY, on a clock that may also be stuck.
TimesOut ==
    /\ phase = "poll"
    /\ Leave /\ Poison
    /\ UNCHANGED <<bound, attempt, polls, seenBusy, enabled, reg, serving, applied>>

\* for (poll = 0; poll < 2052; ++poll).  Faulty variant: PollsUncounted.
PollsUncounted == polls
CountPoll == polls + 1
MorePolls == polls < MaxPolls - 1

\* Headers that are no answer, and headers that break the protocol.
Waiting == reg.by = "busy" \/ (reg.by = "host" /\ ~seenBusy)
Corrupt == reg.by = "unknown" \/ (reg.by = "host" /\ seenBusy)

PollAgain ==
    /\ phase = "poll" /\ Waiting /\ MorePolls
    /\ polls' = CountPoll
    /\ seenBusy' = (seenBusy \/ reg.by = "busy")
    /\ UNCHANGED <<bound, attempt, k, phase, poisoned, enabled, reg, serving,
                   applied>>

PollsUsed ==
    /\ phase = "poll" /\ Waiting /\ ~MorePolls
    /\ Leave /\ Poison
    /\ UNCHANGED <<bound, attempt, polls, seenBusy, enabled, reg, serving, applied>>

PollCorrupt ==
    /\ phase = "poll" /\ Corrupt
    /\ Leave /\ Poison
    /\ UNCHANGED <<bound, attempt, polls, seenBusy, enabled, reg, serving, applied>>

\* SELF_CFG must return 1 and CONTROL_CTB 0.
Expected == {"success"}

\* RETRY, FAILURE and an unexpected value end the exchange cleanly.
PollRefused ==
    /\ phase = "poll" /\ reg.by \in {"retry", "failure", "other"} \ Expected
    /\ Leave
    /\ UNCHANGED <<bound, attempt, polls, seenBusy, poisoned, enabled, reg,
                   serving, applied>>

PollSuccess ==
    /\ phase = "poll" /\ reg.by \in Expected
    /\ IF k = Last THEN Leave /\ enabled' = TRUE
       ELSE k' = k + 1 /\ phase' = "write" /\ UNCHANGED enabled
    /\ UNCHANGED <<bound, attempt, polls, seenBusy, poisoned, reg, serving,
                   applied>>

\* The GuC answers the request it latched, at any time after the doorbell.
\* SUCCESS with the expected value means it has carried the request out; with
\* another value nobody can tell.
GuCAnswers ==
    /\ serving # None
    /\ \E by \in Answers, done \in SUBSET {serving} :
           /\ by = "success" => done # {}
           /\ by \notin {"success", "other"} => done = {}
           /\ reg' = [by |-> by, to |-> serving]
           /\ serving' = IF by \in {"busy", "unknown"} THEN serving ELSE None
           /\ applied' = applied \cup done
    /\ UNCHANGED hostOnly /\ UNCHANGED bound

MboxNext ==
    \/ Configure \/ Refuse \/ WriteRequest \/ RingDoorbell
    \/ AccessFails \/ TimesOut \/ PollAgain \/ PollsUsed \/ PollCorrupt
    \/ PollRefused \/ PollSuccess
    \/ GuCAnswers

\* The host thread keeps running; the GuC and the clock owe nothing.
MboxFairness ==
    WF_mboxVars(Refuse \/ WriteRequest \/ RingDoorbell \/ PollAgain
                \/ PollsUsed \/ PollCorrupt \/ PollRefused \/ PollSuccess)

MboxSpec == MboxInit /\ [][MboxNext]_mboxVars /\ MboxFairness

-----------------------------------------------------------------------------
\* The answer a poll sees belongs to the request being exchanged, never to one
\* that timed out or failed before.
AnswerIsOwn == phase = "poll" /\ reg.by # "host" => reg.to = This

\* configureAndEnable always returns, whatever the GuC does and even if the clock
\* stands still.
ExchangeReturns == k # 0 ~> k = 0
=============================================================================
