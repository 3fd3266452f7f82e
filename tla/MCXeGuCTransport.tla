-------------------------- MODULE MCXeGuCTransport --------------------------
(* Command sets for model checking XeGuCTransport.                         *)
EXTENDS XeGuCTransport

Request == [act |-> "request", ctx |-> 0, mode |-> 0]
Mode(ctx, on) == [act |-> "mode", ctx |-> ctx, mode |-> on]
Dereg(ctx) == [act |-> "dereg", ctx |-> ctx, mode |-> 0]
Schedule(ctx) == [act |-> "schedule", ctx |-> ctx, mode |-> 0]
\* words[1] of a registration is its flags word, the constant 1.
Register(id) == [act |-> "register", ctx |-> 1, mode |-> id]

Transitions == {Request, Mode(1, 0), Mode(1, 1), Dereg(1), Schedule(1)}

\* Any reply at any time, and callers that do not wait for replies.
Unruly == [actions |-> {Request, Mode(1, 1)}, fences |-> 2, depth |-> 1,
           faulty |-> TRUE, impatient |-> TRUE]
\* All kinds of commands on one context; everybody follows the protocol.
Orderly == [actions |-> Transitions, fences |-> 3, depth |-> 1,
            faulty |-> FALSE, impatient |-> FALSE]
\* Long and short commands around the end of the H2G ring; no replies.
Wrapping == [actions |-> {Schedule(2), Mode(1, 1), Register(2)}, fences |-> 4,
             depth |-> 0, faulty |-> FALSE, impatient |-> TRUE]
\* A caller that retires unconfirmed commands of a GuC that may still refuse.
Impatient == [actions |-> Transitions, fences |-> 2, depth |-> 1,
              faulty |-> FALSE, impatient |-> TRUE]

AllEnvironments == {Unruly, Orderly, Wrapping}
ImpatientOnly == {Impatient}
=============================================================================
