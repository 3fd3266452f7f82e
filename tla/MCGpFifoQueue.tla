--------------------------- MODULE MCGpFifoQueue ---------------------------
(* Instances of GpFifoQueue for model checking.  All slots start out alike, *)
(* so one choice of ring and fence will do.                                 *)
EXTENDS GpFifoQueue

MCBindings == {<<0, 1>>}

\* A ring that one job fills, claimed twice at its last entry; a ring with
\* room for two jobs in flight, claimed once.
Small == [entries |-> 2, starts |-> {<<1, 1>>}, generations |-> 3,
          clients |-> FALSE, stops |-> FALSE]
Large == [entries |-> 4, starts |-> {<<3, 0>>}, generations |-> 2,
          clients |-> FALSE, stops |-> FALSE]
\* Clients allocate, map, synchronize and retire between the queue's calls; the
\* owner is quiesced or closed between them.
Shared == [entries |-> 2, starts |-> {<<0, 0>>}, generations |-> 2,
           clients |-> TRUE, stops |-> FALSE]
Stopped == [entries |-> 2, starts |-> {<<0, 0>>}, generations |-> 2,
            clients |-> FALSE, stops |-> TRUE]

QueueAlone == {Small, Large}
QueueAmongOthers == {Shared, Stopped}
=============================================================================
