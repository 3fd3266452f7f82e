------------------------------ MODULE MCXeUnits ------------------------------
(* Three parts that share no state: the GuC mailbox, forcewake and the      *)
(* private page tables.  A behaviour is one of a single part.               *)
(* Mailbox: two configuration attempts of six requests.  Forcewake: two     *)
(* references per domain.  Tables: three levels of two entries in a pool of *)
(* five of the seven tables a full tree needs, so growth fails at either    *)
(* depth.                                                                   *)
EXTENDS XeGuCMailbox, XeForceWake, XePageTable

VARIABLE part   \* which of them runs

UnitsInit ==
    /\ part \in {"mailbox", "wake", "tables"}
    /\ MboxInit /\ WakeInit /\ TableInit
    /\ part # "wake" => \A d \in Domains : control[d] = "nobody"

UnitsNext ==
    \/ part = "mailbox" /\ MboxNext /\ UNCHANGED <<part, wakeVars, tableVars>>
    \/ part = "wake" /\ WakeNext /\ UNCHANGED <<part, mboxVars, tableVars>>
    \/ part = "tables" /\ TableNext /\ UNCHANGED <<part, mboxVars, wakeVars>>

UnitsSpec ==
    /\ UnitsInit
    /\ [][UnitsNext]_<<part, mboxVars, wakeVars, tableVars>>
    /\ MboxFairness
==============================================================================
