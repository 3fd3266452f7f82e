-------------------------- MODULE XeInterruptProofs --------------------------
(***************************************************************************)
(* MaskFollowsState, PendingIsLatched and FaultSticks for every set of     *)
(* sources and every width of a bank.  The properties speak of the         *)
(* controller at rest; the invariant says at each step of the work loop    *)
(* which steps the filter may be at, what the master register delivers,    *)
(* and where an event that was raised is recorded.                         *)
(***************************************************************************)
EXTENDS XeInterrupt, TLAPS

DataTypeOK ==
    /\ bank \in Banks /\ master \subseteq Banks \cup {Other} /\ gfx \subseteq Banks \cup {Other}
    /\ events \subseteq Bits /\ latched \subseteq Bits /\ dw \subseteq Bits
    /\ work \subseteq Bits \cup {Other}

\* service() beyond its test of the state, and stop() beyond disable().
Serving == Collecting \cup {"svcStore", "dispatch"}
Stopping == {"stopStore", "stopMask", "stopRead"}

\* The filter has seen "armed" and has not yet given the controller away.
Claiming == {"level", "claim", "mask", "failStore"}

\* The filter runs only with its source enabled, and past its first load only
\* on a controller that was armed and that service() does not own.
FilterInv ==
    /\ fpc # "idle" => sourceOn
    /\ fpc \in Claiming =>
           /\ pc \notin Serving \cup {"svcLoad", "storeArmed"}
           /\ st \in {"armed", "masked", "fault"} /\ ~signalled
    /\ fpc \in {"level", "claim"} => st # "masked"
    /\ fpc = "mask" => st # "armed"
    /\ fpc = "failMask" => st = "fault"

\* The states the work loop can find at each of its steps.
StateInv ==
    /\ pc \in Serving \ {"svcStore"} => st = "workloop"
    /\ pc = "svcStore" => st \in {"masked", "workloop"}
    /\ pc = "svcLoad" => st # "armed"
    /\ pc = "storeArmed" => st \in {"stopped", "workloop"}
    /\ pc \in {"enable", "recheck"} => st \in {"armed", "masked", "fault"}
    /\ pc = "remask" => st \in {"masked", "fault"}
    /\ pc \in {"remaskFault", "failMask"} => st = "fault"
    /\ pc \in {"confMask", "confRead", "stopMask", "stopRead"} => st = "stopped"

\* An action call is due only when there is something to serve or to report; a
\* detach that has begun keeps the source disabled and the controller stopped.
AdapterInv ==
    /\ signalled =>
           /\ st # "armed" /\ (st = "stopped" => detaching)
           /\ pc \notin Serving \cup {"storeArmed"}
           /\ pc = "svcLoad" => st \in {"fault", "stopped"}
    /\ pc \in Stopping => detaching /\ attached
    /\ detaching => /\ ~sourceOn /\ (st = "stopped" \/ pc = "stopStore")
                    /\ pc \in Stopping \cup {"idle", "svcLoad", "detach"}
    /\ ~attached => /\ st = "stopped" /\ pc = "idle" /\ ~sourceOn /\ ~signalled
                    /\ ~detaching /\ ~configured

\* The tile master delivers in no state owned by service(), and not in "masked"
\* once both processes are done with it; an armed controller listens.
MaskInv ==
    /\ st = "workloop" => ~enabled
    /\ st = "masked" => \/ ~enabled
                        \/ fpc \in {"mask", "failStore"}
                        \/ pc \in {"enable", "recheck", "remask", "failStore"}
    /\ st = "armed" => enabled \/ pc \in {"enable", "failStore"}

\* A batch exists only between collect() and the end of its dispatch.
BatchInv ==
    /\ (st \in {"armed", "masked", "workloop"} \/ pc = "storeArmed") => configured
    /\ batchReady \/ Pending # {} => configured
    /\ (st \in {"armed", "masked"} \/ (st = "stopped" /\ ~detaching) \/ pc = "storeArmed") =>
           ~batchReady /\ Pending = {}
    /\ st = "workloop" /\ Pending # {} =>
           batchReady \/ pc \in {"readBank", "clearBank", "failStore"}
    /\ pc = "dispatch" => batchReady
    /\ pc \in Collecting => ~batchReady
    /\ pc = "clearBank" => dw \subseteq events

\* Where the work of source s is recorded at the step the work loop is at.
Recorded(s) ==
    \/ s \in Pending
    \/ s \in latched \cup {Other} /\ tile /\ BankOf(s) \in gfx
    \/ s \in latched \cup {Other} /\ pc = "readGfx" /\ BankOf(s) \in gfx
    \/ s \in latched \cup {Other} /\ pc = "ackGfx" /\ BankOf(s) \in master
    \/ s \in latched /\ pc = "readBank" /\ BankOf(s) \in master /\ BankOf(s) >= bank
    \/ s \in latched /\ pc = "clearBank" /\ BankOf(s) \in master /\ BankOf(s) > bank

\* A controller that has not failed or been stopped since its attach.
Live ==
    /\ attached /\ pc # "failStore"
    /\ st \in {"armed", "masked", "workloop"} \/ (st = "stopped" /\ ~detaching)

RecordInv == Live => \A s \in work : Recorded(s)

\* The part about the steps of the two processes and the master register, and
\* all of it.
ControlInv == FilterInv /\ StateInv /\ AdapterInv /\ MaskInv

IrqInv == DataTypeOK /\ ControlInv /\ BatchInv /\ RecordInv

-----------------------------------------------------------------------------
\* Every source belongs to one bank, and source 0 to the graphics master.
LEMMA BankOfBit ==
    ASSUME NEW s \in Bits
    PROVE  BankOf(s) \in Banks
<1>1. /\ s \in Int /\ 1 <= s /\ s <= 2 * BankBits
      /\ BankBits \in Int /\ BankBits >= 1
  BY BankBitsAssumption DEF Bits
<1>2. (s - 1) \div BankBits \in 0 .. 1
  BY <1>1
<1>3. QED
  BY <1>1, <1>2 DEF BankOf, Banks, Other

\* A source the device raises belongs to a bank or is source 0.
LEMMA BankOfSource ==
    ASSUME NEW s \in Wired
    PROVE  BankOf(s) \in Banks \cup {Other} /\ s \in Bits \cup {Other}
  BY BankOfBit, WiredAssumption DEF BankOf

\* What is pending is a function of events_ and other_.
LEMMA PendingSame ==
    ASSUME UNCHANGED <<events, other>>
    PROVE  Pending' = Pending
  BY DEF Pending

\* A write that masks delivery never enables it, and one that succeeds masks.
LEMMA MaskWrite ==
    /\ MaskOk \/ MaskFails => (enabled' => enabled)
    /\ MaskOk => ~enabled'
  BY Zenon DEF MaskOk, MaskFails

-----------------------------------------------------------------------------
\* The invariants about the control of the two processes are preserved.
LEMMA ControlStep ==
    ASSUME ControlInv, [IrqNext]_irqVars
    PROVE  ControlInv'
<1> USE DEF FilterInv, StateInv, AdapterInv, MaskInv, Loop, Filter,
            Collecting, Serving, Stopping, Claiming,
            controller, loopVars, adapter, device
<1>1. CASE FilterEnter
  BY <1>1 DEF ControlInv, FilterEnter
<1>2. CASE FilterLoad
  BY <1>2 DEF ControlInv, FilterLoad
<1>3. CASE FilterLevel
  BY <1>3 DEF ControlInv, FilterLevel
<1>4. CASE FilterClaim
  BY <1>4 DEF ControlInv, FilterClaim
<1>5. CASE FilterMask
  BY <1>5, MaskWrite DEF ControlInv, FilterMask
<1>6. CASE FilterFail
  BY <1>6 DEF ControlInv, FilterFail
<1>7. CASE FilterFailMask
  BY <1>7, MaskWrite DEF ControlInv, FilterFailMask
<1>8. CASE LoopFail
  BY <1>8 DEF ControlInv, LoopFail
<1>9. CASE LoopFailMask
  BY <1>9, MaskWrite DEF ControlInv, LoopFailMask, OnError
<1>10. CASE ConfigureMask
  BY <1>10, MaskWrite DEF ControlInv, ConfigureMask
<1>11. CASE ConfigureRead
  BY <1>11 DEF ControlInv, ConfigureRead
<1>12. CASE StoreArmed
  BY <1>12 DEF ControlInv, StoreArmed
<1>13. CASE Enable
  BY <1>13, ZenonT(30) DEF ControlInv, Enable
<1>14. CASE Recheck
  BY <1>14 DEF ControlInv, Recheck, RecheckTo
<1>15. CASE Remask
  BY <1>15, MaskWrite DEF ControlInv, Remask, OnError
<1>16. CASE ServiceLoad
  BY <1>16 DEF ControlInv, ServiceLoad, ServiceTo, OnError
<1>17. CASE ServiceStore
  BY <1>17 DEF ControlInv, ServiceStore
<1>18. CASE CollectTile
  BY <1>18 DEF ControlInv, CollectTile
<1>19. CASE CollectAckTile
  BY <1>19 DEF ControlInv, CollectAckTile
<1>20. CASE CollectReadGfx
  BY <1>20 DEF ControlInv, CollectReadGfx
<1>21. CASE CollectAckGfx
  BY <1>21 DEF ControlInv, CollectAckGfx
<1>22. CASE CollectBank
  BY <1>22 DEF ControlInv, CollectBank
<1>23. CASE CollectClear
  BY <1>23 DEF ControlInv, CollectClear, NextBank, Cleared
<1>24. CASE CollectFails
  BY <1>24 DEF ControlInv, CollectFails
<1>25. CASE Drained
  BY <1>25 DEF ControlInv, Drained, Current
<1>26. CASE More
  BY <1>26 DEF ControlInv, More, Reschedule
<1>27. CASE HandlerFails
  BY <1>27 DEF ControlInv, HandlerFails
<1>28. CASE BatchDone
  BY <1>28 DEF ControlInv, BatchDone
<1>29. CASE DisableSource
  BY <1>29 DEF ControlInv, DisableSource
<1>30. CASE DetachDisable
  BY <1>30 DEF ControlInv, DetachDisable
<1>31. CASE StopStore
  BY <1>31 DEF ControlInv, StopStore, Removed
<1>32. CASE StopMask
  BY <1>32, MaskWrite DEF ControlInv, StopMask
<1>33. CASE StopRead
  <2>1. CASE UNCHANGED <<configured, batchReady, events, other, adapter>>
    BY <1>33, <2>1 DEF ControlInv, StopRead
  <2>2. CASE Removed /\ ~configured'
    BY <1>33, <2>2 DEF ControlInv, StopRead, Removed
  <2>3. QED
    BY <1>33, <2>1, <2>2 DEF StopRead
<1>34. CASE Action
  BY <1>34 DEF ControlInv, Action
<1>35. CASE Attach
  BY <1>35 DEF ControlInv, Attach
<1>36. CASE Start
  BY <1>36 DEF ControlInv, Start
<1>37. CASE Detach
  BY <1>37 DEF ControlInv, Detach
<1>38. CASE Admission
  BY <1>38 DEF ControlInv, Admission
<1>39. ASSUME NEW s \in Wired, Raise(s) PROVE ControlInv'
  BY <1>39 DEF ControlInv, Raise
<1>40. CASE UNCHANGED irqVars
  BY <1>40 DEF ControlInv, irqVars
<1> HIDE DEF FilterInv, StateInv, AdapterInv, MaskInv
<1> QED
  BY <1>1, <1>2, <1>3, <1>4, <1>5, <1>6, <1>7, <1>8, <1>9, <1>10, <1>11, <1>12, <1>13, <1>14, <1>15,
     <1>16, <1>17, <1>18, <1>19, <1>20, <1>21, <1>22, <1>23, <1>24, <1>25, <1>26, <1>27, <1>28,
     <1>29, <1>30, <1>31, <1>32, <1>33, <1>34, <1>35, <1>36, <1>37, <1>38, <1>39, <1>40,
     ZenonT(30) DEF IrqNext, FilterStep, LoopStep, Collect

\* The batch is ready, and holds events, only when the state says so.
LEMMA BatchStep ==
    ASSUME ControlInv, BatchInv, [IrqNext]_irqVars
    PROVE  BatchInv'
<1> USE DEF BatchInv, Loop, Filter, Collecting, Serving, Stopping, controller, loopVars,
            adapter, device
<1>1. CASE FilterEnter
  BY <1>1, PendingSame DEF FilterEnter
<1>2. CASE FilterLoad
  BY <1>2, PendingSame DEF FilterLoad
<1>3. CASE FilterLevel
  BY <1>3, PendingSame DEF FilterLevel
<1>4. CASE FilterClaim
  BY <1>4, PendingSame DEF FilterClaim
<1>5. CASE FilterMask
  BY <1>5, PendingSame DEF FilterMask
<1>6. CASE FilterFail
  BY <1>6, PendingSame DEF FilterFail
<1>7. CASE FilterFailMask
  BY <1>7, PendingSame DEF FilterFailMask
<1>8. CASE LoopFail
  BY <1>8, PendingSame DEF LoopFail
<1>9. CASE LoopFailMask
  BY <1>9, PendingSame DEF LoopFailMask, OnError
<1>10. CASE ConfigureMask
  BY <1>10, PendingSame DEF ConfigureMask
<1>11. CASE ConfigureRead
  BY <1>11, PendingSame DEF ConfigureRead
<1>12. CASE StoreArmed
  BY <1>12, PendingSame DEF ControlInv, StateInv, StoreArmed
<1>13. CASE Enable
  BY <1>13, PendingSame, ZenonT(30) DEF Enable
<1>14. CASE Recheck
  BY <1>14, PendingSame DEF Recheck, RecheckTo
<1>15. CASE Remask
  BY <1>15, PendingSame DEF Remask, OnError
<1>16. CASE ServiceLoad
  BY <1>16, PendingSame DEF ServiceLoad, ServiceTo, OnError
<1>17. CASE ServiceStore
  <2>1. CASE batchReady
    BY <1>17, <2>1, PendingSame DEF ControlInv, StateInv, ServiceStore
  <2>2. CASE ~batchReady
    <3>1. Pending = {} /\ configured
      BY <1>17, <2>2 DEF ControlInv, StateInv, ServiceStore
    <3>2. Pending' = {} /\ ~batchReady' /\ configured'
      BY <1>17, <2>2, <3>1, PendingSame DEF ControlInv, StateInv, ServiceStore
    <3>3. pc' \in {"readTile", "failStore"}
      BY <1>17, <2>2 DEF ControlInv, StateInv, ServiceStore
    <3>4. QED
      BY <3>2, <3>3
  <2>3. QED
    BY <2>1, <2>2
<1>18. CASE CollectTile
  <2>1. CASE tile
    <3>1. Pending' = Pending /\ ~batchReady'
      BY <1>18, <2>1, Zenon DEF CollectTile, Pending
    <3>2. QED
      BY <1>18, <2>1, <3>1 DEF ControlInv, StateInv, CollectTile
  <2>2. CASE ~tile
    <3>1. Pending' = {} /\ batchReady'
      BY <1>18, <2>2, Zenon DEF CollectTile, Pending
    <3>2. QED
      BY <1>18, <2>2, <3>1 DEF ControlInv, StateInv, CollectTile
  <2>3. QED
    BY <2>1, <2>2
<1>19. CASE CollectAckTile
  BY <1>19, PendingSame DEF CollectAckTile
<1>20. CASE CollectReadGfx
  BY <1>20, PendingSame DEF CollectReadGfx
<1>21. CASE CollectAckGfx
  BY <1>21 DEF ControlInv, StateInv, CollectAckGfx
<1>22. CASE CollectBank
  BY <1>22 DEF ControlInv, StateInv, CollectBank
<1>23. CASE CollectClear
  <2>1. Pending' = Pending /\ (batchReady' <=> bank = 2)
    BY <1>23, PendingSame, ZenonT(30) DEF CollectClear
  <2>2. pc' = (IF bank = 2 THEN "dispatch" ELSE "readBank") /\ st' = st /\ configured' = configured
    BY <1>23 DEF CollectClear
  <2>3. st = "workloop" /\ configured
    BY <1>23 DEF ControlInv, StateInv, CollectClear
  <2>4. QED
    BY <2>1, <2>2, <2>3
<1>24. CASE CollectFails
  BY <1>24, PendingSame DEF CollectFails
<1>25. CASE Drained
  BY <1>25, PendingSame DEF ControlInv, StateInv, Drained, Current
<1>26. CASE More
  BY <1>26, PendingSame DEF ControlInv, StateInv, More, Reschedule
<1>27. CASE HandlerFails
  BY <1>27, PendingSame DEF ControlInv, StateInv, HandlerFails
<1>28. CASE BatchDone
  BY <1>28, PendingSame DEF ControlInv, StateInv, BatchDone
<1>29. CASE DisableSource
  BY <1>29, PendingSame DEF DisableSource
<1>30. CASE DetachDisable
  BY <1>30, PendingSame DEF DetachDisable
<1>31. CASE StopStore
  BY <1>31, PendingSame DEF ControlInv, AdapterInv, StopStore, Removed
<1>32. CASE StopMask
  BY <1>32, PendingSame DEF ControlInv, AdapterInv, StopMask
<1>33. CASE StopRead
  <2>1. CASE UNCHANGED <<configured, batchReady, events, other, adapter>>
    BY <1>33, <2>1, PendingSame DEF ControlInv, AdapterInv, StateInv, StopRead
  <2>2. CASE ~configured' /\ ~batchReady' /\ events' = {} /\ ~other'
    <3>1. Pending' = {}
      BY <2>2 DEF Pending
    <3>2. QED
      BY <1>33, <2>2, <3>1 DEF ControlInv, AdapterInv, StateInv, StopRead
  <2>3. QED
    BY <1>33, <2>1, <2>2, Zenon DEF StopRead
<1>34. CASE Action
  BY <1>34, PendingSame DEF Action
<1>35. CASE Attach
  BY <1>35, PendingSame DEF ControlInv, AdapterInv, Attach
<1>36. CASE Start
  BY <1>36, PendingSame DEF ControlInv, AdapterInv, Start
<1>37. CASE Detach
  BY <1>37, PendingSame DEF Detach
<1>38. CASE Admission
  BY <1>38, PendingSame DEF Admission
<1>39. ASSUME NEW s \in Wired, Raise(s) PROVE BatchInv'
  BY <1>39, PendingSame DEF Raise
<1>40. CASE UNCHANGED irqVars
  BY <1>40, PendingSame, SMTT(60) DEF irqVars
<1> HIDE DEF BatchInv
<1> QED
  BY <1>1, <1>2, <1>3, <1>4, <1>5, <1>6, <1>7, <1>8, <1>9, <1>10, <1>11, <1>12, <1>13, <1>14, <1>15,
     <1>16, <1>17, <1>18, <1>19, <1>20, <1>21, <1>22, <1>23, <1>24, <1>25, <1>26, <1>27, <1>28,
     <1>29, <1>30, <1>31, <1>32, <1>33, <1>34, <1>35, <1>36, <1>37, <1>38, <1>39, <1>40,
     ZenonT(30) DEF IrqNext, FilterStep, LoopStep, Collect

-----------------------------------------------------------------------------
\* The steps of collect() between its reads and their acknowledges.
Scanning == {"readGfx", "ackGfx", "readBank", "clearBank"}

\* The step leaves the batch, the scan and the device alone.
Calm ==
    /\ UNCHANGED <<events, other, master, dw, bank, tile, gfx, latched, work>>
    /\ pc' = pc \/ pc \notin Scanning

\* The steps that only move one of the processes, the state or the adapter.
Quiet ==
    \/ FilterEnter \/ FilterStep
    \/ LoopFail \/ LoopFailMask \/ ConfigureMask \/ ConfigureRead
    \/ StoreArmed \/ Enable \/ Recheck \/ Remask \/ ServiceLoad \/ ServiceStore
    \/ More \/ HandlerFails \/ BatchDone \/ DisableSource \/ DetachDisable
    \/ Action \/ Start \/ Detach \/ Admission

\* They are calm, and none of them revives a controller that failed or stopped.
LEMMA QuietIsCalm ==
    ASSUME ControlInv, Quiet
    PROVE  Calm /\ (Live' => Live)
<1> USE DEF Calm, Scanning, Live, Loop, Filter, controller, loopVars, adapter, device
<1>1. CASE FilterEnter
  BY <1>1 DEF FilterEnter
<1>2. CASE FilterLoad
  BY <1>2 DEF FilterLoad
<1>3. CASE FilterLevel
  BY <1>3 DEF FilterLevel
<1>4. CASE FilterClaim
  BY <1>4 DEF ControlInv, FilterInv, FilterClaim
<1>5. CASE FilterMask
  BY <1>5 DEF FilterMask
<1>6. CASE FilterFail
  BY <1>6 DEF FilterFail
<1>7. CASE FilterFailMask
  BY <1>7 DEF FilterFailMask
<1>8. CASE LoopFail
  BY <1>8 DEF LoopFail
<1>9. CASE LoopFailMask
  BY <1>9 DEF LoopFailMask, OnError
<1>10. CASE ConfigureMask
  BY <1>10 DEF ConfigureMask
<1>11. CASE ConfigureRead
  BY <1>11 DEF ConfigureRead
<1>12. CASE StoreArmed
  BY <1>12 DEF ControlInv, StateInv, AdapterInv, Stopping, StoreArmed
<1>13. CASE Enable
  BY <1>13, ZenonT(30) DEF Enable
<1>14. CASE Recheck
  BY <1>14 DEF Recheck, RecheckTo
<1>15. CASE Remask
  BY <1>15 DEF Remask, OnError
<1>16. CASE ServiceLoad
  BY <1>16 DEF ServiceLoad, ServiceTo, OnError
<1>17. CASE ServiceStore
  BY <1>17 DEF ControlInv, StateInv, ServiceStore
<1>18. CASE More
  BY <1>18 DEF More, Reschedule
<1>19. CASE HandlerFails
  BY <1>19 DEF HandlerFails
<1>20. CASE BatchDone
  BY <1>20 DEF BatchDone
<1>21. CASE DisableSource
  BY <1>21 DEF DisableSource
<1>22. CASE DetachDisable
  BY <1>22 DEF DetachDisable
<1>23. CASE Action
  BY <1>23 DEF Action
<1>24. CASE Start
  BY <1>24 DEF Start
<1>25. CASE Detach
  BY <1>25 DEF Detach
<1>26. CASE Admission
  BY <1>26 DEF Admission
<1> QED
  BY <1>1, <1>2, <1>3, <1>4, <1>5, <1>6, <1>7, <1>8, <1>9, <1>10, <1>11, <1>12, <1>13, <1>14, <1>15,
     <1>16, <1>17, <1>18, <1>19, <1>20, <1>21, <1>22, <1>23, <1>24, <1>25, <1>26, Zenon
     DEF Quiet, FilterStep

\* The captured batch, the scan and the device keep their types: the steps that
\* change one of these keep the sources within the banks.
LEMMA DataTypeStep ==
    ASSUME DataTypeOK, ControlInv, [IrqNext]_irqVars
    PROVE  DataTypeOK'
<1>1. CASE Quiet
  BY <1>1, QuietIsCalm DEF Calm, DataTypeOK
<1>2. CASE CollectTile
  BY <1>2 DEF DataTypeOK, controller, loopVars, device, CollectTile
<1>3. CASE CollectAckTile
  BY <1>3 DEF DataTypeOK, controller, loopVars, device, CollectAckTile
<1>4. CASE CollectReadGfx
  BY <1>4 DEF DataTypeOK, controller, loopVars, device, CollectReadGfx
<1>5. CASE CollectAckGfx
  BY <1>5 DEF DataTypeOK, controller, loopVars, device, Banks, CollectAckGfx
<1>6. CASE CollectBank
  BY <1>6 DEF DataTypeOK, controller, loopVars, device, CollectBank
<1>7. CASE CollectClear
  <2>1. bank' \in Banks
    BY <1>7 DEF DataTypeOK, CollectClear, NextBank, Banks
  <2>2. QED
    BY <1>7, <2>1 DEF DataTypeOK, CollectClear, Cleared
<1>8. CASE CollectFails
  BY <1>8 DEF DataTypeOK, controller, loopVars, device, CollectFails
<1>9. CASE Drained
  BY <1>9 DEF DataTypeOK, controller, loopVars, device, Drained
<1>10. CASE StopRead
  BY <1>10 DEF DataTypeOK, controller, loopVars, device, StopRead
<1>11. CASE Attach
  BY <1>11 DEF DataTypeOK, controller, loopVars, device, Attach
<1>12. CASE StopStore
  BY <1>12 DEF DataTypeOK, controller, loopVars, device, StopStore
<1>13. CASE StopMask
  BY <1>13 DEF DataTypeOK, controller, loopVars, device, StopMask
<1>14. ASSUME NEW s \in Wired, Raise(s) PROVE DataTypeOK'
  BY <1>14, BankOfSource DEF DataTypeOK, Raise, Other, controller, loopVars
<1>15. CASE UNCHANGED irqVars
  BY <1>15 DEF DataTypeOK, irqVars
<1> QED
  BY <1>1, <1>2, <1>3, <1>4, <1>5, <1>6, <1>7, <1>8, <1>9, <1>10, <1>11, <1>12, <1>13, <1>14, <1>15,
     Zenon DEF IrqNext, FilterStep, LoopStep, Collect, Quiet

\* A calm step of a controller that stays live keeps every record.
LEMMA CalmKeeps ==
    ASSUME RecordInv, Calm, Live' => Live
    PROVE  RecordInv'
<1> SUFFICES ASSUME Live', NEW s \in work'
             PROVE  Recorded(s)'
  BY DEF RecordInv
<1>1. Recorded(s) /\ Pending' = Pending
  BY PendingSame DEF RecordInv, Calm
<1>2. QED
  BY <1>1 DEF Recorded, Calm, Scanning

\* Every event raised on a live controller stays recorded: the acknowledges clear
\* a level only after the next one, or the batch, holds the event.
LEMMA RecordStep ==
    ASSUME DataTypeOK, ControlInv, BatchInv, RecordInv, [IrqNext]_irqVars
    PROVE  RecordInv'
<1> USE DEF Loop, Filter, controller, loopVars, adapter, device
<1>1. CASE Quiet
  BY <1>1, QuietIsCalm, CalmKeeps
<1>2. CASE Attach
  BY <1>2 DEF Attach, RecordInv
<1>3. ASSUME NEW s \in Wired, Raise(s) PROVE RecordInv'
  <2> SUFFICES ASSUME Live', NEW r \in work'
               PROVE  Recorded(r)'
    BY DEF RecordInv
  <2>1. Live /\ Pending' = Pending
    BY <1>3, PendingSame DEF Raise, Live
  <2>2. CASE r = s
    BY <1>3, <2>2 DEF Raise, Recorded
  <2>3. CASE r # s
    <3>1. Recorded(r)
      BY <1>3, <2>1, <2>3 DEF Raise, RecordInv
    <3>2. QED
      BY <1>3, <2>1, <3>1 DEF Raise, Recorded
  <2> QED
    BY <2>2, <2>3
<1>4. CASE StopStore \/ StopMask \/ StopRead
  <2>1. detaching /\ st' = "stopped"
    BY <1>4 DEF StopStore, StopMask, StopRead, ControlInv, AdapterInv, StateInv, Stopping
  <2>2. detaching' \/ ~attached'
    BY <1>4, <2>1, ZenonT(30) DEF StopStore, StopMask, StopRead, Removed
  <2>3. QED
    BY <2>1, <2>2 DEF RecordInv, Live
<1>5. CASE CollectFails
  BY <1>5 DEF CollectFails, RecordInv, Live
<1>6. CASE CollectTile
  <2> SUFFICES ASSUME Live', NEW s \in work'
               PROVE  Recorded(s)'
    BY DEF RecordInv
  <2>1. Live /\ s \in work /\ Pending = {}
    BY <1>6 DEF CollectTile, Live, ControlInv, StateInv, BatchInv, Serving, Collecting
  <2>2. s \in latched \cup {Other} /\ tile /\ BankOf(s) \in gfx
    BY <1>6, <2>1 DEF RecordInv, Recorded, CollectTile
  <2>3. QED
    BY <1>6, <2>2 DEF CollectTile, Recorded
<1>7. CASE CollectAckTile \/ CollectReadGfx \/ CollectAckGfx
  <2> SUFFICES ASSUME Live', NEW s \in work'
               PROVE  Recorded(s)'
    BY DEF RecordInv
  <2>1. Live /\ s \in work /\ Pending = {}
    BY <1>7, ZenonT(30)
       DEF CollectAckTile, CollectReadGfx, CollectAckGfx, Live, ControlInv, StateInv,
                 BatchInv, Serving, Collecting
  <2>2. Recorded(s)
    BY <2>1 DEF RecordInv
  <2>3. CASE CollectAckTile
    BY <2>1, <2>2, <2>3 DEF CollectAckTile, Recorded
  <2>4. CASE CollectReadGfx
    BY <2>1, <2>2, <2>4 DEF CollectReadGfx, Recorded
  <2>5. CASE CollectAckGfx
    <3>1. s \in latched \cup {Other} /\ (BankOf(s) \in master \/ (tile /\ BankOf(s) \in gfx))
      BY <2>1, <2>2, <2>5 DEF CollectAckGfx, Recorded
    <3>2. CASE s = Other
      <4>1. BankOf(s) = Other
        BY <3>2 DEF BankOf
      <4>2. CASE BankOf(s) \in master
        BY <2>5, <3>2, <4>1, <4>2, ZenonT(30) DEF CollectAckGfx, Recorded, Pending
      <4>3. CASE BankOf(s) \notin master
        BY <2>5, <3>1, <4>3 DEF CollectAckGfx, Recorded
      <4>4. QED
        BY <4>2, <4>3
    <3>3. CASE s # Other
      <4>1. s \in latched /\ BankOf(s) \in Banks
        BY <3>1, <3>3, BankOfBit DEF DataTypeOK
      <4>2. QED
        BY <2>5, <3>1, <4>1 DEF CollectAckGfx, Recorded, Banks
    <3>4. QED
      BY <3>2, <3>3
  <2>6. QED
    BY <1>7, <2>3, <2>4, <2>5
<1>8. CASE CollectBank
  <2> SUFFICES ASSUME Live', NEW s \in work'
               PROVE  Recorded(s)'
    BY DEF RecordInv
  <2>1. Live /\ s \in work
    BY <1>8 DEF CollectBank, Live, ControlInv, StateInv, Serving, Collecting
  <2>2. Recorded(s)
    BY <2>1 DEF RecordInv
  <2>3. CASE s \in Pending
    BY <1>8, <2>3 DEF CollectBank, Recorded, Pending
  <2>4. CASE s \in latched \cup {Other} /\ tile /\ BankOf(s) \in gfx
    BY <1>8, <2>4 DEF CollectBank, Recorded
  <2>5. CASE s \in latched /\ BankOf(s) \in master /\ BankOf(s) >= bank
    <3>1. BankOf(s) \in Int /\ bank \in Int
      BY <2>5, BankOfBit DEF DataTypeOK, Banks
    <3>2. CASE BankOf(s) = bank
      BY <1>8, <2>5, <3>2 DEF CollectBank, Recorded, Pending
    <3>3. CASE BankOf(s) > bank
      BY <1>8, <2>5, <3>3 DEF CollectBank, Recorded
    <3>4. QED
      BY <2>5, <3>1, <3>2, <3>3
  <2>6. QED
    BY <1>8, <2>2, <2>3, <2>4, <2>5 DEF Recorded, CollectBank
<1>9. CASE CollectClear
  <2> SUFFICES ASSUME Live', NEW s \in work'
               PROVE  Recorded(s)'
    BY DEF RecordInv
  <2>1. Live /\ s \in work /\ dw \subseteq events /\ Pending' = Pending
    BY <1>9, PendingSame DEF CollectClear, Live, ControlInv, StateInv, BatchInv, Serving,
                              Collecting
  <2>2. Recorded(s)
    BY <2>1 DEF RecordInv
  <2>3. CASE s \in Pending
    BY <2>1, <2>3 DEF Recorded
  <2>4. CASE s \notin Pending /\ s \in latched \cup {Other} /\ tile /\ BankOf(s) \in gfx
    <3>1. s \notin dw
      BY <2>1, <2>4 DEF Pending
    <3>2. QED
      BY <1>9, <2>4, <3>1 DEF CollectClear, Cleared, Recorded
  <2>5. CASE s \notin Pending /\ s \in latched /\ BankOf(s) \in master /\ BankOf(s) > bank
    <3>1. s \notin dw
      BY <2>1, <2>5 DEF Pending
    <3>2. BankOf(s) = 2 /\ bank = 1
      BY <2>5, BankOfBit DEF DataTypeOK, Banks
    <3>3. QED
      BY <1>9, <2>5, <3>1, <3>2 DEF CollectClear, Cleared, NextBank, Recorded
  <2>6. QED
    BY <1>9, <2>2, <2>3, <2>4, <2>5 DEF Recorded, CollectClear
<1>10. CASE Drained
  <2> SUFFICES ASSUME Live', NEW s \in work'
               PROVE  Recorded(s)'
    BY DEF RecordInv
  <2>1. Live /\ s \in work /\ s # Current
    BY <1>10 DEF Drained, Live
  <2>2. Recorded(s)
    BY <2>1 DEF RecordInv
  <2>3. CASE s \in Pending
    BY <1>10, <2>1, <2>3, ZenonT(30) DEF Drained, Recorded, Pending
  <2>4. CASE s \notin Pending
    BY <1>10, <2>2, <2>4 DEF Drained, Recorded
  <2>5. QED
    BY <2>3, <2>4
<1>11. CASE UNCHANGED irqVars
  <2>1. Calm /\ (Live' => Live) /\ pc' = pc
    BY <1>11 DEF irqVars, Calm, Live
  <2>2. QED
    BY <2>1, CalmKeeps
<1> QED
  BY <1>1, <1>2, <1>3, <1>4, <1>5, <1>6, <1>7, <1>8, <1>9, <1>10, <1>11, Zenon
     DEF IrqNext, FilterStep, LoopStep, Collect, Quiet

\* The initial states satisfy the invariant.
LEMMA IrqInvInit == IrqInit => IrqInv
<1> SUFFICES ASSUME IrqInit PROVE IrqInv
  OBVIOUS
<1>1. DataTypeOK
  BY DEF IrqInit, DataTypeOK, Banks
<1>2. ControlInv
  BY DEF IrqInit, ControlInv, FilterInv, StateInv, AdapterInv, MaskInv, Serving, Collecting,
         Stopping, Claiming
<1>3. Pending = {}
  BY DEF IrqInit, Pending
<1>4. BatchInv
  BY <1>3 DEF IrqInit, BatchInv, Collecting
<1>5. RecordInv
  BY DEF IrqInit, RecordInv
<1>6. QED
  BY <1>1, <1>2, <1>4, <1>5 DEF IrqInv

\* IrqInv is inductive.
THEOREM IrqInvariant == IrqSpec => []IrqInv
<1>1. IrqInv /\ [IrqNext]_irqVars => IrqInv'
  BY DataTypeStep, ControlStep, BatchStep, RecordStep DEF IrqInv
<1>2. QED
  BY IrqInvInit, <1>1, PTL DEF IrqSpec

-----------------------------------------------------------------------------
\* While service() acknowledges a batch or runs its handlers delivery is off; at
\* rest a controller that is owned is masked and one that is armed listens.
THEOREM MaskIsSafe == IrqSpec => []MaskFollowsState
<1>1. IrqInv => MaskFollowsState
  BY DEF IrqInv, ControlInv, FilterInv, StateInv, MaskInv, MaskFollowsState, Serving, Collecting
<1>2. QED
  BY IrqInvariant, <1>1, PTL

\* No interrupt is lost between the three levels of acknowledge and the batch.
THEOREM NoEventIsLost == IrqSpec => []PendingIsLatched
<1>1. IrqInv => PendingIsLatched
  <2> SUFFICES ASSUME IrqInv, pc = "idle", st \in {"armed", "masked", "workloop"},
                      NEW s \in work
               PROVE  \/ s \in Pending
                      \/ /\ tile /\ BankOf(s) \in gfx
                         /\ s \in latched \cup {Other}
    BY DEF PendingIsLatched
  <2>1. Live
    BY DEF IrqInv, ControlInv, AdapterInv, Live
  <2>2. QED
    BY <2>1 DEF IrqInv, RecordInv, Recorded
<1>2. QED
  BY IrqInvariant, <1>1, PTL

\* A fault that the filter or the work loop records is overwritten by stop() only:
\* neither the compare-and-exchange nor the stores of service() and rearm() can
\* follow it.
THEOREM FaultIsSticky == IrqSpec => FaultSticks
<1>1. IrqInv /\ [IrqNext]_irqVars => [st = "fault" => st' \in {"fault", "stopped"}]_irqVars
  <2> SUFFICES ASSUME IrqInv, IrqNext, st = "fault"
               PROVE  st' \in {"fault", "stopped"}
    OBVIOUS
  <2> USE DEF Loop, Filter, controller
  <2>1. pc \notin {"svcStore", "storeArmed"}
    BY DEF IrqInv, ControlInv, StateInv
  <2>2. CASE FilterEnter \/ FilterStep
    BY <2>2 DEF FilterEnter, FilterStep, FilterLoad, FilterLevel, FilterClaim, FilterMask,
                FilterFail, FilterFailMask
  <2>3. CASE Collect
    BY <2>3 DEF Collect, CollectTile, CollectAckTile, CollectReadGfx, CollectAckGfx,
                CollectBank, CollectClear
  <2>4. CASE LoopFail \/ LoopFailMask \/ ConfigureMask \/ ConfigureRead
    BY <2>4 DEF LoopFail, LoopFailMask, ConfigureMask, ConfigureRead
  <2>5. CASE StoreArmed \/ Enable \/ Recheck \/ Remask
    BY <2>1, <2>5, ZenonT(30) DEF StoreArmed, Enable, Recheck, Remask
  <2>6. CASE ServiceLoad \/ ServiceStore \/ CollectFails
    BY <2>1, <2>6, ZenonT(30) DEF ServiceLoad, ServiceStore, CollectFails
  <2>7. CASE Drained \/ More \/ HandlerFails \/ BatchDone
    BY <2>7 DEF Drained, More, HandlerFails, BatchDone
  <2>8. CASE DisableSource \/ DetachDisable \/ StopStore \/ StopMask \/ StopRead
    BY <2>8 DEF DisableSource, DetachDisable, StopStore, StopMask, StopRead
  <2>9. CASE Action \/ Attach \/ Start \/ Detach \/ Admission
    BY <2>9 DEF Action, Attach, Start, Detach, Admission
  <2>10. CASE \E s \in Wired : Raise(s)
    BY <2>10 DEF Raise
  <2>11. QED
    BY <2>2, <2>3, <2>4, <2>5, <2>6, <2>7, <2>8, <2>9, <2>10 DEF IrqNext, LoopStep
<1>2. QED
  BY IrqInvariant, <1>1, PTL DEF IrqSpec, FaultSticks

=============================================================================
