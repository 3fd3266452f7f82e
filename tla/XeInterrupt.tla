----------------------------- MODULE XeInterrupt -----------------------------
(***************************************************************************)
(* XeInterrupt::Controller (Mellow/XeInterrupt.cpp) under its IOKit owner  *)
(* MellowXeInterrupt (Mellow/XeInterruptIOKit.cpp).  Two processes run:    *)
(* the hard-interrupt filter and one serialised work loop.  They share     *)
(* state_ and the tile master register, so a step here is one atomic       *)
(* operation or one register access, not one call.                         *)
(*                                                                         *)
(* The device latches an interrupt at three levels (tile bit, graphics     *)
(* master bit, bank bit); every level is write-one-to-clear.  Any access   *)
(* may fail, and a failed write may or may not have taken effect.  Source  *)
(* 0 stands for the non-bank bits of the graphics master (other_).         *)
(***************************************************************************)
EXTENDS Integers, FiniteSets, FiniteSetsExt

CONSTANTS
    BankBits,   \* identity bits per bank (32 in the code)
    Wired       \* the sources the device raises

Banks == 1 .. 2
Bits == 1 .. 2 * BankBits
Other == 0
BankOf(s) == IF s = Other THEN Other ELSE (s - 1) \div BankBits + 1

ASSUME BankBitsAssumption == BankBits \in Nat \ {0}
ASSUME WiredAssumption == Wired \subseteq Bits \cup {Other}

VARIABLES
    st,         \* state_
    configured, \* configured_
    batchReady, \* batchReady_
    events,     \* events_[nextEvent_ .. eventCount_), in ascending order
    other,      \* other_ # 0
    pc, call,   \* work loop: next step, and the call it belongs to
    master, dw, \* work loop: master read by collect, bank word being scanned
    bank,       \* work loop: bank being scanned
    fpc,        \* filter: next step
    attached,   \* adapter: source_ # nullptr
    sourceOn,   \* adapter: the event source is enabled
    signalled,  \* adapter: an action call is due
    detaching,  \* owner: a detach is under way or has failed
    admitted,   \* what ops_.admitted answers
    enabled,    \* device: masterEnable of the tile master
    tile,       \* device: tile-0 bit of the tile master
    gfx,        \* device: graphics master bits
    latched,    \* device: bank status bits
    work,       \* device: sources with work no handler has seen
    abandoned   \* a batch was given up by a fault since attach

controller == <<st, configured, batchReady, events, other>>
loopVars == <<pc, call, master, dw, bank>>
adapter == <<attached, sourceOn, signalled, detaching>>
device == <<tile, gfx, latched, work>>
irqVars == <<st, configured, batchReady, events, other, pc, call, master, dw,
             bank, fpc, attached, sourceOn, signalled, detaching, admitted,
             enabled, tile, gfx, latched, work, abandoned>>

States == {"stopped", "armed", "masked", "workloop", "fault"}
Collecting == {"readTile", "ackTile", "readGfx", "ackGfx", "readBank",
               "clearBank"}
LoopSteps == Collecting \cup
    {"idle", "confMask", "confRead", "storeArmed", "enable", "recheck",
     "remask", "remaskFault", "svcLoad", "svcStore", "dispatch", "failStore", "failMask",
     "stopStore", "stopMask", "stopRead", "disable", "detach"}
FilterSteps == {"idle", "load", "level", "claim", "mask", "failStore",
                "failMask"}

IrqInit ==
    /\ st = "stopped"
    /\ configured = FALSE /\ batchReady = FALSE
    /\ events = {} /\ other = FALSE
    /\ pc = "idle" /\ call = "none" /\ master = {} /\ dw = {} /\ bank = 1
    /\ fpc = "idle"
    /\ attached = FALSE /\ sourceOn = FALSE /\ signalled = FALSE
    /\ detaching = FALSE /\ admitted = TRUE
    /\ enabled \in BOOLEAN          \* whatever the previous owner left
    /\ tile = FALSE /\ gfx = {} /\ latched = {} /\ work = {}
    /\ abandoned = FALSE

-----------------------------------------------------------------------------
\* A mask write: refused without admission; a failed one may take effect.
MaskOk == admitted /\ enabled' = FALSE
MaskFails == enabled' \in (IF admitted THEN {enabled, FALSE} ELSE {enabled})

\* The adapter's error path: a failed attach detaches, other calls disable.
OnError == IF call = "attach" THEN "detach" ELSE "disable"

\* A step of the filter, and one of the work loop.
Filter(from, to) == fpc = from /\ fpc' = to
Loop(from, to) == pc = from /\ pc' = to

-----------------------------------------------------------------------------
\* The hardware filter.  The line is shared: it may also run for nothing.
\* A disable() under way admits no new filter, it waits for the running one.
FilterEnter ==
    /\ sourceOn /\ pc \notin {"disable", "detach"}
    /\ Filter("idle", "load")
    /\ UNCHANGED <<controller, loopVars, adapter, admitted, enabled, device,
                   abandoned>>

FilterLoad ==
    /\ Filter("load", IF st = "armed" /\ admitted THEN "level" ELSE "idle")
    /\ UNCHANGED <<controller, loopVars, adapter, admitted, enabled, device,
                   abandoned>>

FilterLevel ==
    /\ \/ admitted /\ Filter("level", IF tile THEN "claim" ELSE "idle")
       \/ Filter("level", "failStore")
    /\ UNCHANGED <<controller, loopVars, adapter, admitted, enabled, device,
                   abandoned>>

\* The compare-and-exchange armed -> masked.
FilterClaim ==
    /\ Filter("claim", IF st = "armed" THEN "mask" ELSE "idle")
    /\ st' = IF st = "armed" THEN "masked" ELSE st
    /\ UNCHANGED <<configured, batchReady, events, other, loopVars, adapter,
                   admitted, enabled, device, abandoned>>

FilterMask ==
    /\ \/ MaskOk /\ Filter("mask", "idle") /\ signalled' = TRUE
       \/ MaskFails /\ Filter("mask", "failStore") /\ UNCHANGED signalled
    /\ UNCHANGED <<controller, loopVars, attached, sourceOn, detaching, admitted,
                   device, abandoned>>

FilterFail ==
    /\ Filter("failStore", "failMask")
    /\ st' = "fault"
    /\ UNCHANGED <<configured, batchReady, events, other, loopVars, adapter,
                   admitted, enabled, device, abandoned>>

FilterFailMask ==
    /\ Filter("failMask", "idle")
    /\ MaskOk \/ MaskFails
    /\ signalled' = TRUE
    /\ UNCHANGED <<controller, loopVars, attached, sourceOn, detaching, admitted,
                   device, abandoned>>

FilterStep ==
    \/ FilterLoad \/ FilterLevel \/ FilterClaim \/ FilterMask
    \/ FilterFail \/ FilterFailMask

-----------------------------------------------------------------------------
\* fail(): record the fault, then mask if still admitted.
LoopFail ==
    /\ Loop("failStore", "failMask")
    /\ st' = "fault"
    /\ abandoned' = (abandoned \/ call = "action")
    /\ UNCHANGED <<configured, batchReady, events, other, call, master, dw,
                   bank, fpc, adapter, admitted, enabled, device>>

LoopFailMask ==
    /\ Loop("failMask", OnError)
    /\ MaskOk \/ MaskFails
    /\ UNCHANGED <<controller, call, master, dw, bank, fpc, adapter, admitted,
                   device, abandoned>>

\* MellowXeInterrupt::attach, for an owner that has reset the device.  The
\* caller chooses an epoch that may or may not be admitted.
Attach ==
    /\ pc = "idle" /\ ~attached
    /\ attached' = TRUE /\ sourceOn' = FALSE /\ signalled' = FALSE
    /\ detaching' = FALSE
    /\ call' = "attach"
    /\ admitted' \in BOOLEAN
    /\ configured' = admitted'
    /\ pc' = IF admitted' THEN "confMask" ELSE "detach"
    /\ tile' = FALSE /\ gfx' = {} /\ latched' = {} /\ work' = {}
    /\ abandoned' = FALSE
    /\ UNCHANGED <<st, batchReady, events, other, master, dw, bank, fpc,
                   enabled>>

\* configure: mask delivery, ...
ConfigureMask ==
    /\ \/ MaskOk /\ Loop("confMask", "confRead")
       \/ MaskFails /\ Loop("confMask", "failStore")
    /\ UNCHANGED <<controller, call, master, dw, bank, fpc, adapter, admitted,
                   device, abandoned>>

\* ... see it masked, then program the engine and GuC mask registers.
ConfigureRead ==
    /\ \/ admitted /\ ~enabled /\ Loop("confRead", "idle")
       \/ Loop("confRead", "failStore")
    /\ UNCHANGED <<controller, call, master, dw, bank, fpc, adapter, admitted,
                   enabled, device, abandoned>>

\* MellowXeInterrupt::start enables the source before the controller looks.
\* Owner contract: a failed detach is retried, never followed by a start.
Start ==
    /\ attached /\ ~detaching
    /\ Loop("idle", IF configured /\ st = "stopped" /\ admitted
                    THEN "storeArmed" ELSE "disable")
    /\ call' = "start"
    /\ sourceOn' = TRUE
    /\ UNCHANGED <<controller, master, dw, bank, fpc, attached, signalled,
                   detaching, admitted, enabled, device, abandoned>>

\* rearm
StoreArmed ==
    /\ Loop("storeArmed", "enable")
    /\ st' = "armed"
    /\ UNCHANGED <<configured, batchReady, events, other, call, master, dw,
                   bank, fpc, adapter, admitted, enabled, device, abandoned>>

Enable ==
    /\ \/ admitted /\ enabled' = TRUE /\ Loop("enable", "recheck")
       \/ /\ enabled' \in (IF admitted THEN {enabled, TRUE} ELSE {enabled})
          /\ Loop("enable", "failStore")
    /\ UNCHANGED <<controller, call, master, dw, bank, fpc, adapter, admitted,
                   device, abandoned>>

\* The filter may have claimed the controller before the enable write.
\* Faulty variant: RecheckAlways trusts the enable write.
RecheckAlways == "idle"
RecheckTo == CASE st = "armed" -> "idle"
               [] st = "fault" -> "remaskFault"
               [] OTHER -> "remask"
Recheck ==
    /\ Loop("recheck", RecheckTo)
    /\ UNCHANGED <<controller, call, master, dw, bank, fpc, adapter, admitted,
                   enabled, device, abandoned>>

\* The state loaded by Recheck, not the present one, decides the status.
Remask ==
    /\ \/ MaskOk /\ (Loop("remask", "idle") \/ Loop("remaskFault", OnError))
       \/ MaskFails /\ pc \in {"remask", "remaskFault"} /\ pc' = "failStore"
    /\ UNCHANGED <<controller, call, master, dw, bank, fpc, adapter, admitted,
                   device, abandoned>>

-----------------------------------------------------------------------------
\* MellowXeInterrupt::action: one service() for all signals so far.
Action ==
    /\ attached /\ signalled
    /\ Loop("idle", "svcLoad")
    /\ call' = "action"
    /\ signalled' = FALSE
    /\ UNCHANGED <<controller, master, dw, bank, fpc, attached, sourceOn,
                   detaching, admitted, enabled, device, abandoned>>

\* Faulty variant: ServiceToAny does not look for a fault.
ServiceToAny == IF st \in {"stopped", "armed"} THEN "idle" ELSE "svcStore"
ServiceTo == CASE st = "fault" -> OnError
               [] st \in {"masked", "workloop"} -> "svcStore"
               [] OTHER -> "idle"
ServiceLoad ==
    /\ Loop("svcLoad", ServiceTo)
    /\ UNCHANGED <<controller, call, master, dw, bank, fpc, adapter, admitted,
                   enabled, device, abandoned>>

ServiceStore ==
    /\ \/ /\ admitted
          /\ Loop("svcStore", IF batchReady THEN "dispatch" ELSE "readTile")
          /\ st' = "workloop"
       \/ ~admitted /\ Loop("svcStore", "failStore") /\ UNCHANGED st
    /\ UNCHANGED <<configured, batchReady, events, other, call, master, dw,
                   bank, fpc, adapter, admitted, enabled, device, abandoned>>

\* A register access of collect that fails, finds delivery still enabled, a
\* foreign tile bit or an identity that never becomes valid.
CollectFails ==
    /\ pc \in Collecting
    /\ pc \in {"readBank", "clearBank"} => bank \in master
    /\ pc' = "failStore"
    /\ tile' \in IF pc = "ackTile" THEN {tile, FALSE} ELSE {tile}
    /\ gfx' \in IF pc = "ackGfx" THEN {gfx, gfx \ master} ELSE {gfx}
    /\ latched' \in IF pc = "clearBank" THEN {latched, latched \ dw}
                                        ELSE {latched}
    /\ UNCHANGED <<controller, call, master, dw, bank, fpc, adapter, admitted,
                   enabled, work, abandoned>>

\* collect: no tile bit means an empty batch.
CollectTile ==
    /\ admitted /\ ~enabled
    /\ Loop("readTile", IF tile THEN "ackTile" ELSE "dispatch")
    /\ batchReady' = ~tile
    /\ events' = IF tile THEN events ELSE {}
    /\ other' = (tile /\ other)
    /\ UNCHANGED <<st, configured, call, master, dw, bank, fpc, adapter,
                   admitted, enabled, device, abandoned>>

CollectAckTile ==
    /\ admitted
    /\ Loop("ackTile", "readGfx")
    /\ tile' = FALSE
    /\ UNCHANGED <<controller, call, master, dw, bank, fpc, adapter, admitted,
                   enabled, gfx, latched, work, abandoned>>

CollectReadGfx ==
    /\ admitted
    /\ Loop("readGfx", "ackGfx")
    /\ master' = gfx
    /\ UNCHANGED <<controller, call, dw, bank, fpc, adapter, admitted, enabled,
                   device, abandoned>>

CollectAckGfx ==
    /\ admitted
    /\ Loop("ackGfx", "readBank")
    /\ gfx' = gfx \ master
    /\ events' = {} /\ other' = (Other \in master)
    /\ bank' = 1
    /\ UNCHANGED <<st, configured, batchReady, call, master, dw, fpc, adapter,
                   admitted, enabled, tile, latched, work, abandoned>>

\* One bank: read its word, then select, capture and acknowledge every
\* identity in it.  A bank the master did not indicate is skipped.
CollectBank ==
    /\ admitted
    /\ Loop("readBank", "clearBank")
    /\ dw' = IF bank \in master THEN {s \in latched : BankOf(s) = bank} ELSE {}
    /\ events' = events \cup dw'
    /\ UNCHANGED <<st, configured, batchReady, other, call, master, bank, fpc,
                   adapter, admitted, enabled, device, abandoned>>

\* The bank summary is cleared only after all its identities were captured.
\* Faulty variant: ClearedWholeBank also clears bits that were not captured.
ClearedWholeBank == {s \in latched : BankOf(s) # bank}
Cleared == latched \ dw
NextBank == IF bank = 2 THEN 1 ELSE bank + 1
CollectClear ==
    /\ admitted
    /\ Loop("clearBank", IF bank = 2 THEN "dispatch" ELSE "readBank")
    /\ latched' = Cleared
    /\ bank' = NextBank
    /\ batchReady' = (bank = 2)
    /\ dw' = {} /\ master' = IF bank = 2 THEN {} ELSE master
    /\ UNCHANGED <<st, configured, events, other, call, fpc, adapter, admitted,
                   enabled, tile, gfx, work, abandoned>>

\* The handlers, in the order of the captured identities, other_ last.
Pending == events \cup (IF other THEN {Other} ELSE {})
Current == IF events # {} THEN Min(events) ELSE Other

\* Handling::Drained: the handler has seen all the work of its source.
Drained ==
    /\ pc = "dispatch" /\ admitted /\ Pending # {}
    /\ work' = work \ {Current}
    /\ events' = events \ {Current}
    /\ other' = (other /\ Current # Other)
    /\ UNCHANGED <<st, configured, batchReady, loopVars, fpc, adapter, admitted,
                   enabled, tile, gfx, latched, abandoned>>

\* Handling::More: the batch is kept and the action signals itself.
\* Faulty variant: MoreForgotten does not call the action again.
MoreForgotten == Loop("dispatch", "idle") /\ UNCHANGED signalled
Reschedule == Loop("dispatch", "idle") /\ signalled' = TRUE
More ==
    /\ admitted /\ Pending # {}
    /\ Reschedule
    /\ UNCHANGED <<controller, call, master, dw, bank, fpc, attached, sourceOn,
                   detaching, admitted, enabled, device, abandoned>>

\* Handling::Failed, or admission lost before a handler.
HandlerFails ==
    /\ Pending # {}
    /\ Loop("dispatch", "failStore")
    /\ UNCHANGED <<controller, call, master, dw, bank, fpc, adapter, admitted,
                   enabled, device, abandoned>>

BatchDone ==
    /\ Pending = {}
    /\ Loop("dispatch", "storeArmed")
    /\ batchReady' = FALSE
    /\ UNCHANGED <<st, configured, events, other, call, master, dw, bank, fpc,
                   adapter, admitted, enabled, device, abandoned>>

-----------------------------------------------------------------------------
\* source_->disable() after an error; it waits for a filter that is running.
DisableSource ==
    /\ fpc = "idle"
    /\ Loop("disable", "idle")
    /\ sourceOn' = FALSE
    /\ UNCHANGED <<controller, call, master, dw, bank, fpc, attached, signalled,
                   detaching, admitted, enabled, device, abandoned>>

\* MellowXeInterrupt::detach, also the error path of attach.
Detach ==
    /\ attached
    /\ Loop("idle", "detach")
    /\ call' = "detach"
    /\ UNCHANGED <<controller, master, dw, bank, fpc, adapter, admitted,
                   enabled, device, abandoned>>

DetachDisable ==
    /\ fpc = "idle"
    /\ Loop("detach", "stopStore")
    /\ call' = "detach"
    /\ sourceOn' = FALSE /\ detaching' = TRUE
    /\ UNCHANGED <<controller, master, dw, bank, fpc, attached, signalled,
                   admitted, enabled, device, abandoned>>

\* The source is removed and every reference dropped.
Removed == /\ attached' = FALSE /\ signalled' = FALSE /\ sourceOn' = FALSE
           /\ detaching' = FALSE

\* stop: without admission nothing is written and the adapter stays attached.
StopStore ==
    /\ st' = "stopped"
    /\ \/ ~configured /\ Loop("stopStore", "idle") /\ Removed
       \/ /\ configured
          /\ Loop("stopStore", IF admitted THEN "stopMask" ELSE "idle")
          /\ UNCHANGED adapter
    /\ UNCHANGED <<configured, batchReady, events, other, call, master, dw,
                   bank, fpc, admitted, enabled, device, abandoned>>

StopMask ==
    /\ \/ MaskOk /\ Loop("stopMask", "stopRead")
       \/ MaskFails /\ Loop("stopMask", "idle")
    /\ UNCHANGED <<controller, call, master, dw, bank, fpc, adapter, admitted,
                   device, abandoned>>

StopRead ==
    /\ \/ /\ admitted /\ ~enabled
          /\ configured' = FALSE /\ batchReady' = FALSE
          /\ events' = {} /\ other' = FALSE
          /\ Removed
       \/ UNCHANGED <<configured, batchReady, events, other, adapter>>
    /\ Loop("stopRead", "idle")
    /\ UNCHANGED <<st, call, master, dw, bank, fpc, admitted, enabled, device,
                   abandoned>>

-----------------------------------------------------------------------------
\* The device raises source s: new work, and every level latches it.
Raise(s) ==
    /\ work' = work \cup {s}
    /\ tile' = TRUE
    /\ gfx' = gfx \cup {BankOf(s)}
    /\ latched' = latched \cup ({s} \ {Other})
    /\ UNCHANGED <<controller, loopVars, fpc, adapter, admitted, enabled,
                   abandoned>>

\* The owner's admission (epoch, power, forcewake) comes and goes.
Admission ==
    /\ admitted' = ~admitted
    /\ UNCHANGED <<controller, loopVars, fpc, adapter, enabled, device,
                   abandoned>>

Collect ==
    \/ CollectTile \/ CollectAckTile \/ CollectReadGfx \/ CollectAckGfx
    \/ CollectBank \/ CollectClear

\* The work loop inside a call; the calls themselves come from the owner.
LoopStep ==
    \/ LoopFail \/ LoopFailMask \/ ConfigureMask \/ ConfigureRead
    \/ StoreArmed \/ Enable \/ Recheck \/ Remask
    \/ ServiceLoad \/ ServiceStore \/ Collect \/ CollectFails
    \/ Drained \/ More \/ HandlerFails \/ BatchDone
    \/ DisableSource \/ DetachDisable \/ StopStore \/ StopMask \/ StopRead

IrqNext ==
    \/ FilterEnter \/ FilterStep
    \/ LoopStep \/ Action
    \/ Attach \/ Start \/ Detach
    \/ \E s \in Wired : Raise(s)
    \/ Admission

\* The hardware delivers an enabled interrupt, the filter and the work loop
\* run, a due action is called, and a handler is not asked for More for ever.
IrqFairness ==
    /\ WF_irqVars(enabled /\ tile /\ FilterEnter)
    /\ WF_irqVars(FilterStep)
    /\ WF_irqVars(LoopStep)
    /\ WF_irqVars(Action)
    /\ SF_irqVars(Drained)

IrqSpec == IrqInit /\ [][IrqNext]_irqVars /\ IrqFairness

-----------------------------------------------------------------------------
\* While service() acknowledges a batch or runs its handlers the tile master does
\* not deliver.  At rest, a controller owned by the filter or the work loop is
\* masked (a level interrupt cannot storm), and one that is armed is listening.
MaskFollowsState ==
    /\ pc \in (Collecting \ {"readTile"}) \cup {"dispatch"} => ~enabled
    /\ pc = "idle" /\ fpc = "idle" =>
           /\ st \in {"masked", "workloop"} => ~enabled
           /\ st = "armed" => enabled

\* A fault recorded by either process is never overwritten except by stop().
FaultSticks == [][st = "fault" => st' \in {"fault", "stopped"}]_irqVars

\* No event is lost to the acknowledge sequence: at rest, work that no handler
\* has seen is in the captured batch or still latched at all three levels.
PendingIsLatched ==
    pc = "idle" /\ st \in {"armed", "masked", "workloop"} /\ ~abandoned =>
        \A s \in work :
            \/ s \in Pending
            \/ /\ tile /\ BankOf(s) \in gfx
               /\ s \in latched \cup {Other}

\* Work raised while the controller runs is handled, unless the controller
\* faults, is stopped or its source is disabled by an error.
WorkIsServed ==
    <>[]admitted =>
        \A s \in Wired :
            s \in work ~> \/ s \notin work
                          \/ st \in {"stopped", "fault"}
                          \/ ~sourceOn
                          \/ abandoned

=============================================================================
