------------------------------- MODULE MCUnit -------------------------------
(***************************************************************************)
(* The instance TLC checks of six components that share no state: the ring *)
(* buffer, the alarms, the boot loader, and what the flash memories keep,  *)
(* which are the variables, the log and the configuration.  The initial    *)
(* state chooses the one that runs; the others rest.                       *)
(***************************************************************************)
EXTENDS RingBuf, Alarms, Bootloader, U32Store, TrackerLog, Config, TLC

VARIABLE part

vars == <<part, ringVars, alarmVars, bootloaderVars, u32Vars, logVars, cfgVars>>

Init ==
  /\ part \in {"ring", "alarms", "bootloader", "variables", "log", "config"}
  /\ RingInit /\ AlarmInit /\ BootloaderInit /\ U32Init /\ LogInit /\ ConfigInit
  /\ part # "ring" => pt = [i \in Index |-> CHOOSE b \in Byte : TRUE]
  /\ part # "alarms" => featureSet = (CHOOSE f \in FeatureSets : TRUE) /\ ~charging
  /\ part # "bootloader" => hostImage = (CHOOSE i \in Image : TRUE)

\* The parts with a flash memory; cuts, which they have in common, is theirs.
FlashStep ==
  /\ UNCHANGED <<ringVars, alarmVars>>
  /\ \/ part = "bootloader" /\ BootloaderNext
     \/ part # "bootloader" /\ UNCHANGED <<deviceVars, hostVars, usbRecv, usbSend, losses, begins>>
  /\ \/ part = "variables" /\ U32Next
     \/ /\ part # "variables"
        /\ UNCHANGED <<flash, lastByte, cnt, value, oldValue, saving, saveStep, history>>
  /\ \/ part = "log" /\ LogNext
     \/ /\ part # "log"
        /\ UNCHANGED <<data, ringFlash, ring, ringCnt, logStep, nextHead, saves,
                       recorded, spoiled, harmed>>
  /\ \/ part = "config" /\ ConfigNext
     \/ /\ part # "config"
        /\ UNCHANGED <<cfgRam, cfgFlash, cfgStep, cfgAt, intended, loadable,
                       overlapped, changes>>

Next ==
  /\ UNCHANGED part
  /\ \/ part = "ring" /\ RingNext /\ UNCHANGED <<alarmVars, bootloaderVars, u32Vars, logVars, cfgVars>>
     \/ part = "alarms" /\ AlarmNext /\ UNCHANGED <<ringVars, bootloaderVars, u32Vars, logVars, cfgVars>>
     \/ part \notin {"ring", "alarms"} /\ FlashStep

\* AlarmFairness and BootloaderFairness, of the component that runs.
Fairness ==
  /\ WF_alarmVars(part = "alarms" /\ Io_Task)
  /\ SF_alarmVars(part = "alarms" /\ SosComesToEnd)
  /\ WF_alarmVars(part = "alarms" /\ CallEnds)
  /\ WF_bootloaderVars(part = "bootloader" /\ MainLoop)
  /\ WF_bootloaderVars(part = "bootloader" /\ HostSends)
  /\ WF_bootloaderVars(part = "bootloader" /\ HostReceives)
  /\ SF_bootloaderVars(part = "bootloader" /\ HostReceives /\ usbSend = Done)

Spec == Init /\ [][Next]_vars /\ Fairness

LoneWorker == [a \in Alarm |-> IF a = "loneWorker" THEN 1 ELSE 0]
SomeFeatures == {{"loneWorker"}, {"noMovement", "manDown"}}
TwoSizes == ("a" :> [page |-> 1, at |-> 1]) @@ ("b" :> [page |-> 1, at |-> 0])
=============================================================================
