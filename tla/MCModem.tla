------------------------------ MODULE MCModem -------------------------------
(***************************************************************************)
(* The instance TLC checks of three components that share no state: the    *)
(* keys, the waking up for a message and the registration of the modem.    *)
(* The initial state chooses the one that runs; the others rest.           *)
(***************************************************************************)
EXTENDS Keys, Wakeup, Registration

VARIABLE part

vars == <<part, keyVars, wakeupVars, registrationVars>>

Init ==
  /\ part \in {"keys", "wakeup", "registration"}
  /\ KeysInit /\ WakeupInit /\ RegistrationInit

Next ==
  /\ UNCHANGED part
  /\ \/ part = "keys" /\ KeysNext /\ UNCHANGED <<wakeupVars, registrationVars>>
     \/ part = "wakeup" /\ WakeupNext /\ UNCHANGED <<keyVars, registrationVars>>
     \/ part = "registration" /\ RegistrationNext /\ UNCHANGED <<keyVars, wakeupVars>>

\* WakeupFairness and RegistrationFairness, of the component that runs.
Wakes == part = "wakeup"
Registers == part = "registration"

Fairness ==
  /\ WF_wakeupVars(Wakes /\ LPTimerSecond)
  /\ WF_wakeupVars(Wakes /\ MainLoop)
  /\ WF_wakeupVars(Wakes /\ OthersDone)
  /\ SF_wakeupVars(Wakes /\ SmsCheck /\ mainStep' = "list")
  /\ SF_wakeupVars(Wakes /\ SmsList /\ smsUnread' > 0)
  /\ SF_wakeupVars(Wakes /\ SmsDelete /\ stored' < stored)
  /\ WF_wakeupVars(Wakes /\ WakeUp)
  /\ WF_registrationVars(Registers /\ ModemCmd_Task)
  /\ WF_registrationVars(Registers /\ Gsm_Task)
  /\ WF_registrationVars(Registers /\ (OthersSend \/ OthersBypass \/ OthersCancel \/ OthersIdle))
  /\ SF_registrationVars(Registers /\ ModemCmd_Task /\ (SendPhase \/ WaitTimeout))
  /\ SF_registrationVars(Registers /\ Gsm_Task /\ Advances)
  /\ WF_registrationVars(Registers /\ CallGone)

Spec == Init /\ [][Next]_vars /\ Fairness
=============================================================================
