---------------------------- MODULE Ips_proofs ----------------------------
(***************************************************************************)
(* Proofs about Ips, for any set of callers.  LockInv and the facts about  *)
(* suspend (Base) hold whatever the waits and the scan timer do; the       *)
(* handshake between rtw_pwr_wakeup and rtw_ps_processor (Handshake) needs *)
(* the three assumptions of Disciplined.                                   *)
(***************************************************************************)
EXTENDS Ips, TLAPS

\* The callers inside the locked part of ips_leave, and the command thread
\* inside that of ips_enter, are the holder of pwrpriv->lock.
LockInv ==
    /\ \A w \in Callers : pc[w] \in {"up", "left", "leftfail"} <=> lock = w
    /\ ppc \in {"down", "off"} <=> lock = Cmd
    /\ bips_processing => lock # None

\* Suspend runs with the callers frozen, and touches the card when the
\* command thread is gone.
SuspendInv ==
    /\ spc # "idle" => \A w \in Callers : pc[w] = "idle"
    /\ spc = "deinit" \/ ~bup => ppc = "idle" /\ ~wd
    /\ spc = "init" => ~bup

\* An open interface whose card is down is marked rf_off, and so it is while
\* a caller powers it up.
RfInv ==
    /\ rf_pwrstate \in {"on", "off"}
    /\ bup /\ ~hw_init_completed => rf_pwrstate = "off"
    /\ \A w \in Callers : pc[w] = "up" => rf_pwrstate = "off"

Base ==
    pc \in [Callers -> CallSteps] /\ LockInv /\ SuspendInv /\ RfInv

\* No wait for ps_processing runs out, no scan is ended by its timer, and
\* every caller wakes the card under a reason of its own.
Disciplined ==
    /\ ~TimeOuts /\ ~ScanTimer /\ Direct = {}
    /\ \A w \in Callers : Reason[w] # None
    /\ \A v, w \in Callers : Reason[v] = Reason[w] => v = w

\* A call that is under way has its reason set.
DenyInv == \A w \in Callers : pc[w] # "idle" => Reason[w] \in ps_deny

\* The callers that have moved ips_deny_time.
Deferred == {w \in Callers : pc[w] \notin {"idle", "bump"}}

\* The handshake: a processor that may still read ips_deny_time will find it
\* moved, and one that has read it is waited for.
MeetInv ==
    /\ ppc \in {"time", "state", "enter", "down", "off", "exit"}
          => ps_processing
    /\ ppc \in {"check", "time"} /\ Deferred # {} => ips_deny
    /\ \A w \in Deferred :
          pc[w] # "ps" => ppc \notin {"state", "enter", "down", "off"}

\* A card that is linked, or that a caller was given, is up.
Given == {w \in Callers : pc[w] \in {"good", "using"}}

Up == /\ hw_init_completed /\ bup /\ ~drv_stopped /\ rf_pwrstate = "on"

UpInv ==
    /\ mlme = "linked" => Up /\ ppc \notin {"enter", "down", "off"}
    /\ Given # {} => Up
    /\ \A w \in Callers : pc[w] \in {"left", "ready"} => rf_pwrstate = "on"
    /\ spc \in {"unload", "stop", "deinit"} => mlme = "idle"

Handshake == DenyInv /\ MeetInv /\ UpInv

-----------------------------------------------------------------------------
(* Base.                                                                   *)

\* rtw_ps_processor preserves Base: it enters ips_enter with the lock free.
LEMMA BaseProcessor ==
    ASSUME Base, Processor
    PROVE  Base'
<1>1. CASE Watchdog
  BY <1>1, CallersAssumption
  DEF Watchdog, psVars, rfVars, hwVars, denyVars, pcVars,
      Base, LockInv, SuspendInv, RfInv, CallSteps
<1>2. CASE ReadDeny
  BY <1>2, CallersAssumption
  DEF ReadDeny, psVars, rfVars, hwVars, denyVars, pcVars,
      Base, LockInv, SuspendInv, RfInv, CallSteps
<1>3. CASE CheckSuspend
  BY <1>3, CallersAssumption
  DEF CheckSuspend, psVars, rfVars, hwVars, denyVars, pcVars,
      Base, LockInv, SuspendInv, RfInv, CallSteps
<1>4. CASE CheckTime
  BY <1>4, CallersAssumption
  DEF CheckTime, psVars, rfVars, hwVars, denyVars, pcVars,
      Base, LockInv, SuspendInv, RfInv, CallSteps
<1>5. CASE CheckState
  BY <1>5, CallersAssumption
  DEF CheckState, psVars, rfVars, hwVars, denyVars, pcVars,
      Base, LockInv, SuspendInv, RfInv, CallSteps
<1>6. CASE ips_enter
  BY <1>6, CallersAssumption
  DEF ips_enter, psVars, rfVars, hwVars, denyVars, pcVars,
      Base, LockInv, SuspendInv, RfInv, CallSteps
<1>7. CASE rtw_ips_pwr_down
  BY <1>7, CallersAssumption
  DEF rtw_ips_pwr_down, psVars, rfVars, hwVars, denyVars, pcVars,
      Base, LockInv, SuspendInv, RfInv, CallSteps
<1>8. CASE IpsEntered
  BY <1>8, CallersAssumption
  DEF IpsEntered, psVars, rfVars, hwVars, denyVars, pcVars,
      Base, LockInv, SuspendInv, RfInv, CallSteps
<1>9. CASE ProcessorExit
  BY <1>9, CallersAssumption
  DEF ProcessorExit, psVars, rfVars, hwVars, denyVars, pcVars,
      Base, LockInv, SuspendInv, RfInv, CallSteps
<1> QED
  BY <1>1, <1>2, <1>3, <1>4, <1>5, <1>6, <1>7, <1>8, <1>9 DEF Processor

\* So do rtw_ps_deny, rtw_pwr_wakeup and rtw_ps_deny_cancel.
LEMMA BaseCaller ==
    ASSUME Base, \E w \in Callers : rtw_ps_deny(w) \/ Caller(w)
    PROVE  Base'
<1>0. PICK w \in Callers : rtw_ps_deny(w) \/ Caller(w)
  OBVIOUS
<1>1. CASE rtw_ps_deny(w)
  BY <1>1, CallersAssumption
  DEF rtw_ps_deny, Goto, psVars, rfVars, hwVars, denyVars, pcVars,
      Base, LockInv, SuspendInv, RfInv, CallSteps
<1>2. CASE DeferIps(w)
  BY <1>2, CallersAssumption
  DEF DeferIps, Goto, psVars, rfVars, hwVars, denyVars, pcVars,
      Base, LockInv, SuspendInv, RfInv, CallSteps
<1>3. CASE WaitProcessing(w)
  BY <1>3, CallersAssumption
  DEF WaitProcessing, Goto, psVars, rfVars, hwVars, denyVars, pcVars,
      Base, LockInv, SuspendInv, RfInv, CallSteps
<1>4. CASE WaitSuspend(w)
  BY <1>4, CallersAssumption
  DEF WaitSuspend, Goto, psVars, rfVars, hwVars, denyVars, pcVars,
      Base, LockInv, SuspendInv, RfInv, CallSteps
<1>5. CASE CheckAssoc(w)
  BY <1>5, CallersAssumption
  DEF CheckAssoc, Goto, psVars, rfVars, hwVars, denyVars, pcVars,
      Base, LockInv, SuspendInv, RfInv, CallSteps
<1>6. CASE ips_leave(w)
  BY <1>6, CallersAssumption
  DEF ips_leave, Goto, psVars, rfVars, hwVars, denyVars, pcVars,
      Base, LockInv, SuspendInv, RfInv, CallSteps
<1>7. CASE rtw_ips_pwr_up(w)
  BY <1>7, CallersAssumption
  DEF rtw_ips_pwr_up, Goto, psVars, rfVars, hwVars, denyVars, pcVars,
      Base, LockInv, SuspendInv, RfInv, CallSteps
<1>8. CASE IpsLeft(w)
  BY <1>8, CallersAssumption
  DEF IpsLeft, Goto, psVars, rfVars, hwVars, denyVars, pcVars,
      Base, LockInv, SuspendInv, RfInv, CallSteps
<1>9. CASE CheckReady(w)
  BY <1>9, CallersAssumption
  DEF CheckReady, Goto, psVars, rfVars, hwVars, denyVars, pcVars,
      Base, LockInv, SuspendInv, RfInv, CallSteps
<1>10. CASE WakeupReturns(w)
  BY <1>10, CallersAssumption
  DEF WakeupReturns, Goto, psVars, rfVars, hwVars, denyVars, pcVars,
      Base, LockInv, SuspendInv, RfInv, CallSteps
<1>11. CASE UseCard(w)
  BY <1>11, CallersAssumption
  DEF UseCard, Goto, psVars, rfVars, hwVars, denyVars, pcVars,
      Base, LockInv, SuspendInv, RfInv, CallSteps
<1>12. CASE rtw_ps_deny_cancel(w)
  BY <1>12, CallersAssumption
  DEF rtw_ps_deny_cancel, Goto, psVars, rfVars, hwVars, denyVars, pcVars,
      Base, LockInv, SuspendInv, RfInv, CallSteps
<1> QED
  BY <1>0, <1>1, <1>2, <1>3, <1>4, <1>5, <1>6, <1>7, <1>8, <1>9, <1>10, <1>11, <1>12 DEF Caller

\* The end of a scan, of a link or of the deferral leaves Base alone.
LEMMA BaseMlme ==
    ASSUME Base, \/ SurveyDone \/ rtw_scan_timeout_handler
           \/ rtw_indicate_disconnect \/ DeferEnds
    PROVE  Base'
<1>1. CASE SurveyDone
  BY <1>1
  DEF SurveyDone, psVars, rfVars, hwVars, denyVars, pcVars,
      Base, LockInv, SuspendInv, RfInv, CallSteps
<1>2. CASE rtw_scan_timeout_handler
  BY <1>2
  DEF rtw_scan_timeout_handler, psVars, rfVars, hwVars, denyVars, pcVars,
      Base, LockInv, SuspendInv, RfInv, CallSteps
<1>3. CASE rtw_indicate_disconnect
  BY <1>3
  DEF rtw_indicate_disconnect, psVars, rfVars, hwVars, denyVars, pcVars,
      Base, LockInv, SuspendInv, RfInv, CallSteps
<1>4. CASE DeferEnds
  BY <1>4
  DEF DeferEnds, psVars, rfVars, hwVars, denyVars, pcVars,
      Base, LockInv, SuspendInv, RfInv, CallSteps
<1> QED
  BY <1>1, <1>2, <1>3, <1>4

\* Suspend and resume preserve Base: the command thread is stopped first.
LEMMA BaseSuspend ==
    ASSUME Base, rtw_suspend_common \/ SuspendResume
    PROVE  Base'
<1>1. CASE rtw_suspend_common
  BY <1>1, CallersAssumption
  DEF rtw_suspend_common, psVars, rfVars, hwVars, denyVars, pcVars,
      Base, LockInv, SuspendInv, RfInv, CallSteps
<1>2. CASE SuspendWait
  BY <1>2, CallersAssumption
  DEF SuspendWait, psVars, rfVars, hwVars, denyVars, pcVars,
      Base, LockInv, SuspendInv, RfInv, CallSteps
<1>3. CASE SuspendDeny
  BY <1>3, CallersAssumption
  DEF SuspendDeny, psVars, rfVars, hwVars, denyVars, pcVars,
      Base, LockInv, SuspendInv, RfInv, CallSteps
<1>4. CASE SuspendLeave
  BY <1>4, CallersAssumption
  DEF SuspendLeave, psVars, rfVars, hwVars, denyVars, pcVars,
      Base, LockInv, SuspendInv, RfInv, CallSteps
<1>5. CASE SuspendAssoc
  BY <1>5, CallersAssumption
  DEF SuspendAssoc, psVars, rfVars, hwVars, denyVars, pcVars,
      Base, LockInv, SuspendInv, RfInv, CallSteps
<1>6. CASE rtw_dev_unload
  BY <1>6, CallersAssumption
  DEF rtw_dev_unload, psVars, rfVars, hwVars, denyVars, pcVars,
      Base, LockInv, SuspendInv, RfInv, CallSteps
<1>7. CASE rtw_stop_drv_threads
  BY <1>7, CallersAssumption
  DEF rtw_stop_drv_threads, psVars, rfVars, hwVars, denyVars, pcVars,
      Base, LockInv, SuspendInv, RfInv, CallSteps
<1>8. CASE UnloadDeinit
  BY <1>8, CallersAssumption
  DEF UnloadDeinit, psVars, rfVars, hwVars, denyVars, pcVars,
      Base, LockInv, SuspendInv, RfInv, CallSteps
<1>9. CASE rtw_resume_common
  BY <1>9, CallersAssumption
  DEF rtw_resume_common, psVars, rfVars, hwVars, denyVars, pcVars,
      Base, LockInv, SuspendInv, RfInv, CallSteps
<1>10. CASE ResumeInit
  BY <1>10, CallersAssumption
  DEF ResumeInit, psVars, rfVars, hwVars, denyVars, pcVars,
      Base, LockInv, SuspendInv, RfInv, CallSteps
<1>11. CASE Resumed
  BY <1>11, CallersAssumption
  DEF Resumed, psVars, rfVars, hwVars, denyVars, pcVars,
      Base, LockInv, SuspendInv, RfInv, CallSteps
<1> QED
  BY <1>1, <1>2, <1>3, <1>4, <1>5, <1>6, <1>7, <1>8, <1>9, <1>10, <1>11 DEF SuspendResume

-----------------------------------------------------------------------------
(* Handshake.                                                              *)

\* rtw_ps_processor goes past ips_deny_time only if no caller has moved it.
LEMMA HandshakeProcessor ==
    ASSUME Base, Disciplined, Handshake, Processor
    PROVE  Handshake'
<1>1. CASE Watchdog
  BY <1>1, CallersAssumption
  DEF Watchdog, psVars, rfVars, hwVars, denyVars, pcVars,
      Base, LockInv, SuspendInv, RfInv, CallSteps,
      Disciplined, Handshake, DenyInv, MeetInv, Deferred, UpInv, Given, Up
<1>2. CASE ReadDeny
  BY <1>2, CallersAssumption
  DEF ReadDeny, psVars, rfVars, hwVars, denyVars, pcVars,
      Base, LockInv, SuspendInv, RfInv, CallSteps,
      Disciplined, Handshake, DenyInv, MeetInv, Deferred, UpInv, Given, Up
<1>3. CASE CheckSuspend
  BY <1>3, CallersAssumption
  DEF CheckSuspend, psVars, rfVars, hwVars, denyVars, pcVars,
      Base, LockInv, SuspendInv, RfInv, CallSteps,
      Disciplined, Handshake, DenyInv, MeetInv, Deferred, UpInv, Given, Up
<1>4. CASE CheckTime
  BY <1>4, CallersAssumption
  DEF CheckTime, psVars, rfVars, hwVars, denyVars, pcVars,
      Base, LockInv, SuspendInv, RfInv, CallSteps,
      Disciplined, Handshake, DenyInv, MeetInv, Deferred, UpInv, Given, Up
<1>5. CASE CheckState
  BY <1>5, CallersAssumption
  DEF CheckState, psVars, rfVars, hwVars, denyVars, pcVars,
      Base, LockInv, SuspendInv, RfInv, CallSteps,
      Disciplined, Handshake, DenyInv, MeetInv, Deferred, UpInv, Given, Up
<1>6. CASE ips_enter
  BY <1>6, CallersAssumption
  DEF ips_enter, psVars, rfVars, hwVars, denyVars, pcVars,
      Base, LockInv, SuspendInv, RfInv, CallSteps,
      Disciplined, Handshake, DenyInv, MeetInv, Deferred, UpInv, Given, Up
<1>7. CASE rtw_ips_pwr_down
  BY <1>7, CallersAssumption
  DEF rtw_ips_pwr_down, psVars, rfVars, hwVars, denyVars, pcVars,
      Base, LockInv, SuspendInv, RfInv, CallSteps,
      Disciplined, Handshake, DenyInv, MeetInv, Deferred, UpInv, Given, Up
<1>8. CASE IpsEntered
  BY <1>8, CallersAssumption
  DEF IpsEntered, psVars, rfVars, hwVars, denyVars, pcVars,
      Base, LockInv, SuspendInv, RfInv, CallSteps,
      Disciplined, Handshake, DenyInv, MeetInv, Deferred, UpInv, Given, Up
<1>9. CASE ProcessorExit
  BY <1>9, CallersAssumption
  DEF ProcessorExit, psVars, rfVars, hwVars, denyVars, pcVars,
      Base, LockInv, SuspendInv, RfInv, CallSteps,
      Disciplined, Handshake, DenyInv, MeetInv, Deferred, UpInv, Given, Up
<1> QED
  BY <1>1, <1>2, <1>3, <1>4, <1>5, <1>6, <1>7, <1>8, <1>9 DEF Processor

\* rtw_pwr_wakeup goes past ps_processing only if no processor is beyond the
\* point where it reads ips_deny_time.
LEMMA HandshakeCaller ==
    ASSUME Base, Disciplined, Handshake, \E w \in Callers : rtw_ps_deny(w) \/ Caller(w)
    PROVE  Handshake'
<1>0. PICK w \in Callers : rtw_ps_deny(w) \/ Caller(w)
  OBVIOUS
<1>1. CASE rtw_ps_deny(w)
  BY <1>1, CallersAssumption
  DEF rtw_ps_deny, Goto, psVars, rfVars, hwVars, denyVars, pcVars,
      Base, LockInv, SuspendInv, RfInv, CallSteps,
      Disciplined, Handshake, DenyInv, MeetInv, Deferred, UpInv, Given, Up
<1>2. CASE DeferIps(w)
  BY <1>2, CallersAssumption
  DEF DeferIps, Goto, psVars, rfVars, hwVars, denyVars, pcVars,
      Base, LockInv, SuspendInv, RfInv, CallSteps,
      Disciplined, Handshake, DenyInv, MeetInv, Deferred, UpInv, Given, Up
<1>3. CASE WaitProcessing(w)
  BY <1>3, CallersAssumption
  DEF WaitProcessing, Goto, psVars, rfVars, hwVars, denyVars, pcVars,
      Base, LockInv, SuspendInv, RfInv, CallSteps,
      Disciplined, Handshake, DenyInv, MeetInv, Deferred, UpInv, Given, Up
<1>4. CASE WaitSuspend(w)
  BY <1>4, CallersAssumption
  DEF WaitSuspend, Goto, psVars, rfVars, hwVars, denyVars, pcVars,
      Base, LockInv, SuspendInv, RfInv, CallSteps,
      Disciplined, Handshake, DenyInv, MeetInv, Deferred, UpInv, Given, Up
<1>5. CASE CheckAssoc(w)
  BY <1>5, CallersAssumption
  DEF CheckAssoc, Goto, psVars, rfVars, hwVars, denyVars, pcVars,
      Base, LockInv, SuspendInv, RfInv, CallSteps,
      Disciplined, Handshake, DenyInv, MeetInv, Deferred, UpInv, Given, Up
<1>6. CASE ips_leave(w)
  BY <1>6, CallersAssumption
  DEF ips_leave, Goto, psVars, rfVars, hwVars, denyVars, pcVars,
      Base, LockInv, SuspendInv, RfInv, CallSteps,
      Disciplined, Handshake, DenyInv, MeetInv, Deferred, UpInv, Given, Up
<1>7. CASE rtw_ips_pwr_up(w)
  BY <1>7, CallersAssumption
  DEF rtw_ips_pwr_up, Goto, psVars, rfVars, hwVars, denyVars, pcVars,
      Base, LockInv, SuspendInv, RfInv, CallSteps,
      Disciplined, Handshake, DenyInv, MeetInv, Deferred, UpInv, Given, Up
<1>8. CASE IpsLeft(w)
  BY <1>8, CallersAssumption
  DEF IpsLeft, Goto, psVars, rfVars, hwVars, denyVars, pcVars,
      Base, LockInv, SuspendInv, RfInv, CallSteps,
      Disciplined, Handshake, DenyInv, MeetInv, Deferred, UpInv, Given, Up
<1>9. CASE CheckReady(w)
  BY <1>9, CallersAssumption
  DEF CheckReady, Goto, psVars, rfVars, hwVars, denyVars, pcVars,
      Base, LockInv, SuspendInv, RfInv, CallSteps,
      Disciplined, Handshake, DenyInv, MeetInv, Deferred, UpInv, Given, Up
<1>10. CASE WakeupReturns(w)
  BY <1>10, CallersAssumption
  DEF WakeupReturns, Goto, psVars, rfVars, hwVars, denyVars, pcVars,
      Base, LockInv, SuspendInv, RfInv, CallSteps,
      Disciplined, Handshake, DenyInv, MeetInv, Deferred, UpInv, Given, Up
<1>11. CASE UseCard(w)
  BY <1>11, CallersAssumption
  DEF UseCard, Goto, psVars, rfVars, hwVars, denyVars, pcVars,
      Base, LockInv, SuspendInv, RfInv, CallSteps,
      Disciplined, Handshake, DenyInv, MeetInv, Deferred, UpInv, Given, Up
<1>12. CASE rtw_ps_deny_cancel(w)
  BY <1>12, CallersAssumption
  DEF rtw_ps_deny_cancel, Goto, psVars, rfVars, hwVars, denyVars, pcVars,
      Base, LockInv, SuspendInv, RfInv, CallSteps,
      Disciplined, Handshake, DenyInv, MeetInv, Deferred, UpInv, Given, Up
<1> QED
  BY <1>0, <1>1, <1>2, <1>3, <1>4, <1>5, <1>6, <1>7, <1>8, <1>9, <1>10, <1>11, <1>12 DEF Caller

\* The end of a scan in the command thread does not meet its own processor.
LEMMA HandshakeMlme ==
    ASSUME Base, Disciplined, Handshake, \/ SurveyDone \/ rtw_scan_timeout_handler
           \/ rtw_indicate_disconnect \/ DeferEnds
    PROVE  Handshake'
<1>1. CASE SurveyDone
  BY <1>1
  DEF SurveyDone, psVars, rfVars, hwVars, denyVars, pcVars,
      Base, LockInv, SuspendInv, RfInv, CallSteps,
      Disciplined, Handshake, DenyInv, MeetInv, Deferred, UpInv, Given, Up
<1>2. CASE rtw_scan_timeout_handler
  BY <1>2
  DEF rtw_scan_timeout_handler, psVars, rfVars, hwVars, denyVars, pcVars,
      Base, LockInv, SuspendInv, RfInv, CallSteps,
      Disciplined, Handshake, DenyInv, MeetInv, Deferred, UpInv, Given, Up
<1>3. CASE rtw_indicate_disconnect
  BY <1>3
  DEF rtw_indicate_disconnect, psVars, rfVars, hwVars, denyVars, pcVars,
      Base, LockInv, SuspendInv, RfInv, CallSteps,
      Disciplined, Handshake, DenyInv, MeetInv, Deferred, UpInv, Given, Up
<1>4. CASE DeferEnds
  BY <1>4
  DEF DeferEnds, psVars, rfVars, hwVars, denyVars, pcVars,
      Base, LockInv, SuspendInv, RfInv, CallSteps,
      Disciplined, Handshake, DenyInv, MeetInv, Deferred, UpInv, Given, Up
<1> QED
  BY <1>1, <1>2, <1>3, <1>4

\* Suspend finds the callers frozen, and frees the link before it unloads.
LEMMA HandshakeSuspend ==
    ASSUME Base, Disciplined, Handshake, rtw_suspend_common \/ SuspendResume
    PROVE  Handshake'
<1>1. CASE rtw_suspend_common
  BY <1>1, CallersAssumption
  DEF rtw_suspend_common, psVars, rfVars, hwVars, denyVars, pcVars,
      Base, LockInv, SuspendInv, RfInv, CallSteps,
      Disciplined, Handshake, DenyInv, MeetInv, Deferred, UpInv, Given, Up
<1>2. CASE SuspendWait
  BY <1>2, CallersAssumption
  DEF SuspendWait, psVars, rfVars, hwVars, denyVars, pcVars,
      Base, LockInv, SuspendInv, RfInv, CallSteps,
      Disciplined, Handshake, DenyInv, MeetInv, Deferred, UpInv, Given, Up
<1>3. CASE SuspendDeny
  BY <1>3, CallersAssumption
  DEF SuspendDeny, psVars, rfVars, hwVars, denyVars, pcVars,
      Base, LockInv, SuspendInv, RfInv, CallSteps,
      Disciplined, Handshake, DenyInv, MeetInv, Deferred, UpInv, Given, Up
<1>4. CASE SuspendLeave
  BY <1>4, CallersAssumption
  DEF SuspendLeave, psVars, rfVars, hwVars, denyVars, pcVars,
      Base, LockInv, SuspendInv, RfInv, CallSteps,
      Disciplined, Handshake, DenyInv, MeetInv, Deferred, UpInv, Given, Up
<1>5. CASE SuspendAssoc
  BY <1>5, CallersAssumption
  DEF SuspendAssoc, psVars, rfVars, hwVars, denyVars, pcVars,
      Base, LockInv, SuspendInv, RfInv, CallSteps,
      Disciplined, Handshake, DenyInv, MeetInv, Deferred, UpInv, Given, Up
<1>6. CASE rtw_dev_unload
  BY <1>6, CallersAssumption
  DEF rtw_dev_unload, psVars, rfVars, hwVars, denyVars, pcVars,
      Base, LockInv, SuspendInv, RfInv, CallSteps,
      Disciplined, Handshake, DenyInv, MeetInv, Deferred, UpInv, Given, Up
<1>7. CASE rtw_stop_drv_threads
  BY <1>7, CallersAssumption
  DEF rtw_stop_drv_threads, psVars, rfVars, hwVars, denyVars, pcVars,
      Base, LockInv, SuspendInv, RfInv, CallSteps,
      Disciplined, Handshake, DenyInv, MeetInv, Deferred, UpInv, Given, Up
<1>8. CASE UnloadDeinit
  BY <1>8, CallersAssumption
  DEF UnloadDeinit, psVars, rfVars, hwVars, denyVars, pcVars,
      Base, LockInv, SuspendInv, RfInv, CallSteps,
      Disciplined, Handshake, DenyInv, MeetInv, Deferred, UpInv, Given, Up
<1>9. CASE rtw_resume_common
  BY <1>9, CallersAssumption
  DEF rtw_resume_common, psVars, rfVars, hwVars, denyVars, pcVars,
      Base, LockInv, SuspendInv, RfInv, CallSteps,
      Disciplined, Handshake, DenyInv, MeetInv, Deferred, UpInv, Given, Up
<1>10. CASE ResumeInit
  BY <1>10, CallersAssumption
  DEF ResumeInit, psVars, rfVars, hwVars, denyVars, pcVars,
      Base, LockInv, SuspendInv, RfInv, CallSteps,
      Disciplined, Handshake, DenyInv, MeetInv, Deferred, UpInv, Given, Up
<1>11. CASE Resumed
  BY <1>11, CallersAssumption
  DEF Resumed, psVars, rfVars, hwVars, denyVars, pcVars,
      Base, LockInv, SuspendInv, RfInv, CallSteps,
      Disciplined, Handshake, DenyInv, MeetInv, Deferred, UpInv, Given, Up
<1> QED
  BY <1>1, <1>2, <1>3, <1>4, <1>5, <1>6, <1>7, <1>8, <1>9, <1>10, <1>11 DEF SuspendResume

-----------------------------------------------------------------------------
(* The theorems.                                                           *)

\* Base is an invariant of every instance.
LEMMA BaseInvariant == Spec => []Base
<1>1. Init => Base
  BY CallersAssumption DEF Init, Base, LockInv, SuspendInv, RfInv, CallSteps
<1>2. Base /\ [Next]_vars => Base'
  <2> SUFFICES ASSUME Base, [Next]_vars PROVE Base'
    OBVIOUS
  <2>1. CASE UNCHANGED vars
    BY <2>1 DEF vars, psVars, rfVars, hwVars, denyVars, pcVars, Base, LockInv,
                SuspendInv, RfInv
  <2> QED
    BY <2>1, BaseProcessor, BaseCaller, BaseMlme, BaseSuspend DEF Next
<1> QED
  BY <1>1, <1>2, PTL DEF Spec

\* Whatever waits run out and whatever fails, no two of the watchdog, the
\* callers of rtw_pwr_wakeup and suspend are inside rtw_hal_init or
\* rtw_hal_deinit at the same time.
THEOREM PowerSequencesApart == Spec => []HalAlone
<1>1. Base => HalAlone
  BY CallersAssumption DEF Base, LockInv, SuspendInv, HalAlone, InHal
<1> QED
  BY <1>1, BaseInvariant, PTL

\* A failed rtw_ips_pwr_up leaves rf_pwrstate as rf_off, so that the next
\* rtw_pwr_wakeup tries again, whatever happened in between.
THEOREM FailedLeaveRetryable == Spec => []Retryable
<1>1. Base => Retryable
  BY DEF Base, RfInv, Retryable
<1> QED
  BY <1>1, BaseInvariant, PTL

\* Under Disciplined, the card stays up from the success of rtw_pwr_wakeup to
\* rtw_ps_deny_cancel, although the processor looks at ps_deny only once.
THEOREM WokenStaysUp == Disciplined => (Spec => []AccessUp)
<1> SUFFICES ASSUME Disciplined PROVE Spec => []AccessUp
  OBVIOUS
<1>1. Init => Handshake
  BY DEF Init, Handshake, DenyInv, MeetInv, Deferred, UpInv, Given
<1>2. Base /\ Handshake /\ [Next]_vars => Handshake'
  <2> SUFFICES ASSUME Base, Handshake, [Next]_vars PROVE Handshake'
    OBVIOUS
  <2>1. CASE UNCHANGED vars
    BY <2>1 DEF vars, psVars, rfVars, hwVars, denyVars, pcVars, Handshake,
                DenyInv, MeetInv, Deferred, UpInv, Given, Up
  <2> QED
    BY <2>1, HandshakeProcessor, HandshakeCaller, HandshakeMlme,
       HandshakeSuspend DEF Next
<1>3. Handshake => AccessUp
  BY DEF Handshake, UpInv, Given, Up, AccessUp
<1> QED
  BY <1>1, <1>2, <1>3, BaseInvariant, PTL DEF Spec

=============================================================================
