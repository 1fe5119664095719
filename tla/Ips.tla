-------------------------------- MODULE Ips --------------------------------
(***************************************************************************)
(* Inactive power save (IPS) and system suspend (core/rtw_pwrctrl.c,       *)
(* os_dep/linux/os_intfs.c).  The watchdog, in the command thread, powers  *)
(* an idle card down; whoever needs the card calls rtw_ps_deny and         *)
(* rtw_pwr_wakeup first; suspend unloads the card whatever its state.      *)
(*                                                                         *)
(* Only the two power transitions run under pwrpriv->lock as a whole.  The *)
(* rest is a handshake over plain variables: the caller sets               *)
(* ips_deny_time, then reads ps_processing; rtw_ps_processor sets          *)
(* ps_processing, then reads ips_deny_time.                                *)
(*                                                                         *)
(* Abstracted: ips_deny_time is in the future or not; of the firmware      *)
(* state, an interface is idle, scanning or linked (joining counts as      *)
(* linked).  ips_mode_req is IPS_NORMAL.  LPS, the silent reset and the    *)
(* closing and opening of the interface are left out.                      *)
(***************************************************************************)
EXTENDS Naturals, FiniteSets

CONSTANTS
    Callers,     \* tasks that ask for the card
    Reason,      \* the PS_DENY_REASON of each caller, None if it sets none
    Direct,      \* callers of LeaveAllPowerSaveModeDirect, not of the wakeup
    Suspending,  \* PS_DENY_SUSPEND
    CanSuspend,  \* bound: whether the system is ever suspended
    CanFail,     \* whether rtw_hal_init and rtw_hal_deinit may fail
    TimeOuts,    \* whether the wait for ps_processing may reach 3 seconds
    ScanTimer,   \* whether scan_to_timer may end a scan
    Cmd,         \* the command thread, as holder of the lock
    None

ASSUME CallersAssumption ==
    /\ Cmd \notin Callers /\ None \notin Callers \cup {Cmd, Suspending}
    /\ Direct \subseteq Callers
    /\ \A w \in Callers : Reason[w] # Suspending
    /\ \A w \in Direct : Reason[w] # None

ASSUME FlagsAssumption ==
    {CanSuspend, CanFail, TimeOuts, ScanTimer} \subseteq BOOLEAN

VARIABLES
    lock,             \* pwrpriv->lock, while held across steps
    ps_deny,          \* the reasons whose bit is set
    ips_deny,         \* ips_deny_time is in the future
    ps_processing,
    bips_processing,
    bpower_saving,
    rf_pwrstate, change_rfpwrstate,
    hw_init_completed,
    bup, drv_stopped,
    bInSuspend,
    mlme,             \* fw_state: "idle", "survey" or "linked"
    wd,               \* the watchdog can run: timer armed, thread alive
    ppc,              \* where the command thread is in rtw_ps_processor
    pc,               \* where each caller is
    spc,              \* where suspend and resume are
    owed              \* history: callers whose ips_deffer_ms are not over

psVars == <<ps_processing, bips_processing, bpower_saving>>
rfVars == <<rf_pwrstate, change_rfpwrstate>>
hwVars == <<hw_init_completed, bup, drv_stopped>>
denyVars == <<ps_deny, ips_deny, owed>>
pcVars == <<ppc, pc, spc>>
vars == <<lock, denyVars, psVars, rfVars, hwVars, bInSuspend, mlme, wd,
          pcVars>>

ProcSteps == {"idle", "wd", "check", "time", "state", "enter", "down", "off",
              "exit"}
CallSteps == {"idle", "bump", "ps", "suspend", "assoc", "leave", "up", "left",
              "leftfail", "ready", "good", "bad", "using", "cancel"}
SuspendSteps == {"idle", "wait", "deny", "leave", "assoc", "unload", "stop",
                 "deinit", "down", "init", "resumed"}

Init ==
    /\ lock = None /\ ps_deny = {} /\ ips_deny = FALSE /\ owed = {}
    /\ ps_processing = FALSE /\ bips_processing = FALSE
    /\ bpower_saving = FALSE
    /\ rf_pwrstate = "on" /\ change_rfpwrstate = "on"
    /\ hw_init_completed = TRUE /\ bup = TRUE /\ drv_stopped = FALSE
    /\ bInSuspend = FALSE /\ mlme = "idle" /\ wd = TRUE
    /\ ppc = "idle" /\ pc = [w \in Callers |-> "idle"] /\ spc = "idle"

Goto(w, step) == pc' = [pc EXCEPT ![w] = step]

-----------------------------------------------------------------------------
(* The command thread: rtw_ps_processor, ips_enter, rtw_ips_pwr_down.      *)

\* rtw_dynamic_chk_wk_hdl, up to its call of rtw_ps_processor.  The timer
\* that queued the command saw the card initialised; it may no longer be.
Watchdog ==
    /\ ppc = "idle" /\ wd /\ ~drv_stopped
    /\ ppc' = "wd"
    /\ UNCHANGED <<lock, denyVars, psVars, rfVars, hwVars, bInSuspend, mlme,
                   wd, pc, spc>>

\* rtw_ps_deny_get under the lock; the exit path finds ps_processing clear.
ReadDeny ==
    /\ ppc = "wd" /\ lock = None
    /\ ppc' = IF ps_deny # {} THEN "idle" ELSE "check"
    /\ UNCHANGED <<lock, denyVars, psVars, rfVars, hwVars, bInSuspend, mlme,
                   wd, pc, spc>>

CheckSuspend_NoMark ==
    /\ ppc = "check"
    /\ ppc' = IF bInSuspend THEN "idle" ELSE "time"
    /\ UNCHANGED <<lock, denyVars, psVars, rfVars, hwVars, bInSuspend, mlme,
                   wd, pc, spc>>

CheckSuspend ==
    /\ ppc = "check"
    /\ IF bInSuspend
         THEN ppc' = "idle" /\ UNCHANGED ps_processing
         ELSE ppc' = "time" /\ ps_processing' = TRUE
    /\ UNCHANGED <<lock, denyVars, bips_processing, bpower_saving, rfVars,
                   hwVars, bInSuspend, mlme, wd, pc, spc>>

\* rtw_pwr_unassociated_idle: bpower_saving and ips_deny_time.
CheckTime ==
    /\ ppc = "time"
    /\ ppc' = IF bpower_saving \/ ips_deny THEN "exit" ELSE "state"
    /\ UNCHANGED <<lock, denyVars, psVars, rfVars, hwVars, bInSuspend, mlme,
                   wd, pc, spc>>

\* The rest of it, the interface's state, then rf_pwrstate.  Frames yet to
\* be sent also stop the processor.
CheckState ==
    /\ ppc = "state"
    /\ \/ /\ (bup /\ ~drv_stopped) => mlme = "idle"
          /\ rf_pwrstate = "on"
          /\ change_rfpwrstate' = "off" /\ ppc' = "enter"
       \/ /\ ppc' = "exit" /\ UNCHANGED change_rfpwrstate
    /\ UNCHANGED <<lock, denyVars, psVars, rf_pwrstate, hwVars, bInSuspend,
                   mlme, wd, pc, spc>>

ips_enter ==
    /\ ppc = "enter" /\ lock = None
    /\ lock' = Cmd /\ bips_processing' = TRUE
    /\ IF change_rfpwrstate = "off"
         THEN bpower_saving' = TRUE /\ ppc' = "down"
         ELSE UNCHANGED bpower_saving /\ ppc' = "off"
    /\ UNCHANGED <<denyVars, ps_processing, rfVars, hwVars, bInSuspend, mlme,
                   wd, pc, spc>>

\* rtw_hal_deinit has returned.
rtw_ips_pwr_down ==
    /\ ppc = "down"
    /\ hw_init_completed' \in {FALSE, CanFail /\ hw_init_completed}
    /\ rf_pwrstate' = "off" /\ ppc' = "off"
    /\ UNCHANGED <<lock, denyVars, psVars, change_rfpwrstate, bup,
                   drv_stopped, bInSuspend, mlme, wd, pc, spc>>

IpsEntered_StillProcessing ==
    /\ ppc = "off"
    /\ lock' = None /\ ppc' = "exit"
    /\ UNCHANGED <<denyVars, psVars, rfVars,
                   hwVars, bInSuspend, mlme, wd, pc, spc>>

IpsEntered ==
    /\ ppc = "off"
    /\ bips_processing' = FALSE /\ lock' = None /\ ppc' = "exit"
    /\ UNCHANGED <<denyVars, ps_processing, bpower_saving, rfVars, hwVars,
                   bInSuspend, mlme, wd, pc, spc>>

ProcessorExit_StillProcessing ==
    /\ ppc = "exit"
    /\ ppc' = "idle"
    /\ UNCHANGED <<lock, denyVars, psVars, rfVars,
                   hwVars, bInSuspend, mlme, wd, pc, spc>>

ProcessorExit ==
    /\ ppc = "exit"
    /\ ps_processing' = FALSE /\ ppc' = "idle"
    /\ UNCHANGED <<lock, denyVars, bips_processing, bpower_saving, rfVars,
                   hwVars, bInSuspend, mlme, wd, pc, spc>>

Processor ==
    \/ Watchdog \/ ReadDeny \/ CheckSuspend \/ CheckTime \/ CheckState
    \/ ips_enter \/ rtw_ips_pwr_down \/ IpsEntered \/ ProcessorExit

-----------------------------------------------------------------------------
(* A caller: rtw_ps_deny, rtw_pwr_wakeup, its work, rtw_ps_deny_cancel.    *)

rtw_ps_deny_AnyReason(w) ==
    /\ pc[w] = "idle" /\ spc = "idle" /\ lock = None
    /\ ps_deny' = ps_deny \cup {Reason[w]}
    /\ Goto(w, IF w \in Direct THEN "using" ELSE "bump")
    /\ UNCHANGED <<lock, ips_deny, owed, psVars, rfVars, hwVars, bInSuspend,
                   mlme, wd, ppc, spc>>

\* Tasks are frozen from before suspend to after resume (the kernel's
\* freezer), so a call never starts then.
rtw_ps_deny(w) ==
    /\ pc[w] = "idle" /\ spc = "idle"
    /\ IF Reason[w] = None
         THEN UNCHANGED ps_deny
         ELSE lock = None /\ ps_deny' = ps_deny \cup {Reason[w]}
    /\ Goto(w, IF w \in Direct THEN "using" ELSE "bump")
    /\ UNCHANGED <<lock, ips_deny, owed, psVars, rfVars, hwVars, bInSuspend,
                   mlme, wd, ppc, spc>>

\* _rtw_pwr_wakeup: LeaveAllPowerSaveMode does nothing for IPS in this
\* configuration.
DeferIps(w) ==
    /\ pc[w] = "bump"
    /\ ips_deny' = TRUE
    /\ Goto(w, "ps")
    /\ UNCHANGED <<lock, ps_deny, owed, psVars, rfVars, hwVars, bInSuspend,
                   mlme, wd, ppc, spc>>

WaitProcessing(w) ==
    /\ pc[w] = "ps" /\ (ps_processing => TimeOuts)
    /\ Goto(w, "suspend")
    /\ UNCHANGED <<lock, denyVars, psVars, rfVars, hwVars, bInSuspend, mlme,
                   wd, ppc, spc>>

\* The wait for bInSuspend is bounded too.
WaitSuspend(w) ==
    /\ pc[w] = "suspend"
    /\ Goto(w, IF bInSuspend THEN "bad" ELSE "assoc")
    /\ UNCHANGED <<lock, denyVars, psVars, rfVars, hwVars, bInSuspend, mlme,
                   wd, ppc, spc>>

CheckAssoc(w) ==
    /\ pc[w] = "assoc"
    /\ Goto(w, IF mlme = "linked" THEN "good"
               ELSE IF rf_pwrstate = "off" THEN "leave" ELSE "ready")
    /\ UNCHANGED <<lock, denyVars, psVars, rfVars, hwVars, bInSuspend, mlme,
                   wd, ppc, spc>>

\* ips_leave, up to rtw_hal_init.  rf_pwrstate is read again under the lock.
ips_leave(w) ==
    /\ pc[w] = "leave" /\ lock = None
    /\ IF rf_pwrstate = "off" /\ ~bips_processing
         THEN /\ lock' = w /\ bips_processing' = TRUE
              /\ change_rfpwrstate' = "on" /\ drv_stopped' = FALSE
              /\ mlme' = IF mlme = "survey" THEN "idle" ELSE mlme
              /\ Goto(w, "up")
         ELSE /\ Goto(w, "ready")
              /\ UNCHANGED <<lock, bips_processing, change_rfpwrstate,
                             drv_stopped, mlme>>
    /\ UNCHANGED <<denyVars, ps_processing, bpower_saving, rf_pwrstate,
                   hw_init_completed, bup, bInSuspend, wd, ppc, spc>>

rtw_ips_pwr_up_FailIsOn(w) ==
    /\ pc[w] = "up"
    /\ \/ hw_init_completed' = TRUE /\ Goto(w, "left")
       \/ CanFail /\ hw_init_completed' = FALSE /\ Goto(w, "leftfail")
    /\ rf_pwrstate' = "on"
    /\ UNCHANGED <<lock, denyVars, psVars, change_rfpwrstate, bup,
                   drv_stopped, bInSuspend, mlme, wd, ppc, spc>>

\* rtw_hal_init has returned.
rtw_ips_pwr_up(w) ==
    /\ pc[w] = "up"
    /\ \/ /\ hw_init_completed' = TRUE /\ rf_pwrstate' = "on"
          /\ Goto(w, "left")
       \/ /\ CanFail /\ hw_init_completed' = FALSE /\ Goto(w, "leftfail")
          /\ UNCHANGED rf_pwrstate
    /\ UNCHANGED <<lock, denyVars, psVars, change_rfpwrstate, bup,
                   drv_stopped, bInSuspend, mlme, wd, ppc, spc>>

IpsLeft(w) ==
    /\ pc[w] \in {"left", "leftfail"}
    /\ bips_processing' = FALSE /\ bpower_saving' = FALSE /\ lock' = None
    /\ Goto(w, IF pc[w] = "left" THEN "ready" ELSE "bad")
    /\ UNCHANGED <<denyVars, ps_processing, rfVars, hwVars, bInSuspend, mlme,
                   wd, ppc, spc>>

CheckReady(w) ==
    /\ pc[w] = "ready"
    /\ Goto(w, IF drv_stopped \/ ~bup \/ ~hw_init_completed
                 THEN "bad" ELSE "good")
    /\ UNCHANGED <<lock, denyVars, psVars, rfVars, hwVars, bInSuspend, mlme,
                   wd, ppc, spc>>

\* ips_deny_time is moved again on the way out.
WakeupReturns(w) ==
    /\ pc[w] \in {"good", "bad"}
    /\ ips_deny' = TRUE
    /\ owed' = owed \cup {v \in {w} : pc[v] = "good"}
    /\ Goto(w, IF pc[w] = "good" THEN "using" ELSE "cancel")
    /\ UNCHANGED <<lock, ps_deny, psVars, rfVars, hwVars, bInSuspend, mlme,
                   wd, ppc, spc>>

\* The caller starts a scan or joins a network, as cfg80211_rtw_scan and
\* cfg80211_rtw_connect do, or only reads registers.
UseCard(w) ==
    /\ pc[w] = "using"
    /\ \/ w \notin Direct /\ mlme = "idle" /\ mlme' \in {"survey", "linked"}
       \/ UNCHANGED mlme
    /\ Goto(w, "cancel")
    /\ UNCHANGED <<lock, denyVars, psVars, rfVars, hwVars, bInSuspend, wd,
                   ppc, spc>>

rtw_ps_deny_cancel_KeepsReason(w) ==
    /\ pc[w] = "cancel" /\ (Reason[w] # None => lock = None)
    /\ Goto(w, "idle")
    /\ UNCHANGED <<lock, denyVars, psVars, rfVars, hwVars, bInSuspend,
                   mlme, wd, ppc, spc>>

rtw_ps_deny_cancel(w) ==
    /\ pc[w] = "cancel" /\ (Reason[w] # None => lock = None)
    /\ ps_deny' = ps_deny \ {Reason[w]}
    /\ Goto(w, "idle")
    /\ UNCHANGED <<lock, ips_deny, owed, psVars, rfVars, hwVars, bInSuspend,
                   mlme, wd, ppc, spc>>

Caller(w) ==
    \/ DeferIps(w) \/ WaitProcessing(w) \/ WaitSuspend(w) \/ CheckAssoc(w)
    \/ ips_leave(w) \/ rtw_ips_pwr_up(w) \/ IpsLeft(w) \/ CheckReady(w)
    \/ WakeupReturns(w) \/ UseCard(w) \/ rtw_ps_deny_cancel(w)

-----------------------------------------------------------------------------
(* The end of a scan, the loss of the link, the passing of time.           *)

\* rtw_surveydone_event_callback, in the command thread, and its
\* rtw_indicate_scan_done.
SurveyDone ==
    /\ mlme = "survey" /\ ppc = "idle" /\ wd
    /\ mlme' = "idle" /\ ips_deny' = (ips_deny /\ bInSuspend)
    /\ UNCHANGED <<lock, ps_deny, owed, psVars, rfVars, hwVars, bInSuspend,
                   wd, pcVars>>

\* The same from scan_to_timer, at any moment.
rtw_scan_timeout_handler ==
    /\ ScanTimer /\ mlme = "survey"
    /\ spc \in {"idle", "wait", "deny", "leave"}
    /\ mlme' = "idle" /\ ips_deny' = (ips_deny /\ bInSuspend)
    /\ UNCHANGED <<lock, ps_deny, owed, psVars, rfVars, hwVars, bInSuspend,
                   wd, pcVars>>

\* ips_deny_time is set before the state is cleared.
rtw_indicate_disconnect ==
    /\ mlme = "linked"
    /\ mlme' = "idle" /\ ips_deny' = TRUE
    /\ UNCHANGED <<lock, ps_deny, owed, psVars, rfVars, hwVars, bInSuspend,
                   wd, pcVars>>

\* ips_deny_time is now in the past.  At least two seconds pass between a
\* wakeup and this, and rtw_ps_processor goes from its look at ps_deny to
\* its look at the time without waiting: it does not take that long.
DeferEnds ==
    /\ ips_deny \/ owed # {}
    /\ ppc \notin {"check", "time"}
    /\ ips_deny' = FALSE /\ owed' = {}
    /\ UNCHANGED <<lock, ps_deny, psVars, rfVars, hwVars, bInSuspend, mlme,
                   wd, pcVars>>

-----------------------------------------------------------------------------
(* rtw_suspend_common, rtw_suspend_normal, rtw_dev_unload; then            *)
(* rtw_resume_common and the part of _netdev_open it reaches.              *)

rtw_suspend_common ==
    /\ CanSuspend /\ spc = "idle" /\ \A w \in Callers : pc[w] = "idle"
    /\ bInSuspend' = TRUE /\ spc' = "wait"
    /\ UNCHANGED <<lock, denyVars, psVars, rfVars, hwVars, mlme, wd, ppc, pc>>

SuspendWait ==
    /\ spc = "wait" /\ ~bips_processing
    /\ spc' = IF ~bup \/ drv_stopped THEN "down" ELSE "deny"
    /\ UNCHANGED <<lock, denyVars, psVars, rfVars, hwVars, bInSuspend, mlme,
                   wd, ppc, pc>>

SuspendDeny ==
    /\ spc = "deny" /\ lock = None
    /\ ps_deny' = ps_deny \cup {Suspending}
    /\ spc' = "leave"
    /\ UNCHANGED <<lock, ips_deny, owed, psVars, rfVars, hwVars, bInSuspend,
                   mlme, wd, ppc, pc>>

\* LeaveAllPowerSaveModeDirect, which does nothing for IPS, and
\* rtw_ps_deny_cancel.  A watchdog command may still be queued.
SuspendLeave ==
    /\ spc = "leave" /\ lock = None
    /\ ps_deny' = ps_deny \ {Suspending}
    /\ spc' = "assoc"
    /\ UNCHANGED <<lock, ips_deny, owed, psVars, rfVars, hwVars, bInSuspend,
                   mlme, wd, ppc, pc>>

\* rtw_suspend_free_assoc_resource.
SuspendAssoc ==
    /\ spc = "assoc"
    /\ mlme' = "idle" /\ ips_deny' = (ips_deny \/ mlme = "linked")
    /\ spc' = "unload"
    /\ UNCHANGED <<lock, ps_deny, owed, psVars, rfVars, hwVars, bInSuspend,
                   wd, ppc, pc>>

rtw_dev_unload ==
    /\ spc = "unload"
    /\ IF bup
         THEN drv_stopped' = TRUE /\ spc' = "stop"
         ELSE UNCHANGED drv_stopped /\ spc' = "down"
    /\ UNCHANGED <<lock, denyVars, psVars, rfVars, hw_init_completed, bup,
                   bInSuspend, mlme, wd, ppc, pc>>

rtw_stop_drv_threads_NoWait ==
    /\ spc = "stop"
    /\ wd' = FALSE /\ spc' = "deinit"
    /\ UNCHANGED <<lock, denyVars, psVars, rfVars, hwVars, bInSuspend, mlme,
                   ppc, pc>>

\* Waits until the command thread has left its loop.
rtw_stop_drv_threads ==
    /\ spc = "stop" /\ ppc = "idle"
    /\ wd' = FALSE /\ spc' = "deinit"
    /\ UNCHANGED <<lock, denyVars, psVars, rfVars, hwVars, bInSuspend, mlme,
                   ppc, pc>>

\* rtw_hal_deinit has returned.
UnloadDeinit ==
    /\ spc = "deinit"
    /\ hw_init_completed' \in {FALSE, CanFail /\ hw_init_completed}
    /\ bup' = FALSE /\ spc' = "down"
    /\ UNCHANGED <<lock, denyVars, psVars, rfVars, drv_stopped, bInSuspend,
                   mlme, wd, ppc, pc>>

rtw_resume_common ==
    /\ spc = "down"
    /\ mlme' = IF mlme = "survey" THEN "idle" ELSE mlme
    /\ IF bup
         THEN spc' = "resumed" /\ UNCHANGED drv_stopped
         ELSE spc' = "init" /\ drv_stopped' = FALSE
    /\ UNCHANGED <<lock, denyVars, psVars, rfVars, hw_init_completed, bup,
                   bInSuspend, wd, ppc, pc>>

\* rtw_hal_init has returned.  It starts the command thread; the timer is
\* armed afterwards, and only when it succeeded.
ResumeInit ==
    /\ spc = "init"
    /\ \/ /\ hw_init_completed' = TRUE /\ bup' = TRUE /\ wd' = TRUE
          /\ bips_processing' = FALSE
       \/ /\ CanFail /\ hw_init_completed' = FALSE /\ bup' = FALSE
          /\ UNCHANGED <<wd, bips_processing>>
    /\ spc' = "resumed"
    /\ UNCHANGED <<lock, denyVars, ps_processing, bpower_saving, rfVars,
                   drv_stopped, bInSuspend, mlme, ppc, pc>>

Resumed ==
    /\ spc = "resumed"
    /\ bInSuspend' = FALSE /\ spc' = "idle"
    /\ UNCHANGED <<lock, denyVars, psVars, rfVars, hwVars, mlme, wd, ppc, pc>>

SuspendResume ==
    \/ SuspendWait \/ SuspendDeny \/ SuspendLeave \/ SuspendAssoc
    \/ rtw_dev_unload \/ rtw_stop_drv_threads \/ UnloadDeinit
    \/ rtw_resume_common \/ ResumeInit \/ Resumed

Next ==
    \/ Processor
    \/ \E w \in Callers : rtw_ps_deny(w) \/ Caller(w)
    \/ SurveyDone \/ rtw_scan_timeout_handler \/ rtw_indicate_disconnect
    \/ DeferEnds
    \/ rtw_suspend_common \/ SuspendResume

Spec == Init /\ [][Next]_vars

-----------------------------------------------------------------------------
(* Safety.                                                                 *)

TypeOK ==
    /\ lock \in Callers \cup {Cmd, None}
    /\ ps_deny \subseteq
           ({Reason[w] : w \in Callers} \cup {Suspending}) \ {None}
    /\ owed \subseteq Callers
    /\ \A b \in {ips_deny, ps_processing, bips_processing, bpower_saving,
                hw_init_completed, bup, drv_stopped, bInSuspend, wd} :
           b \in BOOLEAN
    /\ {rf_pwrstate, change_rfpwrstate} \subseteq {"on", "off"}
    /\ mlme \in {"idle", "survey", "linked"}
    /\ ppc \in ProcSteps /\ pc \in [Callers -> CallSteps]
    /\ spc \in SuspendSteps

\* Who is inside rtw_hal_init or rtw_hal_deinit.
InHal ==
    {w \in Callers : pc[w] = "up"}
      \cup {c \in {Cmd} : ppc = "down"}
      \cup {c \in {Suspending} : spc \in {"deinit", "init"}}

\* The power sequences of the card never overlap: the watchdog's power-down,
\* a wakeup's power-up and the unloading and loading of suspend and resume
\* exclude one another, although suspend does not take pwrpriv->lock.
HalAlone == \A a, b \in InHal : a = b

\* A caller that asked for the card and was told it has it finds it powered
\* for as long as it has not cancelled its denial: rtw_ps_processor, which
\* looks at ps_deny once and powers down much later, never does so under it.
AccessUp == \A w \in Callers : pc[w] = "using" => hw_init_completed

\* A power-up that fails can be tried again: with nobody in a power
\* transition, an open interface whose card is not initialised is marked
\* rf_off, the mark that makes the next rtw_pwr_wakeup call ips_leave.
Retryable ==
    lock = None /\ spc = "idle" /\ bup /\ ~hw_init_completed
        => rf_pwrstate = "off"

\* rtw_suspend_normal does not find the card in IPS: what its message
\* "### ERROR #### driver in IPS" takes for granted.
SuspendAwake == spc = "unload" => rf_pwrstate = "on"

\* ips_deffer_ms: no power-down begins before the time that a successful
\* rtw_pwr_wakeup was given is over.
DeferKept == [][ppc # "down" /\ ppc' = "down" => owed = {}]_vars

\* rtw_ps_deny_cancel finds its reason set: what its message "Reason %d had
\* been canceled before" takes for granted.
CancelFinds ==
    \A w \in Callers :
        pc[w] = "cancel" /\ Reason[w] # None => Reason[w] \in ps_deny

-----------------------------------------------------------------------------
(* Liveness.  Threads run on, and the lock is a mutex handed to whoever    *)
(* waits for it.  Time passes, and frames waiting to be sent are sent.     *)

Fairness ==
    /\ SF_vars(Processor)
    /\ SF_vars(ppc = "state" /\ Processor /\ ppc' = "enter")
    /\ SF_vars(DeferEnds)
    /\ \A w \in Callers : SF_vars(Caller(w))
    /\ SF_vars(SuspendResume)

FairSpec == Spec /\ Fairness

\* Every call for the card comes to an end, with the card or without.
CallReturns == \A w \in Callers : pc[w] # "idle" ~> pc[w] = "idle"

\* Suspend comes to an end: its unbounded loop on bips_processing ends, and
\* the command thread it waits for does stop.
SuspendReturns == spc = "wait" ~> spc = "down"

\* If in the end nobody needs the card, it is put into IPS: no denial, mark
\* or deferral is left behind by the calls that are over, failed ones too.
\* Not after a suspend, which may leave the marks of IPS behind.
IdleSleeps ==
    [](spc = "idle") /\ <>[](mlme = "idle" /\ \A w \in Callers : pc[w] = "idle")
        => <>[](rf_pwrstate = "off")

=============================================================================
