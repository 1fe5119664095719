------------------------------ MODULE PwrCtrl ------------------------------
(***************************************************************************)
(* Leisure power save with the 32k clock (LPS_LCLK): who may tell the      *)
(* firmware to sleep, and how the driver wakes it before it does I/O.      *)
(* Modelled from core/rtw_pwrctrl.c for the USB build, which learns the    *)
(* firmware's answer by polling (CONFIG_DETECT_CPWM_BY_POLLING, without    *)
(* CONFIG_LPS_RPWM_TIMER and without a CPWM interrupt).                    *)
(*                                                                         *)
(* A member of Tasks is a context with an alive tag of its own (the        *)
(* command thread with CMD_ALIVE, BT coexistence with BTCOEX_ALIVE); a     *)
(* member of Users is a context that leaves power save directly before it  *)
(* touches registers (rtw_ps_deny, LeaveAllPowerSaveModeDirect).  What     *)
(* happens under pwrctrl->lock without sleeping is one step; the CPWM      *)
(* poll, and every read of shared state without the lock, is its own step. *)
(***************************************************************************)
EXTENDS Naturals

CONSTANTS
    Tasks,     \* contexts with an alive tag
    Cmd,       \* the command thread, a member of Tasks
    Users,     \* contexts that leave power save directly
    MaxRetry,  \* LPS_RPWM_RETRY_CNT
    MaxLate    \* bound: tries of the CPWM poll that time out

ASSUME TasksAssumption ==
    /\ Cmd \in Tasks
    /\ Tasks \cap Users = {}
    /\ "free" \notin Tasks \cup Users

ASSUME BoundsAssumption == MaxRetry \in Nat /\ MaxLate \in Nat

VARIABLES
    pwrlock,    \* holder of pwrctrl->lock across a poll, or "free"
    rpwm,       \* pwrctrl->rpwm, the state last requested
    cpwm,       \* pwrctrl->cpwm, the state the driver believes in
    pwr_mode,   \* pwrctrl->pwr_mode: PS_MODE_ACTIVE or a power save mode
    bFwCurrentInPSMode,
    alives,     \* pwrctrl->alives
    lps_level,  \* pwrctrl->lps_level: LPS_NORMAL or LPS_LCLK
    ps_deny,    \* pwrctrl->ps_deny
    dev,        \* running, bDriverStopped or bSurpriseRemoved
    at,         \* where each context is
    cont,       \* where the context that polls continues
    res,        \* the register call's res
    cpwm_orig,  \* rtw_cpwm_polling's cpwm_orig: its toggle bit
    retry,      \* pwrctrl->rpwm_retry
    fw_req,     \* firmware: the unread value of the RPWM register
    fw_awake,   \* firmware: its clock runs
    fw_cpwm,    \* firmware: the toggle bit of the CPWM register
    lates,      \* history: tries of the poll that timed out
    failed      \* history: a whole poll failed

lpsVars   == <<pwr_mode, bFwCurrentInPSMode, lps_level>>
rpwmVars  == <<rpwm, cpwm, cpwm_orig, retry, fw_req, cont>>
aliveVars == <<alives, ps_deny>>
fwVars    == <<fw_awake, fw_cpwm>>
lateVars  == <<lates, failed>>
vars == <<pwrlock, lpsVars, rpwmVars, aliveVars, dev, at, res, fwVars,
          lateVars>>

S0 == 0
S2 == 2
S4 == 4

Ctx == Tasks \cup Users
NoReq == [pslv |-> S4, ack |-> FALSE, new |-> FALSE]

-----------------------------------------------------------------------------
(* rtw_set_rpwm(pslv).                                                     *)

\* The first return: nothing to do, or no 32k clock in use.
RpwmSkip(pslv) ==
    \/ rpwm = pslv
    \/ rpwm >= S2 /\ pslv >= S2
    \/ lps_level = "NORMAL"

RpwmSent(pslv) ==
    /\ ~RpwmSkip(pslv)
    /\ dev # "removed"
    /\ dev = "stopped" => pslv >= S2

\* Only from S0 or S1 to S2 and higher needs an ACK, which is polled for.
NeedsPoll(pslv) == RpwmSent(pslv) /\ cpwm < S2 /\ pslv >= S2

rtw_set_rpwm(pslv) ==
    /\ rpwm' = IF RpwmSent(pslv) THEN pslv ELSE rpwm
    /\ cpwm' = IF ~RpwmSkip(pslv) /\ dev = "removed" THEN S4
               ELSE IF RpwmSent(pslv) /\ ~NeedsPoll(pslv) THEN pslv
               ELSE cpwm
    /\ fw_req' = IF RpwmSent(pslv)
                    THEN [pslv |-> pslv, ack |-> NeedsPoll(pslv), new |-> TRUE]
                    ELSE fw_req
    /\ cpwm_orig' = IF NeedsPoll(pslv) THEN fw_cpwm ELSE cpwm_orig
    /\ retry' = IF NeedsPoll(pslv) THEN 0 ELSE retry

\* Go to l after rtw_set_rpwm(pslv), by way of the poll if there is one,
\* which keeps the lock.
Then(x, pslv, l) ==
    /\ at' = [at EXCEPT ![x] = IF NeedsPoll(pslv) THEN "poll" ELSE l]
    /\ cont' = IF NeedsPoll(pslv) THEN l ELSE cont
    /\ pwrlock' = IF NeedsPoll(pslv) \/ l = "left" THEN x ELSE "free"

\* The poll is over, and nobody looks at cpwm_orig and retry any more: they
\* go back to their initial values.  Only rtw_set_ps_mode still needs the
\* lock.
Polled(x) ==
    /\ at' = [at EXCEPT ![x] = cont]
    /\ cont' = "out"
    /\ cpwm_orig' = FALSE
    /\ retry' = 0
    /\ pwrlock' = IF cont = "left" THEN x ELSE "free"

-----------------------------------------------------------------------------
(* rtw_cpwm_polling, under the lock.                                       *)

\* Variant: the answer is seen and not recorded.
PollAnsweredForgets(x) ==
    /\ at[x] = "poll"
    /\ fw_cpwm # cpwm_orig \/ dev = "removed"
    /\ Polled(x)
    /\ UNCHANGED <<lpsVars, rpwm, cpwm, fw_req, aliveVars, dev, res, fwVars,
                   lateVars>>

\* The toggle bit changed: the firmware has answered.  Nothing is known of
\* what a read of a device that is gone returns.
PollAnswered(x) ==
    /\ at[x] = "poll"
    /\ fw_cpwm # cpwm_orig \/ dev = "removed"
    /\ cpwm' = S4
    /\ Polled(x)
    /\ UNCHANGED <<lpsVars, rpwm, fw_req, aliveVars, dev, res, fwVars, lateVars>>

\* The firmware has read every request and its answers cancel out: it was
\* late for one, which was sent again, and flipped the bit twice.
Cancelled == ~fw_req.new /\ fw_cpwm = cpwm_orig

\* Variant: one retry too many.
PollTimeoutOffByOne(x) ==
    /\ at[x] = "poll"
    /\ \/ dev = "ok" /\ ~Cancelled /\ lates < MaxLate /\ lates' = lates + 1
       \/ (dev # "ok" \/ Cancelled) /\ lates' = lates
    /\ fw_req' = [pslv |-> rpwm, ack |-> TRUE, new |-> TRUE]
    /\ \/ /\ retry <= MaxRetry
          /\ retry' = retry + 1
          /\ UNCHANGED <<at, cont, pwrlock, cpwm_orig, failed>>
       \/ /\ retry > MaxRetry
          /\ Polled(x)
          /\ failed' = TRUE
    /\ UNCHANGED <<lpsVars, rpwm, cpwm, aliveVars, dev, res, fwVars>>

\* LPS_CPWM_TIMEOUT_MS passed after a read without a change, or the device
\* stopped: the request is sent again, and the poll repeated or given up.
PollTimeout(x) ==
    /\ at[x] = "poll"
    /\ \/ dev = "ok" /\ ~Cancelled /\ lates < MaxLate /\ lates' = lates + 1
       \/ (dev # "ok" \/ Cancelled) /\ lates' = lates
    /\ fw_req' = [pslv |-> rpwm, ack |-> TRUE, new |-> TRUE]
    /\ \/ /\ retry < MaxRetry /\ dev = "ok"
          /\ retry' = retry + 1
          /\ UNCHANGED <<at, cont, pwrlock, cpwm_orig, failed>>
       \/ /\ retry >= MaxRetry \/ dev # "ok"
          /\ Polled(x)
          /\ failed' = TRUE
    /\ UNCHANGED <<lpsVars, rpwm, cpwm, aliveVars, dev, res, fwVars>>

-----------------------------------------------------------------------------
(* Alive tags: rtw_register_cmd_alive and rtw_register_task_alive.         *)

\* A command, or BT coexistence, needs the hardware.
Want(x) ==
    /\ at[x] \in {"out", "failed"}
    /\ at' = [at EXCEPT ![x] = "register"]
    /\ UNCHANGED <<pwrlock, lpsVars, rpwmVars, aliveVars, dev, res, fwVars,
                   lateVars>>

\* The critical section.
Register(x) ==
    /\ at[x] = "register"
    /\ pwrlock = "free"
    /\ alives' = alives \cup {x}
    /\ LET asleep == bFwCurrentInPSMode /\ cpwm < S2
       IN /\ res' = [res EXCEPT ![x] = ~asleep]
          /\ \/ /\ asleep /\ rpwm < S2
                /\ rtw_set_rpwm(S2)
                /\ Then(x, S2, "registered")
             \/ /\ ~(asleep /\ rpwm < S2)
                /\ at' = [at EXCEPT ![x] = "registered"]
                /\ UNCHANGED <<rpwmVars, pwrlock>>
    /\ UNCHANGED <<lpsVars, ps_deny, dev, fwVars, lateVars>>

\* After the lock is released, a failure is revised by a look at cpwm, and
\* res is forgotten.
Registered(x) ==
    /\ at[x] = "registered"
    /\ at' = [at EXCEPT ![x] = IF res[x] \/ cpwm >= S2 THEN "io" ELSE "failed"]
    /\ res' = [res EXCEPT ![x] = FALSE]
    /\ UNCHANGED <<pwrlock, lpsVars, rpwmVars, aliveVars, dev, fwVars, lateVars>>

\* halbtcoutsrc_LeaveLowPower goes on without the grant after its timeout.
GiveUp(x) ==
    /\ x # Cmd
    /\ at[x] = "failed"
    /\ at' = [at EXCEPT ![x] = "blind"]
    /\ UNCHANGED <<pwrlock, lpsVars, rpwmVars, aliveVars, dev, res, fwVars,
                   lateVars>>

\* Variant: any task that is done sends the firmware to sleep.
UnregisterAnyway(x, pslv) ==
    /\ at[x] \in {"io", "blind"} \/ (x = Cmd /\ at[x] = "out")
    /\ pwrlock = "free"
    /\ alives' = alives \ {x}
    /\ at' = [at EXCEPT ![x] = "out"]
    /\ \/ /\ pwr_mode # "ACTIVE" /\ bFwCurrentInPSMode /\ cpwm > pslv
          /\ rtw_set_rpwm(pslv) /\ UNCHANGED cont
       \/ /\ ~(pwr_mode # "ACTIVE" /\ bFwCurrentInPSMode /\ cpwm > pslv)
          /\ UNCHANGED rpwmVars
    /\ UNCHANGED <<pwrlock, lpsVars, ps_deny, dev, res, fwVars, lateVars>>

\* rtw_unregister_cmd_alive (also for a no_io command and on the way out)
\* and rtw_unregister_task_alive.  pslv is S2 while BT coexistence or P2P
\* power save forbids the 32k clock.
Unregister(x, pslv) ==
    /\ at[x] \in {"io", "blind"} \/ (x = Cmd /\ at[x] = "out")
    /\ pwrlock = "free"
    /\ alives' = alives \ {x}
    /\ at' = [at EXCEPT ![x] = "out"]
    /\ LET down == /\ pwr_mode # "ACTIVE" /\ bFwCurrentInPSMode
                   /\ cpwm > pslv
                   /\ pslv >= S2 \/ alives' = {}
       IN \/ down /\ rtw_set_rpwm(pslv) /\ UNCHANGED cont
          \/ ~down /\ UNCHANGED rpwmVars
    /\ UNCHANGED <<pwrlock, lpsVars, ps_deny, dev, res, fwVars, lateVars>>

-----------------------------------------------------------------------------
(* Entering and leaving LPS: rtw_set_ps_mode.                              *)

\* LPS_Enter, from a handler of the command thread: its checks.
EnterCheck ==
    /\ at[Cmd] = "io"
    /\ pwr_mode = "ACTIVE"
    /\ at' = [at EXCEPT ![Cmd] = "enter"]
    /\ UNCHANGED <<pwrlock, lpsVars, rpwmVars, aliveVars, dev, res, fwVars,
                   lateVars>>

\* rtw_set_ps_mode(power_mgnt): PS_RDY_CHECK under the lock, then the H2C of
\* rtw_exec_lps and the new power state.
Enter(rdy, bt) ==
    /\ at[Cmd] = "enter"
    /\ pwrlock = "free"
    /\ \/ /\ rdy
          /\ bFwCurrentInPSMode' = TRUE
          /\ pwr_mode' = "PS"
          /\ LET pslv == IF alives = {} /\ ~bt THEN S0 ELSE S2
             IN rtw_set_rpwm(pslv) /\ Then(Cmd, pslv, "io")
       \/ /\ ~rdy
          /\ at' = [at EXCEPT ![Cmd] = "io"]
          /\ UNCHANGED <<bFwCurrentInPSMode, pwr_mode, rpwmVars, pwrlock>>
    /\ UNCHANGED <<lps_level, aliveVars, dev, res, fwVars, lateVars>>

\* Where a context continues when it has left LPS.
Back(x) == IF x = Cmd THEN "io" ELSE "access"

\* Variant: a user waits until the command thread has left LPS.
LeaveCheckWaits(x) ==
    /\ at[x] = IF x = Cmd THEN "io" ELSE "leave"
    /\ x \in Users => pwr_mode = "ACTIVE"
    /\ at' = [at EXCEPT ![x] = IF pwr_mode = "ACTIVE" THEN Back(x)
                                                      ELSE "set_active"]
    /\ UNCHANGED <<pwrlock, lpsVars, rpwmVars, aliveVars, dev, res, fwVars,
                   lateVars>>

\* LPS_Leave, and rtw_set_ps_mode's look at pwr_mode before it locks:
\* nothing to do unless in power save.
LeaveCheck(x) ==
    /\ at[x] = IF x = Cmd THEN "io" ELSE "leave"
    /\ at' = [at EXCEPT ![x] = IF pwr_mode = "ACTIVE" THEN Back(x)
                                                      ELSE "set_active"]
    /\ UNCHANGED <<pwrlock, lpsVars, rpwmVars, aliveVars, dev, res, fwVars,
                   lateVars>>

\* rtw_set_ps_mode(PS_MODE_ACTIVE); opportunistic P2P power save or BT
\* coexistence may forbid it.
SetActive(x, ok) ==
    /\ at[x] = "set_active"
    /\ pwrlock = "free"
    /\ \/ /\ ok
          /\ pwr_mode' = "ACTIVE"
          /\ rtw_set_rpwm(S4)
          /\ Then(x, S4, "left")
       \/ /\ ~ok
          /\ at' = [at EXCEPT ![x] = Back(x)]
          /\ UNCHANGED <<pwr_mode, rpwmVars, pwrlock>>
    /\ UNCHANGED <<bFwCurrentInPSMode, lps_level, aliveVars, dev, res, fwVars,
                   lateVars>>

\* After the poll: rtw_exec_lps(PS_MODE_ACTIVE), and the lock is released.
Left(x) ==
    /\ at[x] = "left"
    /\ bFwCurrentInPSMode' = FALSE
    /\ pwrlock' = "free"
    /\ at' = [at EXCEPT ![x] = Back(x)]
    /\ UNCHANGED <<pwr_mode, lps_level, rpwmVars, aliveVars, dev, res, fwVars,
                   lateVars>>

-----------------------------------------------------------------------------
(* Users: rtw_ps_deny, LeaveAllPowerSaveModeDirect, access, cancel.        *)

Deny(u) ==
    /\ at[u] = "out"
    /\ pwrlock = "free"
    /\ ps_deny' = ps_deny \cup {u}
    /\ at' = [at EXCEPT ![u] = "direct"]
    /\ UNCHANGED <<pwrlock, lpsVars, rpwmVars, alives, dev, res, fwVars,
                   lateVars>>

\* Skipped when the device is gone or the driver has already left LPS.
Direct(u) ==
    /\ at[u] = "direct"
    /\ at' = [at EXCEPT ![u] = IF dev = "removed" \/ pwr_mode = "ACTIVE"
                                  THEN "access" ELSE "wake"]
    /\ UNCHANGED <<pwrlock, lpsVars, rpwmVars, aliveVars, dev, res, fwVars,
                   lateVars>>

\* rtw_set_rpwm(PS_STATE_S4) under the lock, then LPS_CTRL_LEAVE directly.
DirectWake(u) ==
    /\ at[u] = "wake"
    /\ pwrlock = "free"
    /\ rtw_set_rpwm(S4)
    /\ Then(u, S4, "leave")
    /\ UNCHANGED <<lpsVars, aliveVars, dev, res, fwVars, lateVars>>

Cancel(u) ==
    /\ at[u] = "access"
    /\ pwrlock = "free"
    /\ ps_deny' = ps_deny \ {u}
    /\ at' = [at EXCEPT ![u] = "out"]
    /\ UNCHANGED <<pwrlock, lpsVars, rpwmVars, alives, dev, res, fwVars,
                   lateVars>>

\* LPS_CTRL_LEAVE_SET_OPTION in the command thread: after LPS_Leave, the
\* level; or rtw_pm_set_lps_level itself, when the command was not answered
\* in time because the thread is busy or cannot wake the firmware.
SetLevel(l) ==
    /\ at[Cmd] \in {"io", "failed"}
    /\ lps_level # l
    /\ lps_level' = l
    /\ UNCHANGED <<pwrlock, pwr_mode, bFwCurrentInPSMode, rpwmVars, aliveVars,
                   dev, at, res, fwVars, lateVars>>

-----------------------------------------------------------------------------
(* The firmware and the device.                                            *)

\* The firmware reads the RPWM register: it sleeps or wakes, and flips the
\* toggle bit of CPWM when an ACK was asked for.
FwRead ==
    /\ fw_req.new
    /\ dev # "removed"
    /\ fw_req' = [pslv |-> fw_req.pslv, ack |-> fw_req.ack, new |-> FALSE]
    /\ fw_awake' = (fw_req.pslv >= S2)
    /\ fw_cpwm' = IF fw_req.ack THEN ~fw_cpwm ELSE fw_cpwm
    /\ UNCHANGED <<pwrlock, lpsVars, rpwm, cpwm, cpwm_orig, retry, cont,
                   aliveVars, dev, at, res, lateVars>>

\* rtw_set_drv_stopped, rtw_set_surprise_removed.
DevStop ==
    /\ dev # "removed"
    /\ \/ dev = "ok" /\ dev' = "stopped"
       \/ dev' = "removed"
    /\ UNCHANGED <<pwrlock, lpsVars, rpwmVars, aliveVars, at, res, fwVars,
                   lateVars>>

-----------------------------------------------------------------------------
\* rtw_init_pwrctrl_priv, and a firmware that has just been downloaded.
Init ==
    /\ pwrlock = "free"
    /\ rpwm = S0
    /\ cpwm = S4
    /\ pwr_mode = "ACTIVE"
    /\ bFwCurrentInPSMode = FALSE
    /\ alives = {}
    /\ lps_level \in {"NORMAL", "LCLK"}
    /\ ps_deny = {}
    /\ dev = "ok"
    /\ at = [x \in Ctx |-> "out"]
    /\ cont = "out"
    /\ res = [x \in Tasks |-> FALSE]
    /\ cpwm_orig = FALSE
    /\ retry = 0
    /\ fw_req = NoReq
    /\ fw_awake = TRUE
    /\ fw_cpwm = FALSE
    /\ lates = 0
    /\ failed = FALSE

PollStep(x) == PollAnswered(x) \/ PollTimeout(x)

TaskStep(x) == Register(x) \/ Registered(x) \/ GiveUp(x)

LpsStep ==
    \/ EnterCheck
    \/ \E rdy, bt \in BOOLEAN : Enter(rdy, bt)
    \/ \E x \in {Cmd} \cup Users :
          LeaveCheck(x) \/ Left(x) \/ \E ok \in BOOLEAN : SetActive(x, ok)

UserStep(u) == Deny(u) \/ Direct(u) \/ DirectWake(u) \/ Cancel(u)

Next ==
    \/ \E x \in Tasks : Want(x) \/ TaskStep(x)
    \/ \E x \in Tasks, pslv \in {S0, S2} : Unregister(x, pslv)
    \/ \E x \in Ctx : PollStep(x)
    \/ LpsStep
    \/ \E u \in Users : UserStep(u)
    \/ \E l \in {"NORMAL", "LCLK"} : SetLevel(l)
    \/ FwRead
    \/ DevStop

Spec == Init /\ [][Next]_vars

-----------------------------------------------------------------------------
Places ==
    {"out", "poll", "register", "registered", "failed", "blind", "io", "enter",
     "set_active", "left", "direct", "wake", "leave", "access"}

\* Every variable holds a value its declaration allows.
TypeOK ==
    /\ pwrlock \in Ctx \cup {"free"}
    /\ rpwm \in {S0, S2, S4}
    /\ cpwm \in {S0, S2, S4}
    /\ pwr_mode \in {"ACTIVE", "PS"}
    /\ bFwCurrentInPSMode \in BOOLEAN
    /\ alives \subseteq Tasks
    /\ lps_level \in {"NORMAL", "LCLK"}
    /\ ps_deny \subseteq Users
    /\ dev \in {"ok", "stopped", "removed"}
    /\ at \in [Ctx -> Places]
    /\ cont \in {"out", "registered", "io", "left", "leave"}
    /\ res \in [Tasks -> BOOLEAN]
    /\ cpwm_orig \in BOOLEAN
    /\ retry \in 0..MaxRetry
    /\ fw_req \in [pslv : {S0, S2, S4}, ack : BOOLEAN, new : BOOLEAN]
    /\ fw_awake \in BOOLEAN
    /\ fw_cpwm \in BOOLEAN
    /\ lates \in 0..MaxLate
    /\ failed \in BOOLEAN

\* Register access is safe: while a task whose rtw_register_*_alive call
\* returned _SUCCESS does its I/O, the firmware is awake and not about to
\* read a request to sleep, whoever enters or leaves LPS meanwhile, as long
\* as the device is there and no CPWM poll has failed.
IoAwake ==
    \A x \in Tasks :
        at[x] = "io" /\ dev # "removed" /\ ~failed
            => fw_awake /\ fw_req.pslv >= S2

\* "deny all kinds of power save" (include/rtw_pwrctrl.h, ps_deny): LPS is
\* not entered while some context has set a ps_deny bit.
DenyHonoured ==
    [][pwr_mode = "ACTIVE" /\ pwr_mode' = "PS" => ps_deny = {}]_vars

-----------------------------------------------------------------------------
(* The command thread is never idle for long (its 2 s dynamic check), the  *)
(* firmware reads what is written, and a mutex is given to every context   *)
(* that waits for it.  Nobody is made to enter or to leave power save.     *)
Fairness ==
    /\ WF_vars(FwRead)
    /\ \A x \in Ctx : WF_vars(PollStep(x))
    /\ WF_vars(Want(Cmd))
    /\ SF_vars(Register(Cmd))
    /\ WF_vars(Registered(Cmd))
    /\ \A x \in {Cmd} \cup Users :
          WF_vars(Left(x)) /\ SF_vars(\E ok \in BOOLEAN : SetActive(x, ok))
    /\ \A u \in Users :
          WF_vars(Direct(u)) /\ SF_vars(DirectWake(u)) /\ WF_vars(LeaveCheck(u))

FairSpec == Spec /\ Fairness

\* A command thread that registers (rtw_register_cmd_alive) does, sooner or
\* later, find the firmware awake, unless a whole poll fails: neither the
\* users that leave LPS directly nor late answers keep it from that.
RegisterRaises ==
    at[Cmd] = "register" ~> cpwm >= S2 \/ dev # "ok" \/ failed

\* "the sub-routine will raise the cpwm to be greater than or equal to S2"
\* (the comment of rtw_register_cmd_alive), whatever polls fail.
AlwaysRaises ==
    at[Cmd] = "register" ~> cpwm >= S2 \/ dev # "ok"

\* LeaveAllPowerSaveModeDirect returns, however often LPS is entered again
\* and whatever the poll's outcome.
DirectReturns ==
    \A u \in Users : at[u] = "direct" ~> at[u] = "access"
=============================================================================
