--------------------------- MODULE PwrCtrl_proofs ---------------------------
(***************************************************************************)
(* Proofs about PwrCtrl, for any sets of tasks and users and any bounds on *)
(* retries and late answers: TypeOK, and that I/O finds the firmware awake *)
(* (IoAwake) as long as the device is there and no whole poll failed.      *)
(***************************************************************************)
EXTENDS PwrCtrl, TLAPS

\* The firmware is awake and has no request to sleep before it.
Awake == fw_awake /\ fw_req.pslv >= S2

\* pwrctrl->lock is held across a sleep by the context that polls, and by
\* rtw_set_ps_mode between its poll and its H2C.
LockInv == \A x \in Ctx : at[x] \in {"poll", "left"} <=> pwrlock = x

\* A task keeps its alive tag from the registration to the unregistration.
AliveInv == \A x \in Tasks : at[x] \notin {"out", "register"} => x \in alives

\* The firmware does what it has read, and rpwm is what it was sent; only
\* before the first request is rpwm S0 (rtw_init_pwrctrl_priv) with the
\* firmware awake.
ReqInv ==
    /\ ~fw_req.new => (fw_awake <=> fw_req.pslv >= S2)
    /\ \/ rpwm = fw_req.pslv
       \/ Awake /\ rpwm = S0 /\ cpwm = S4

\* What the driver believes is so: once cpwm says S2, or the 32k clock is not
\* in use, or LPS has been left, the firmware is awake; and a request for S2
\* or more is believed as soon as the poll for its ACK is over.
BeliefInv ==
    /\ cpwm >= S2 => Awake
    /\ ~bFwCurrentInPSMode => Awake
    /\ lps_level = "NORMAL" => Awake
    /\ rpwm >= S2 => cpwm >= S2 \/ \E x \in Ctx : at[x] = "poll"

\* A poll waits for the ACK of a request to wake: if the toggle bit differs
\* from cpwm_orig, the firmware has read that request.
PollInv ==
    \A x \in Ctx : at[x] = "poll" =>
        /\ rpwm >= S2 /\ fw_req.pslv = rpwm
        /\ fw_cpwm # cpwm_orig => fw_awake

\* A context that goes on after it raised the power state, and every task
\* whose registration succeeded, finds the firmware awake; none fails.
TaskInv ==
    /\ \A x \in Ctx : at[x] = "left" => Awake
    /\ \A x \in Tasks :
          /\ at[x] \notin {"failed", "blind"}
          /\ at[x] \in {"registered", "io", "enter", "set_active"} => Awake
          /\ at[x] = "registered" => res[x] \/ cpwm >= S2

\* No poll failed and the device is there.
Sound == ~failed /\ dev # "removed"

IInv ==
    /\ TypeOK /\ LockInv /\ AliveInv /\ ReqInv
    /\ Sound => BeliefInv /\ PollInv /\ TaskInv

-----------------------------------------------------------------------------
(* rtw_set_rpwm: what it leaves behind.                                    *)

\* rtw_set_rpwm keeps the types of what it writes.
LEMMA RpwmType ==
    ASSUME TypeOK, NEW pslv \in {S0, S2, S4}, rtw_set_rpwm(pslv)
    PROVE  /\ rpwm' \in {S0, S2, S4}
           /\ cpwm' \in {S0, S2, S4}
           /\ fw_req' \in [pslv : {S0, S2, S4}, ack : BOOLEAN, new : BOOLEAN]
           /\ cpwm_orig' \in BOOLEAN
           /\ retry' \in 0..MaxRetry
<1>1. NeedsPoll(pslv) \in BOOLEAN
  BY Zenon DEF NeedsPoll, RpwmSent
<1>2. 0 \in 0..MaxRetry
  BY BoundsAssumption
<1> QED
  BY <1>1, <1>2, Zenon DEF TypeOK, rtw_set_rpwm

\* A step of the model is a step of one context, of the firmware or of the
\* device.
LEMMA NextCases ==
    ASSUME Next
    PROVE  \/ \E x \in Tasks : \/ Want(x) \/ Register(x) \/ Registered(x)
                               \/ GiveUp(x)
           \/ \E x \in Tasks, pslv \in {S0, S2} : Unregister(x, pslv)
           \/ \E x \in Ctx : PollAnswered(x) \/ PollTimeout(x)
           \/ EnterCheck
           \/ \E rdy, bt \in BOOLEAN : Enter(rdy, bt)
           \/ \E x \in {Cmd} \cup Users :
                 \/ LeaveCheck(x) \/ Left(x)
                 \/ \E ok \in BOOLEAN : SetActive(x, ok)
           \/ \E u \in Users : Deny(u) \/ Direct(u) \/ DirectWake(u) \/
              Cancel(u)
           \/ \E l \in {"NORMAL", "LCLK"} : SetLevel(l)
           \/ FwRead
           \/ DevStop
BY Zenon DEF Next, TaskStep, PollStep, LpsStep, UserStep

\* The command thread is a task, and every task and user is a context.
LEMMA Contexts ==
    /\ Cmd \in Tasks /\ Cmd \in Ctx
    /\ \A x \in Tasks : x \in Ctx /\ x \notin Users /\ x # "free"
    /\ \A u \in Users : u \in Ctx /\ u # Cmd /\ u # "free"
    /\ \A x \in {Cmd} \cup Users : x \in Ctx
    /\ "free" \notin Ctx
BY TasksAssumption, Zenon DEF Ctx

-----------------------------------------------------------------------------
(* TypeOK.                                                                 *)

\* Every step keeps every variable in its type.
LEMMA TypeStep ==
    ASSUME TypeOK, [Next]_vars
    PROVE  TypeOK'
<1>a. ASSUME NEW x \in Ctx, NEW l \in Places
      PROVE  [at EXCEPT ![x] = l] \in [Ctx -> Places]
  BY <1>a, Zenon DEF TypeOK
<1>1. ASSUME NEW x \in Tasks, Want(x) PROVE TypeOK'
  BY <1>1, Contexts
     DEF TypeOK, Want, Places, lpsVars, rpwmVars, aliveVars, fwVars, lateVars
<1>2. ASSUME NEW x \in Tasks, Register(x) PROVE TypeOK'
  <2>1. x \in Ctx
    BY Contexts, Zenon
  <2>2. /\ alives' \subseteq Tasks
        /\ res' \in [Tasks -> BOOLEAN]
        /\ at' \in [Ctx -> Places]
        /\ cont' \in {"out", "registered", "io", "left", "leave"}
        /\ pwrlock' \in Ctx \cup {"free"}
    BY <1>2, <2>1, <1>a, Zenon DEF TypeOK, Register, Then, Places, rpwmVars
  <2>3. CASE bFwCurrentInPSMode /\ cpwm < S2 /\ rpwm < S2
    <3>1. rtw_set_rpwm(S2)
      BY <1>2, <2>3, Zenon DEF Register
    <3> QED BY <1>2, <2>2, <3>1, RpwmType
       DEF TypeOK, Register, lpsVars, fwVars, lateVars
  <2>4. CASE ~(bFwCurrentInPSMode /\ cpwm < S2 /\ rpwm < S2)
    <3>1. UNCHANGED rpwmVars
      BY <1>2, <2>4, Zenon DEF Register
    <3> QED BY <1>2, <2>2, <3>1
       DEF TypeOK, Register, lpsVars, rpwmVars, fwVars, lateVars
  <2> QED BY <2>3, <2>4, Zenon
<1>3. ASSUME NEW x \in Tasks, Registered(x) PROVE TypeOK'
  BY <1>3, Contexts DEF TypeOK, Registered, Places, lpsVars, rpwmVars,
     aliveVars, fwVars, lateVars
<1>4. ASSUME NEW x \in Tasks, GiveUp(x) PROVE TypeOK'
  BY <1>4, Contexts DEF TypeOK, GiveUp, Places, lpsVars, rpwmVars, aliveVars,
     fwVars, lateVars
<1>5. ASSUME NEW x \in Tasks, NEW pslv \in {S0, S2}, Unregister(x, pslv)
      PROVE  TypeOK'
  <2>1. /\ alives' \subseteq Tasks
        /\ at' \in [Ctx -> Places]
    BY <1>5, Contexts, Zenon DEF TypeOK, Unregister, Places
  <2>2. CASE rtw_set_rpwm(pslv) /\ UNCHANGED cont
    BY <1>5, <2>1, <2>2, RpwmType
       DEF TypeOK, Unregister, lpsVars, fwVars, lateVars
  <2>3. CASE UNCHANGED rpwmVars
    BY <1>5, <2>1, <2>3
       DEF TypeOK, Unregister, lpsVars, rpwmVars, fwVars, lateVars
  <2> QED BY <1>5, <2>2, <2>3, Zenon DEF Unregister
<1>6. ASSUME NEW x \in Ctx, PollAnswered(x) PROVE TypeOK'
  <2>1. at' \in [Ctx -> Places] /\ cpwm_orig' \in BOOLEAN
    BY <1>6, Zenon DEF TypeOK, PollAnswered, Polled, Places
  <2>2. retry' \in 0..MaxRetry
    BY <1>6, BoundsAssumption DEF PollAnswered, Polled
  <2> QED BY <1>6, <2>1, <2>2
     DEF TypeOK, PollAnswered, Polled, lpsVars, aliveVars, fwVars, lateVars
<1>7. ASSUME NEW x \in Ctx, PollTimeout(x) PROVE TypeOK'
  <2>1. /\ lates' \in 0..MaxLate /\ retry' \in 0..MaxRetry
    BY <1>7, BoundsAssumption DEF TypeOK, PollTimeout, Polled
  <2>2. /\ at' \in [Ctx -> Places]
        /\ cont' \in {"out", "registered", "io", "left", "leave"}
        /\ pwrlock' \in Ctx \cup {"free"}
        /\ failed' \in BOOLEAN /\ cpwm_orig' \in BOOLEAN
    BY <1>7, ZenonT(30) DEF TypeOK, PollTimeout, Polled, Places
  <2>3. fw_req' \in [pslv : {S0, S2, S4}, ack : BOOLEAN, new : BOOLEAN]
    BY <1>7, Zenon DEF TypeOK, PollTimeout
  <2> QED BY <1>7, <2>1, <2>2, <2>3
     DEF TypeOK, PollTimeout, lpsVars, aliveVars, fwVars
<1>8. CASE EnterCheck
  BY <1>8, Contexts DEF TypeOK, EnterCheck, Places, lpsVars, rpwmVars,
     aliveVars, fwVars, lateVars
<1>9. ASSUME NEW rdy \in BOOLEAN, NEW bt \in BOOLEAN, Enter(rdy, bt)
      PROVE  TypeOK'
  <2>1. CASE rdy
    <3> DEFINE pslv == IF alives = {} /\ ~bt THEN S0 ELSE S2
    <3>1. pslv \in {S0, S2, S4}
      BY Zenon
    <3>2. /\ rtw_set_rpwm(pslv) /\ Then(Cmd, pslv, "io")
          /\ bFwCurrentInPSMode' = TRUE /\ pwr_mode' = "PS"
      BY <1>9, <2>1, Zenon DEF Enter
    <3> HIDE DEF pslv
    <3>3. /\ at' \in [Ctx -> Places]
          /\ cont' \in {"out", "registered", "io", "left", "leave"}
          /\ pwrlock' \in Ctx \cup {"free"}
      BY <3>2, Contexts, Zenon DEF TypeOK, Then, Places
    <3> QED
      BY <1>9, <3>1, <3>2, <3>3, RpwmType, Zenon
         DEF TypeOK, Enter, aliveVars, fwVars, lateVars
  <2>2. CASE ~rdy
    BY <1>9, <2>2, Contexts
       DEF TypeOK, Enter, Places, rpwmVars, aliveVars, fwVars, lateVars
  <2> QED BY <2>1, <2>2, Zenon
<1>10. ASSUME NEW x \in {Cmd} \cup Users, LeaveCheck(x) PROVE TypeOK'
  BY <1>10, Contexts DEF TypeOK, LeaveCheck, Back, Places, lpsVars, rpwmVars,
     aliveVars, fwVars, lateVars
<1>11. ASSUME NEW x \in {Cmd} \cup Users, Left(x) PROVE TypeOK'
  <2>1. at' \in [Ctx -> Places]
    BY <1>11, <1>a, Contexts, Zenon DEF Left, Back, Places
  <2>2. bFwCurrentInPSMode' \in BOOLEAN /\ pwrlock' \in Ctx \cup {"free"}
    BY <1>11, Zenon DEF Left
  <2> QED
    BY <1>11, <2>1, <2>2
       DEF TypeOK, Left, rpwmVars, aliveVars, fwVars, lateVars
<1>12. ASSUME NEW x \in {Cmd} \cup Users, NEW ok \in BOOLEAN, SetActive(x, ok)
       PROVE  TypeOK'
  <2>0. x \in Ctx
    BY Contexts, Zenon
  <2>1. CASE ok
    <3>1. /\ rtw_set_rpwm(S4) /\ Then(x, S4, "left") /\ pwr_mode' = "ACTIVE"
      BY <1>12, <2>1, Zenon DEF SetActive
    <3>2. /\ at' \in [Ctx -> Places]
          /\ cont' \in {"out", "registered", "io", "left", "leave"}
          /\ pwrlock' \in Ctx \cup {"free"}
      BY <2>0, <3>1, Zenon DEF TypeOK, Then, Places
    <3> QED
      BY <1>12, <3>1, <3>2, RpwmType
         DEF TypeOK, SetActive, aliveVars, fwVars, lateVars
  <2>2. CASE ~ok
    BY <1>12, <2>0, <2>2 DEF TypeOK, SetActive, Back, Places, rpwmVars,
       aliveVars, fwVars, lateVars
  <2> QED BY <2>1, <2>2, Zenon
<1>13. ASSUME NEW u \in Users, Deny(u) PROVE TypeOK'
  BY <1>13, Contexts
     DEF TypeOK, Deny, Places, lpsVars, rpwmVars, fwVars, lateVars
<1>14. ASSUME NEW u \in Users, Direct(u) PROVE TypeOK'
  BY <1>14, Contexts DEF TypeOK, Direct, Places, lpsVars, rpwmVars,
     aliveVars, fwVars, lateVars
<1>15. ASSUME NEW u \in Users, DirectWake(u) PROVE TypeOK'
  <2>1. /\ at' \in [Ctx -> Places]
        /\ cont' \in {"out", "registered", "io", "left", "leave"}
        /\ pwrlock' \in Ctx \cup {"free"}
    BY <1>15, Contexts, Zenon DEF TypeOK, DirectWake, Then, Places
  <2> QED
    BY <1>15, <2>1, RpwmType
       DEF TypeOK, DirectWake, lpsVars, aliveVars, fwVars, lateVars
<1>16. ASSUME NEW u \in Users, Cancel(u) PROVE TypeOK'
  BY <1>16, Contexts
     DEF TypeOK, Cancel, Places, lpsVars, rpwmVars, fwVars, lateVars
<1>17. ASSUME NEW l \in {"NORMAL", "LCLK"}, SetLevel(l) PROVE TypeOK'
  BY <1>17 DEF TypeOK, SetLevel, rpwmVars, aliveVars, fwVars, lateVars
<1>18. CASE FwRead
  <2>1. fw_req' \in [pslv : {S0, S2, S4}, ack : BOOLEAN, new : BOOLEAN]
    BY <1>18, Zenon DEF TypeOK, FwRead
  <2>2. (fw_req.pslv >= S2) \in BOOLEAN
    OBVIOUS
  <2>3. fw_awake' \in BOOLEAN /\ fw_cpwm' \in BOOLEAN
    BY <1>18, <2>2, Zenon DEF TypeOK, FwRead
  <2> QED
    BY <1>18, <2>1, <2>3 DEF TypeOK, FwRead, lpsVars, aliveVars, lateVars
<1>19. CASE DevStop
  BY <1>19 DEF TypeOK, DevStop, lpsVars, rpwmVars, aliveVars, fwVars, lateVars
<1>20. CASE UNCHANGED vars
  BY <1>20 DEF TypeOK, vars, lpsVars, rpwmVars, aliveVars, fwVars, lateVars
<1> QED
  BY NextCases, <1>1, <1>2, <1>3, <1>4, <1>5, <1>6, <1>7, <1>8, <1>9, <1>10,
     <1>11, <1>12, <1>13, <1>14, <1>15, <1>16, <1>17, <1>18, <1>19, <1>20, Zenon

-----------------------------------------------------------------------------
(* The lock, the alive tags, and what the firmware was sent.               *)

\* Only the context that polls or is about to send its H2C holds the lock.
LEMMA LockStep ==
    ASSUME TypeOK, LockInv, [Next]_vars
    PROVE  LockInv'
<1>a. ASSUME NEW x \in Ctx, NEW l \in Places, l \notin {"poll", "left"},
             at[x] \notin {"poll", "left"},
             at' = [at EXCEPT ![x] = l], UNCHANGED pwrlock
      PROVE  LockInv'
  BY <1>a, Zenon DEF TypeOK, LockInv
<1>b. ASSUME NEW x \in Ctx, NEW pslv, NEW l \in Places \ {"poll"},
             pwrlock = "free", Then(x, pslv, l)
      PROVE  LockInv'
  BY <1>b, Contexts DEF TypeOK, LockInv, Then
<1>c. ASSUME NEW x \in Ctx, at[x] = "poll", Polled(x) PROVE LockInv'
  BY <1>c, Contexts, Zenon DEF TypeOK, LockInv, Polled
<1>d. ASSUME UNCHANGED <<at, pwrlock>> PROVE LockInv'
  BY <1>d, Zenon DEF LockInv
<1>1. ASSUME NEW x \in Tasks, Want(x) PROVE LockInv'
  BY <1>1, <1>a, Contexts, Zenon DEF Want, Places
<1>2. ASSUME NEW x \in Tasks, Register(x) PROVE LockInv'
  BY <1>2, <1>a, <1>b, Contexts, Zenon DEF Register, Places
<1>3. ASSUME NEW x \in Tasks, Registered(x) PROVE LockInv'
  BY <1>3, <1>a, Contexts, Zenon DEF Registered, Places
<1>4. ASSUME NEW x \in Tasks, GiveUp(x) PROVE LockInv'
  BY <1>4, <1>a, Contexts, Zenon DEF GiveUp, Places
<1>5. ASSUME NEW x \in Tasks, NEW pslv \in {S0, S2}, Unregister(x, pslv)
      PROVE  LockInv'
  BY <1>5, <1>a, Contexts, Zenon DEF Unregister, Places
<1>6. ASSUME NEW x \in Ctx, PollAnswered(x) PROVE LockInv'
  BY <1>6, <1>c, Zenon DEF PollAnswered
<1>7. ASSUME NEW x \in Ctx, PollTimeout(x) PROVE LockInv'
  BY <1>7, <1>c, <1>d, Zenon DEF PollTimeout
<1>8. CASE EnterCheck
  BY <1>8, <1>a, Contexts, Zenon DEF EnterCheck, Places
<1>9. ASSUME NEW rdy \in BOOLEAN, NEW bt \in BOOLEAN, Enter(rdy, bt)
      PROVE  LockInv'
  BY <1>9, <1>a, <1>b, Contexts, Zenon DEF Enter, Places
<1>10. ASSUME NEW x \in {Cmd} \cup Users, LeaveCheck(x) PROVE LockInv'
  BY <1>10, <1>a, Contexts, Zenon DEF LeaveCheck, Back, Places
<1>11. ASSUME NEW x \in {Cmd} \cup Users, Left(x) PROVE LockInv'
  BY <1>11, Contexts, Zenon DEF TypeOK, LockInv, Left, Back
<1>12. ASSUME NEW x \in {Cmd} \cup Users, NEW ok \in BOOLEAN, SetActive(x, ok)
       PROVE  LockInv'
  BY <1>12, <1>a, <1>b, Contexts, Zenon DEF SetActive, Back, Places
<1>13. ASSUME NEW u \in Users, Deny(u) PROVE LockInv'
  BY <1>13, <1>a, Contexts, Zenon DEF Deny, Places
<1>14. ASSUME NEW u \in Users, Direct(u) PROVE LockInv'
  BY <1>14, <1>a, Contexts, Zenon DEF Direct, Places
<1>15. ASSUME NEW u \in Users, DirectWake(u) PROVE LockInv'
  BY <1>15, <1>b, Contexts, Zenon DEF DirectWake, Places
<1>16. ASSUME NEW u \in Users, Cancel(u) PROVE LockInv'
  BY <1>16, <1>a, Contexts, Zenon DEF Cancel, Places
<1>17. ASSUME NEW l \in {"NORMAL", "LCLK"}, SetLevel(l) PROVE LockInv'
  BY <1>17, <1>d, Zenon DEF SetLevel
<1>18. CASE FwRead \/ DevStop \/ UNCHANGED vars
  BY <1>18, <1>d, Zenon DEF FwRead, DevStop, vars
<1> QED
  BY NextCases, <1>1, <1>2, <1>3, <1>4, <1>5, <1>6, <1>7, <1>8, <1>9, <1>10,
     <1>11, <1>12, <1>13, <1>14, <1>15, <1>16, <1>17, <1>18, Zenon

\* A task's tag is in alives from its registration on.
LEMMA AliveStep ==
    ASSUME TypeOK, AliveInv, [Next]_vars
    PROVE  AliveInv'
<1>a. ASSUME NEW x \in Ctx, NEW l,
             at[x] \notin {"out", "register"} \/ l \in {"out", "register"}
                \/ x \in Users,
             at' = [at EXCEPT ![x] = l], UNCHANGED alives
      PROVE  AliveInv'
  BY <1>a, Contexts, Zenon DEF TypeOK, AliveInv
<1>d. ASSUME UNCHANGED <<at, alives>> PROVE AliveInv'
  BY <1>d, Zenon DEF AliveInv
<1>1. ASSUME NEW x \in Tasks, Want(x) PROVE AliveInv'
  BY <1>1, <1>a, Contexts, Zenon DEF Want, aliveVars
<1>2. ASSUME NEW x \in Tasks, Register(x) PROVE AliveInv'
  BY <1>2, Contexts, Zenon DEF TypeOK, AliveInv, Register, Then
<1>3. ASSUME NEW x \in Tasks, Registered(x) PROVE AliveInv'
  BY <1>3, <1>a, Contexts, Zenon DEF Registered, aliveVars
<1>4. ASSUME NEW x \in Tasks, GiveUp(x) PROVE AliveInv'
  BY <1>4, <1>a, Contexts, Zenon DEF GiveUp, aliveVars
<1>5. ASSUME NEW x \in Tasks, NEW pslv \in {S0, S2}, Unregister(x, pslv)
      PROVE  AliveInv'
  BY <1>5, Contexts, Zenon DEF TypeOK, AliveInv, Unregister
<1>6. ASSUME NEW x \in Ctx, PollAnswered(x) \/ PollTimeout(x) PROVE AliveInv'
  BY <1>6, <1>a, <1>d, Zenon DEF PollAnswered, PollTimeout, Polled, aliveVars
<1>8. CASE EnterCheck
  BY <1>8, <1>a, Contexts, Zenon DEF EnterCheck, aliveVars
<1>9. ASSUME NEW rdy \in BOOLEAN, NEW bt \in BOOLEAN, Enter(rdy, bt)
      PROVE  AliveInv'
  BY <1>9, <1>a, Contexts, Zenon DEF Enter, Then, aliveVars
<1>10. ASSUME NEW x \in {Cmd} \cup Users, LeaveCheck(x) PROVE AliveInv'
  BY <1>10, <1>a, Contexts, Zenon DEF LeaveCheck, aliveVars
<1>11. ASSUME NEW x \in {Cmd} \cup Users, Left(x) PROVE AliveInv'
  BY <1>11, <1>a, Contexts, Zenon DEF Left, aliveVars
<1>12. ASSUME NEW x \in {Cmd} \cup Users, NEW ok \in BOOLEAN, SetActive(x, ok)
       PROVE  AliveInv'
  BY <1>12, <1>a, Contexts, Zenon DEF SetActive, Then, aliveVars
<1>13. ASSUME NEW u \in Users, Deny(u) \/ Direct(u) \/ Cancel(u)
       PROVE  AliveInv'
  BY <1>13, <1>a, Contexts, Zenon DEF Deny, Direct, Cancel, aliveVars
<1>15. ASSUME NEW u \in Users, DirectWake(u) PROVE AliveInv'
  BY <1>15, <1>a, Contexts, Zenon DEF DirectWake, Then, aliveVars
<1>17. ASSUME NEW l \in {"NORMAL", "LCLK"}, SetLevel(l) PROVE AliveInv'
  BY <1>17, <1>d, Zenon DEF SetLevel, aliveVars
<1>18. CASE FwRead \/ DevStop \/ UNCHANGED vars
  BY <1>18, <1>d, Zenon DEF FwRead, DevStop, vars, aliveVars
<1> QED
  BY NextCases, <1>1, <1>2, <1>3, <1>4, <1>5, <1>6, <1>8, <1>9, <1>10,
     <1>11, <1>12, <1>13, <1>15, <1>17, <1>18, Zenon

\* rpwm stays what the firmware was sent, and the firmware does what it read.
LEMMA ReqStep ==
    ASSUME TypeOK, ReqInv, [Next]_vars
    PROVE  ReqInv'
<1>a. ASSUME NEW pslv \in {S0, S2, S4}, rtw_set_rpwm(pslv), UNCHANGED fwVars
      PROVE  ReqInv'
  <2>1. CASE RpwmSent(pslv)
    BY <1>a, <2>1, Zenon DEF rtw_set_rpwm, ReqInv
  <2>2. CASE ~RpwmSent(pslv)
    <3>1. /\ rpwm' = rpwm /\ fw_req' = fw_req /\ fw_awake' = fw_awake
          /\ cpwm' \in {cpwm, S4}
      BY <1>a, <2>2, Zenon DEF rtw_set_rpwm, NeedsPoll, fwVars
    <3> QED BY <3>1, Zenon DEF ReqInv, Awake
  <2> QED BY <2>1, <2>2, Zenon
<1>d. ASSUME UNCHANGED <<rpwm, cpwm, fw_req, fw_awake>> PROVE ReqInv'
  BY <1>d, Zenon DEF ReqInv, Awake
<1>1. ASSUME NEW x \in Tasks, Want(x) \/ Registered(x) \/ GiveUp(x)
      PROVE  ReqInv'
  BY <1>1, <1>d, Zenon DEF Want, Registered, GiveUp, rpwmVars, fwVars
<1>2. ASSUME NEW x \in Tasks, Register(x) PROVE ReqInv'
  <2>1. CASE UNCHANGED rpwmVars
    BY <1>2, <2>1, <1>d, Zenon DEF Register, rpwmVars, fwVars
  <2>2. CASE rtw_set_rpwm(S2)
    BY <1>2, <2>2, <1>a, Zenon DEF Register
  <2> QED BY <1>2, <2>1, <2>2, Zenon DEF Register
<1>5. ASSUME NEW x \in Tasks, NEW pslv \in {S0, S2}, Unregister(x, pslv)
      PROVE  ReqInv'
  <2>1. CASE UNCHANGED rpwmVars
    BY <1>5, <2>1, <1>d, Zenon DEF Unregister, rpwmVars, fwVars
  <2>2. CASE rtw_set_rpwm(pslv)
    BY <1>5, <2>2, <1>a, Zenon DEF Unregister
  <2> QED BY <1>5, <2>1, <2>2, Zenon DEF Unregister
<1>6. ASSUME NEW x \in Ctx, PollAnswered(x) PROVE ReqInv'
  BY <1>6, Zenon DEF PollAnswered, ReqInv, Awake, fwVars
<1>7. ASSUME NEW x \in Ctx, PollTimeout(x) PROVE ReqInv'
  BY <1>7, Zenon DEF PollTimeout, ReqInv, fwVars
<1>8. CASE EnterCheck
  BY <1>8, <1>d, Zenon DEF EnterCheck, rpwmVars, fwVars
<1>9. ASSUME NEW rdy \in BOOLEAN, NEW bt \in BOOLEAN, Enter(rdy, bt)
      PROVE  ReqInv'
  <2>1. CASE ~rdy
    BY <1>9, <2>1, <1>d, Zenon DEF Enter, rpwmVars, fwVars
  <2>2. CASE rdy
    BY <1>9, <2>2, <1>a, Zenon DEF Enter
  <2> QED BY <2>1, <2>2, Zenon
<1>10. ASSUME NEW x \in {Cmd} \cup Users, LeaveCheck(x) \/ Left(x)
       PROVE  ReqInv'
  BY <1>10, <1>d, Zenon DEF LeaveCheck, Left, rpwmVars, fwVars
<1>12. ASSUME NEW x \in {Cmd} \cup Users, NEW ok \in BOOLEAN, SetActive(x, ok)
       PROVE  ReqInv'
  <2>1. CASE ~ok
    BY <1>12, <2>1, <1>d, Zenon DEF SetActive, rpwmVars, fwVars
  <2>2. CASE ok
    BY <1>12, <2>2, <1>a, Zenon DEF SetActive
  <2> QED BY <2>1, <2>2, Zenon
<1>13. ASSUME NEW u \in Users, Deny(u) \/ Direct(u) \/ Cancel(u)
       PROVE  ReqInv'
  BY <1>13, <1>d, Zenon DEF Deny, Direct, Cancel, rpwmVars, fwVars
<1>15. ASSUME NEW u \in Users, DirectWake(u) PROVE ReqInv'
  BY <1>15, <1>a, Zenon DEF DirectWake
<1>17. ASSUME NEW l \in {"NORMAL", "LCLK"}, SetLevel(l) PROVE ReqInv'
  BY <1>17, <1>d, Zenon DEF SetLevel, rpwmVars, fwVars
<1>18. CASE FwRead
  BY <1>18, Zenon DEF FwRead, TypeOK, ReqInv, Awake
<1>19. CASE DevStop \/ UNCHANGED vars
  BY <1>19, <1>d, Zenon DEF DevStop, vars, rpwmVars, fwVars
<1> QED
  BY NextCases, <1>1, <1>2, <1>5, <1>6, <1>7, <1>8, <1>9, <1>10,
     <1>12, <1>13, <1>15, <1>17, <1>18, <1>19, Zenon

-----------------------------------------------------------------------------
(* What the driver believes about the firmware.                            *)

\* While nobody polls, an awake firmware is believed to be awake.
LEMMA AwakeBelieved ==
    ASSUME TypeOK, LockInv, ReqInv, BeliefInv, pwrlock = "free", Awake
    PROVE  cpwm >= S2
<1>1. \A x \in Ctx : at[x] # "poll"
  BY Contexts, Zenon DEF LockInv
<1>2. rpwm = fw_req.pslv \/ cpwm = S4
  BY Zenon DEF ReqInv
<1> QED BY <1>1, <1>2 DEF BeliefInv, Awake, S2, S4

\* rtw_set_rpwm(S2) or (S4), called with the lock: either the firmware was
\* asleep and the ACK is polled for, or it is awake, and believed to be.
LEMMA Raise ==
    ASSUME TypeOK, LockInv, ReqInv, BeliefInv, Sound, pwrlock = "free",
           NEW pslv \in {S2, S4}, rtw_set_rpwm(pslv), UNCHANGED fwVars
    PROVE  /\ NeedsPoll(pslv) =>
                 /\ rpwm' >= S2 /\ fw_req'.pslv = rpwm' /\ cpwm' < S2
                 /\ fw_cpwm' = cpwm_orig' /\ ~Awake
           /\ ~NeedsPoll(pslv) => Awake /\ Awake' /\ cpwm' >= S2
<1>1. CASE NeedsPoll(pslv)
  <2>1. RpwmSent(pslv) /\ cpwm < S2 /\ ~RpwmSkip(pslv) /\ dev # "removed"
    BY <1>1, Zenon DEF NeedsPoll, RpwmSent
  <2>2. /\ rpwm' = pslv /\ fw_req'.pslv = pslv /\ cpwm' = cpwm
        /\ cpwm_orig' = fw_cpwm
    BY <1>1, <2>1, Zenon DEF rtw_set_rpwm
  <2>3. ~Awake
    BY <2>1, AwakeBelieved DEF TypeOK, S0, S2, S4
  <2> QED BY <1>1, <2>1, <2>2, <2>3 DEF fwVars, S2, S4
<1>2. CASE ~NeedsPoll(pslv)
  <2>1. CASE RpwmSent(pslv)
    <3>1. /\ cpwm' = pslv /\ fw_req'.pslv = pslv /\ fw_awake' = fw_awake
      BY <1>2, <2>1, Zenon DEF rtw_set_rpwm, RpwmSent, fwVars
    <3>2. cpwm >= S2
      BY <1>2, <2>1 DEF NeedsPoll, TypeOK, S0, S2, S4
    <3> QED BY <1>2, <3>1, <3>2 DEF BeliefInv, Awake, S2, S4
  <2>2. CASE ~RpwmSent(pslv)
    <3>1. RpwmSkip(pslv)
      BY <2>2 DEF RpwmSent, Sound, S2, S4
    <3>2. /\ cpwm' = cpwm /\ fw_req' = fw_req /\ fw_awake' = fw_awake
      BY <1>2, <2>2, <3>1, Zenon DEF rtw_set_rpwm, fwVars
    <3>3. cpwm >= S2
      <4>1. CASE lps_level = "NORMAL"
        BY <4>1, AwakeBelieved, Zenon DEF BeliefInv
      <4>2. CASE rpwm >= S2
        BY <4>2, Contexts, Zenon DEF BeliefInv, LockInv
      <4> QED BY <3>1, <4>1, <4>2 DEF RpwmSkip, S2, S4
    <3> QED BY <1>2, <3>2, <3>3, Zenon DEF BeliefInv, Awake
  <2> QED BY <2>1, <2>2, Zenon
<1> QED BY <1>1, <1>2, Zenon

\* A request to sleep needs no ACK, and is not sent while the 32k clock is
\* not in use.
LEMMA Lower ==
    ASSUME TypeOK, Sound, rtw_set_rpwm(S0)
    PROVE  /\ ~NeedsPoll(S0)
           /\ \/ UNCHANGED <<rpwm, cpwm, fw_req>>
              \/ lps_level # "NORMAL" /\ rpwm' = S0 /\ cpwm' = S0
<1>1. ~NeedsPoll(S0)
  BY DEF NeedsPoll, S0, S2
<1>2. CASE RpwmSent(S0)
  BY <1>1, <1>2, Zenon DEF rtw_set_rpwm, RpwmSent, RpwmSkip
<1>3. CASE ~RpwmSent(S0)
  BY <1>1, <1>3, Zenon DEF rtw_set_rpwm, Sound
<1> QED BY <1>1, <1>2, <1>3, Zenon

Core == BeliefInv /\ PollInv /\ TaskInv

\* A context moves on and touches nothing else: a task only to a place where
\* nothing is claimed, or with an awake firmware.
LEMMA Moved ==
    ASSUME TypeOK, Core,
           NEW x \in Ctx, NEW l, at' = [at EXCEPT ![x] = l],
           at[x] # "poll", l \notin {"poll", "left"},
           x \in Tasks => \/ l \in {"out", "register"}
                          \/ Awake /\ l \in {"io", "enter", "set_active"},
           \A y \in Tasks : y # x => res'[y] = res[y],
           UNCHANGED <<rpwm, cpwm, bFwCurrentInPSMode, lps_level, fw_req,
                       cpwm_orig, fw_awake, fw_cpwm>>
    PROVE  Core'
<1>1. Awake' = Awake
  BY Zenon DEF Awake
<1>2. \A y \in Ctx : at'[y] = IF y = x THEN l ELSE at[y]
  BY Zenon DEF TypeOK
<1>3. BeliefInv'
  BY <1>1, <1>2, Zenon DEF Core, BeliefInv
<1>4. PollInv'
  BY <1>2, Zenon DEF Core, PollInv
<1>5. TaskInv'
  BY <1>1, <1>2, Contexts, Zenon DEF Core, TaskInv
<1> QED BY <1>3, <1>4, <1>5, Zenon DEF Core

\* A context raises the power state and goes on, by way of the poll if the
\* firmware sleeps.
LEMMA Raised ==
    ASSUME TypeOK, LockInv, ReqInv, Core, Sound, pwrlock = "free",
           NEW x \in Ctx, NEW pslv \in {S2, S4},
           NEW l \in {"registered", "io", "left", "leave"},
           rtw_set_rpwm(pslv), Then(x, pslv, l),
           bFwCurrentInPSMode => bFwCurrentInPSMode',
           UNCHANGED <<lps_level, fwVars>>,
           \A y \in Tasks : y # x => res'[y] = res[y]
    PROVE  Core'
<1>1. \A y \in Ctx : at[y] \notin {"poll", "left"}
  BY Contexts, Zenon DEF LockInv
<1>2. CASE NeedsPoll(pslv)
  <2>1. /\ rpwm' >= S2 /\ fw_req'.pslv = rpwm' /\ cpwm' < S2
        /\ fw_cpwm' = cpwm_orig' /\ ~Awake
    BY <1>2, Raise, Zenon DEF Core
  <2>2. \A y \in Ctx : at'[y] = IF y = x THEN "poll" ELSE at[y]
    BY <1>2, Zenon DEF Then, TypeOK
  <2>3. BeliefInv'
    <3>1. ~(cpwm' >= S2)
      BY <2>1, RpwmType DEF S0, S2, S4
    <3> QED BY <2>1, <2>2, <3>1, Zenon DEF Core, BeliefInv
  <2>4. PollInv'
    BY <1>1, <2>1, <2>2, Zenon DEF PollInv
  <2>5. TaskInv'
    BY <1>1, <2>1, <2>2, Contexts, Zenon DEF Core, TaskInv
  <2> QED BY <2>3, <2>4, <2>5, Zenon DEF Core
<1>3. CASE ~NeedsPoll(pslv)
  <2>1. Awake' /\ cpwm' >= S2
    BY <1>3, Raise, Zenon DEF Core
  <2>2. \A y \in Ctx : at'[y] = IF y = x THEN l ELSE at[y]
    BY <1>3, Zenon DEF Then, TypeOK
  <2>3. BeliefInv'
    BY <2>1, Zenon DEF BeliefInv
  <2>4. PollInv'
    BY <1>1, <2>2, Zenon DEF PollInv
  <2>5. TaskInv'
    BY <2>1, <2>2, Contexts, Zenon DEF Core, TaskInv
  <2> QED BY <2>3, <2>4, <2>5, Zenon DEF Core
<1> QED BY <1>2, <1>3, Zenon

\* What is believed stays so in every step after which no poll has failed
\* and the device is there.
LEMMA CoreStep ==
    ASSUME TypeOK, LockInv, AliveInv, ReqInv, Sound => Core, [Next]_vars,
           Sound'
    PROVE  Core'
<1>s. Sound
  <2>1. failed => failed'
    BY NextCases, Zenon DEF vars, lateVars, Want, Register, Registered, GiveUp,
       Unregister, PollAnswered, PollTimeout, EnterCheck, Enter, LeaveCheck,
       Left, SetActive, Deny, Direct, DirectWake, Cancel, SetLevel, FwRead,
       DevStop
  <2>2. dev = "removed" => dev' = "removed"
    BY NextCases, Zenon DEF vars, Want, Register, Registered, GiveUp,
       Unregister, PollAnswered, PollTimeout, EnterCheck, Enter, LeaveCheck,
       Left, SetActive, Deny, Direct, DirectWake, Cancel, SetLevel, FwRead,
       DevStop
  <2> QED BY <2>1, <2>2, Zenon DEF Sound
<1>c. Core
  BY <1>s, Zenon
<1>d. ASSUME UNCHANGED <<rpwm, cpwm, bFwCurrentInPSMode, lps_level, res, at,
                         fw_req, cpwm_orig, fw_awake, fw_cpwm>>
      PROVE  Core'
  BY <1>c, <1>d, Zenon DEF Core, BeliefInv, PollInv, TaskInv, Awake
<1>m. ASSUME NEW x \in Ctx, NEW l \in Places, at' = [at EXCEPT ![x] = l],
             at[x] # "poll", l \notin {"poll", "left"},
             \/ x \in Users
             \/ l \in {"out", "register"}
             \/ Awake /\ l \in {"io", "enter", "set_active"},
             UNCHANGED lpsVars, UNCHANGED rpwmVars, UNCHANGED fwVars,
             \A y \in Tasks : y # x => res'[y] = res[y]
      PROVE  Core'
  <2>1. UNCHANGED <<rpwm, cpwm, bFwCurrentInPSMode, lps_level, fw_req,
                    cpwm_orig, fw_awake, fw_cpwm>>
    BY <1>m, Zenon DEF lpsVars, rpwmVars, fwVars
  <2>2. x \in Tasks => \/ l \in {"out", "register"}
                       \/ Awake /\ l \in {"io", "enter", "set_active"}
    BY <1>m, Contexts, Zenon
  <2> QED BY <1>m, <1>c, <2>1, <2>2, Moved, Zenon
<1>1. ASSUME NEW x \in Tasks, Want(x) PROVE Core'
  <2>1. x \in Ctx /\ UNCHANGED <<lpsVars, rpwmVars, res, fwVars>>
    BY <1>1, Contexts, Zenon DEF Want
  <2> QED BY <1>1, <2>1, <1>m, Zenon DEF Want, Places
<1>2. ASSUME NEW x \in Tasks, Register(x) PROVE Core'
  <2>1. CASE bFwCurrentInPSMode /\ cpwm < S2 /\ rpwm < S2
    <3>1. rtw_set_rpwm(S2) /\ Then(x, S2, "registered") /\ pwrlock = "free"
      BY <1>2, <2>1, Zenon DEF Register
    <3>2. \A y \in Tasks : y # x => res'[y] = res[y]
      BY <1>2, Zenon DEF Register, TypeOK
    <3> QED
      BY <1>2, <1>c, <1>s, <3>1, <3>2, Raised, Contexts, Zenon DEF Register, lpsVars
  <2>2. CASE ~(bFwCurrentInPSMode /\ cpwm < S2 /\ rpwm < S2)
    <3>1. /\ at' = [at EXCEPT ![x] = "registered"] /\ UNCHANGED rpwmVars
          /\ pwrlock = "free"
          /\ res' = [res EXCEPT ![x] = ~(bFwCurrentInPSMode /\ cpwm < S2)]
      BY <1>2, <2>2, Zenon DEF Register
    <3>2. Awake
      <4>1. CASE ~bFwCurrentInPSMode
        BY <1>c, <4>1, Zenon DEF Core, BeliefInv
      <4>2. CASE cpwm >= S2
        BY <1>c, <4>2, Zenon DEF Core, BeliefInv
      <4>3. CASE rpwm >= S2
        BY <1>c, <3>1, <4>2, <4>3, Contexts, Zenon DEF Core, BeliefInv, LockInv
      <4> QED BY <2>2, <4>1, <4>2, <4>3 DEF TypeOK, S0, S2, S4
    <3>3. cpwm >= S2
      BY <1>c, <3>1, <3>2, AwakeBelieved, Zenon DEF Core
    <3>4. Awake' = Awake /\ UNCHANGED <<rpwm, cpwm>>
      BY <1>2, <3>1, Zenon DEF Register, rpwmVars, fwVars, Awake
    <3>5. /\ \A y \in Ctx : at'[y] = IF y = x THEN "registered" ELSE at[y]
      BY <3>1, Zenon DEF TypeOK
    <3>6. PollInv'
      BY <1>2, <1>c, <3>1, <3>5, Contexts
         DEF Core, PollInv, Register, rpwmVars, fwVars
    <3>7. BeliefInv' /\ TaskInv'
      BY <1>c, <3>2, <3>3, <3>4, <3>5, Contexts, Zenon DEF Core, BeliefInv, TaskInv
    <3> QED BY <3>6, <3>7, Zenon DEF Core
  <2> QED BY <2>1, <2>2, Zenon
<1>3. ASSUME NEW x \in Tasks, Registered(x) PROVE Core'
  <2>1. Awake /\ (res[x] \/ cpwm >= S2)
    BY <1>3, <1>c, Zenon DEF Core, TaskInv, Registered
  <2>2. /\ x \in Ctx /\ UNCHANGED <<lpsVars, rpwmVars, fwVars>>
        /\ \A y \in Tasks : y # x => res'[y] = res[y]
    BY <1>3, Contexts, Zenon DEF Registered, TypeOK
  <2> QED BY <1>3, <2>1, <2>2, <1>m, Zenon DEF Registered, Places
<1>4. ASSUME NEW x \in Tasks, GiveUp(x) PROVE Core'
  BY <1>4, <1>c, Zenon DEF Core, TaskInv, GiveUp
<1>5. ASSUME NEW x \in Tasks, NEW pslv \in {S0, S2}, Unregister(x, pslv)
      PROVE  Core'
  <2>0. x \in Ctx /\ at' = [at EXCEPT ![x] = "out"] /\ pwrlock = "free"
    BY <1>5, Contexts, Zenon DEF Unregister
  <2>1. \A y \in Ctx : at[y] \notin {"poll", "left"}
    BY <2>0, Contexts, Zenon DEF LockInv
  <2>2. CASE UNCHANGED rpwmVars
    BY <1>5, <1>c, <2>0, <2>1, <2>2, Moved, ZenonT(30)
       DEF Unregister, lpsVars, rpwmVars, fwVars
  <2>3. ASSUME rtw_set_rpwm(pslv), cpwm > pslv, bFwCurrentInPSMode,
               pslv >= S2 \/ alives' = {}
        PROVE  Core'
    <3>0. \A y \in Ctx : at'[y] = IF y = x THEN "out" ELSE at[y]
      BY <2>0, Zenon DEF TypeOK
    <3>1. PollInv'
      BY <2>1, <3>0, Zenon DEF PollInv
    <3>2. CASE pslv = S2
      <4>1. ~NeedsPoll(pslv)
        BY <2>3, <3>2 DEF NeedsPoll, TypeOK, S0, S2, S4
      <4>2. Awake' /\ cpwm' >= S2
        BY <1>5, <1>c, <1>s, <2>0, <2>3, <3>2, <4>1, Raise, Zenon
           DEF Core, Unregister
      <4> QED
        BY <1>c, <1>5, <3>0, <3>1, <4>2, Contexts
           DEF Core, BeliefInv, TaskInv, Unregister
    <3>3. CASE pslv = S0
      <4>1. alives' = {}
        BY <2>3, <3>3 DEF S0, S2
      <4>2. \A y \in Tasks : at'[y] \in {"out", "register"}
        BY <1>5, <3>0, <4>1, Contexts, Zenon DEF AliveInv, Unregister
      <4>3. TaskInv'
        BY <2>1, <3>0, <4>2, Zenon DEF TaskInv
      <4>4. \/ UNCHANGED <<rpwm, cpwm, fw_req>>
            \/ lps_level # "NORMAL" /\ rpwm' = S0 /\ cpwm' = S0
        BY <1>s, <2>3, <3>3, Lower, Zenon
      <4>5. BeliefInv'
        <5>1. CASE UNCHANGED <<rpwm, cpwm, fw_req>>
          BY <1>5, <1>c, <2>1, <5>1, Zenon
             DEF Core, BeliefInv, Awake, Unregister, lpsVars, fwVars
        <5>2. CASE lps_level # "NORMAL" /\ rpwm' = S0 /\ cpwm' = S0
          BY <1>5, <2>3, <5>2 DEF BeliefInv, Unregister, lpsVars, S0, S2
        <5> QED BY <4>4, <5>1, <5>2, Zenon
      <4> QED BY <3>1, <4>3, <4>5, Zenon DEF Core
    <3> QED BY <3>2, <3>3, Zenon
  <2> QED BY <1>5, <2>2, <2>3, Zenon DEF Unregister
<1>6. ASSUME NEW x \in Ctx, PollAnswered(x) PROVE Core'
  <2>1. /\ at[x] = "poll" /\ fw_cpwm # cpwm_orig /\ cpwm' = S4
        /\ at' = [at EXCEPT ![x] = cont]
    BY <1>6, <1>s, Zenon DEF PollAnswered, Polled, Sound
  <2>2. Awake'
    BY <1>6, <1>c, <2>1, Zenon DEF Core, PollInv, Awake, PollAnswered, fwVars
  <2>3. /\ \A y \in Ctx : at'[y] = IF y = x THEN cont ELSE at[y]
        /\ \A y \in Ctx : y # x => at[y] # "poll"
    BY <2>1, Zenon DEF TypeOK, LockInv
  <2>4. PollInv'
    BY <2>3, Zenon DEF PollInv, TypeOK
  <2>5. BeliefInv' /\ TaskInv'
    BY <1>6, <1>c, <2>1, <2>2, <2>3, Contexts
       DEF Core, BeliefInv, TaskInv, TypeOK, S2, S4
  <2> QED BY <2>4, <2>5, Zenon DEF Core
<1>7. ASSUME NEW x \in Ctx, PollTimeout(x) PROVE Core'
  <2>1. at[x] = "poll" /\ UNCHANGED <<at, cpwm_orig>> /\ fw_req'.pslv = rpwm
    BY <1>7, Zenon DEF PollTimeout, Sound
  <2>2. fw_req'.pslv = fw_req.pslv
    BY <1>c, <2>1, Zenon DEF Core, PollInv
  <2>3. Awake' = Awake
    BY <1>7, <2>2, Zenon DEF Awake, PollTimeout, fwVars
  <2> QED
    BY <1>7, <1>c, <2>1, <2>2, <2>3, Zenon
       DEF Core, BeliefInv, PollInv, TaskInv, PollTimeout, lpsVars, fwVars
<1>8. CASE EnterCheck
  <2>1. Awake
    BY <1>8, <1>c, Contexts, Zenon DEF Core, TaskInv, EnterCheck
  <2>2. UNCHANGED <<lpsVars, rpwmVars, res, fwVars>>
    BY <1>8, Zenon DEF EnterCheck
  <2> QED BY <1>8, <2>1, <2>2, <1>m, Contexts, Zenon DEF EnterCheck, Places
<1>9. ASSUME NEW rdy \in BOOLEAN, NEW bt \in BOOLEAN, Enter(rdy, bt)
      PROVE  Core'
  <2>1. at[Cmd] = "enter" /\ alives # {} /\ pwrlock = "free" /\ Awake
    BY <1>9, <1>c, Contexts, Zenon DEF Enter, AliveInv, Core, TaskInv
  <2>2. CASE rdy
    <3>1. rtw_set_rpwm(S2) /\ Then(Cmd, S2, "io")
      BY <1>9, <2>1, <2>2, Zenon DEF Enter
    <3> QED
      BY <1>9, <1>c, <1>s, <2>1, <2>2, <3>1, Raised, Contexts, Zenon DEF Enter
  <2>3. CASE ~rdy
    BY <1>9, <1>c, <2>1, <2>3, Moved, Contexts, Zenon DEF Enter, rpwmVars, fwVars
  <2> QED BY <2>2, <2>3, Zenon
<1>10. ASSUME NEW x \in {Cmd} \cup Users, LeaveCheck(x) PROVE Core'
  <2>1. x \in Tasks => Awake /\ Back(x) = "io"
    BY <1>10, <1>c, Contexts, Zenon DEF Core, TaskInv, LeaveCheck, Back
  <2>2. at[x] # "poll" /\ Back(x) \notin {"poll", "left"}
    BY <1>10, Contexts, Zenon DEF LeaveCheck, Back
  <2>3. x \in Ctx /\ UNCHANGED <<lpsVars, rpwmVars, res, fwVars>>
    BY <1>10, Contexts, Zenon DEF LeaveCheck
  <2>4. x \in Users \/ Awake
    BY <2>1, Contexts, Zenon
  <2>5. CASE pwr_mode = "ACTIVE"
    <3>1. at' = [at EXCEPT ![x] = Back(x)] /\ Back(x) \in Places
      BY <1>10, <2>5, Zenon DEF LeaveCheck, Back, Places
    <3> QED BY <2>1, <2>2, <2>3, <2>4, <3>1, <1>m, Contexts, Zenon
  <2>6. CASE pwr_mode # "ACTIVE"
    <3>1. at' = [at EXCEPT ![x] = "set_active"] /\ "set_active" \in Places
      BY <1>10, <2>6, Zenon DEF LeaveCheck, Places
    <3> QED BY <2>2, <2>3, <2>4, <3>1, <1>m, Zenon
  <2> QED BY <2>5, <2>6, Zenon
<1>11. ASSUME NEW x \in {Cmd} \cup Users, Left(x) PROVE Core'
  <2>1. x \in Ctx /\ at[x] = "left" /\ Awake /\ at' = [at EXCEPT ![x] =
     Back(x)]
    BY <1>11, <1>c, Contexts, Zenon DEF Core, TaskInv, Left
  <2>2. Awake' /\ UNCHANGED <<rpwm, cpwm, fw_req, cpwm_orig, fw_awake,
     fw_cpwm, lps_level, res>>
    BY <1>11, <2>1, Zenon DEF Left, Awake, rpwmVars, fwVars
  <2>3. /\ \A y \in Ctx : at'[y] = IF y = x THEN Back(x) ELSE at[y]
        /\ Back(x) \in {"io", "access"}
    BY <2>1, Zenon DEF TypeOK, Back
  <2> QED
    BY <1>c, <2>1, <2>2, <2>3, Contexts, Zenon DEF Core, BeliefInv, PollInv, TaskInv
<1>12. ASSUME NEW x \in {Cmd} \cup Users, NEW ok \in BOOLEAN, SetActive(x, ok)
       PROVE  Core'
  <2>1. CASE ok
    BY <1>12, <1>c, <1>s, <2>1, Raised, Contexts, Zenon DEF SetActive
  <2>2. CASE ~ok
    <3>1. x \in Tasks => Awake /\ Back(x) = "io"
      BY <1>12, <1>c, Contexts, Zenon DEF Core, TaskInv, SetActive, Back
    <3>2. at[x] # "poll" /\ Back(x) \notin {"poll", "left"}
      BY <1>12, Zenon DEF SetActive, Back
    <3> QED
      BY <1>12, <1>c, <2>2, <3>1, <3>2, Moved, Contexts, Zenon
         DEF SetActive, rpwmVars, fwVars
  <2> QED BY <2>1, <2>2, Zenon
<1>13. ASSUME NEW u \in Users, Deny(u) PROVE Core'
  <2>1. u \in Ctx /\ UNCHANGED <<lpsVars, rpwmVars, res, fwVars>>
    BY <1>13, Contexts, Zenon DEF Deny
  <2> QED BY <1>13, <2>1, <1>m, Zenon DEF Deny, Places
<1>14. ASSUME NEW u \in Users, Direct(u) PROVE Core'
  <2>1. u \in Ctx /\ UNCHANGED <<lpsVars, rpwmVars, res, fwVars>>
    BY <1>14, Contexts, Zenon DEF Direct
  <2> QED BY <1>14, <2>1, <1>m, Zenon DEF Direct, Places
<1>15. ASSUME NEW u \in Users, DirectWake(u) PROVE Core'
  BY <1>15, <1>c, <1>s, Raised, Contexts, Zenon DEF DirectWake, lpsVars
<1>16. ASSUME NEW u \in Users, Cancel(u) PROVE Core'
  <2>1. u \in Ctx /\ UNCHANGED <<lpsVars, rpwmVars, res, fwVars>>
    BY <1>16, Contexts, Zenon DEF Cancel
  <2> QED BY <1>16, <2>1, <1>m, Zenon DEF Cancel, Places
<1>17. ASSUME NEW l \in {"NORMAL", "LCLK"}, SetLevel(l) PROVE Core'
  <2>1. Awake
    BY <1>17, <1>c, Contexts, Zenon DEF Core, TaskInv, SetLevel
  <2>2. Awake' = Awake
    BY <1>17, Zenon DEF SetLevel, rpwmVars, fwVars, Awake
  <2> QED
    BY <1>17, <1>c, <2>1, <2>2, Zenon
       DEF Core, BeliefInv, PollInv, TaskInv, SetLevel, rpwmVars, fwVars
<1>18. CASE FwRead
  <2>1. /\ fw_req'.pslv = fw_req.pslv /\ fw_awake' = (fw_req.pslv >= S2)
        /\ UNCHANGED <<rpwm, cpwm, bFwCurrentInPSMode, lps_level, res, at>>
    BY <1>18, Zenon DEF FwRead, lpsVars
  <2>2. Awake => Awake'
    BY <2>1, Zenon DEF Awake
  <2> QED
    BY <1>c, <2>1, <2>2, Zenon DEF Core, BeliefInv, PollInv, TaskInv
<1>19. CASE DevStop
  BY <1>19, <1>d, Zenon DEF DevStop, lpsVars, rpwmVars, fwVars
<1>20. CASE UNCHANGED vars
  BY <1>20, <1>d, Zenon DEF vars, lpsVars, rpwmVars, fwVars
<1> QED
  BY NextCases, <1>1, <1>2, <1>3, <1>4, <1>5, <1>6, <1>7, <1>8, <1>9, <1>10,
     <1>11, <1>12, <1>13, <1>14, <1>15, <1>16, <1>17, <1>18, <1>19, <1>20, Zenon

-----------------------------------------------------------------------------
(* The theorems.                                                           *)

\* The inductive invariant holds in every reachable state.
THEOREM Invariance == Spec => []IInv
<1>1. Init => IInv
  <2> SUFFICES ASSUME Init PROVE IInv
    BY Zenon
  <2>1. TypeOK
    <3>1. 0 \in 0..MaxRetry /\ 0 \in 0..MaxLate
      BY BoundsAssumption
    <3>2. fw_req \in [pslv : {S0, S2, S4}, ack : BOOLEAN, new : BOOLEAN]
      BY Zenon DEF Init, NoReq
    <3>3. at \in [Ctx -> Places] /\ res \in [Tasks -> BOOLEAN]
      BY Zenon DEF Init, Places
    <3> QED BY <3>1, <3>2, <3>3, Zenon DEF Init, TypeOK
  <2>2. LockInv /\ AliveInv
    BY Contexts, Zenon DEF Init, LockInv, AliveInv
  <2>3. Awake /\ fw_req.new = FALSE
    BY DEF Init, Awake, NoReq, S2, S4
  <2>4. ReqInv
    BY <2>3, Zenon DEF Init, ReqInv, Awake
  <2>5. BeliefInv /\ PollInv /\ TaskInv
    BY <2>3, Contexts DEF Init, BeliefInv, PollInv, TaskInv, S0, S2
  <2> QED BY <2>1, <2>2, <2>4, <2>5, Zenon DEF IInv
<1>2. IInv /\ [Next]_vars => IInv'
  <2> SUFFICES ASSUME IInv, [Next]_vars PROVE IInv'
    BY Zenon
  <2>1. TypeOK' /\ LockInv' /\ AliveInv' /\ ReqInv'
    BY TypeStep, LockStep, AliveStep, ReqStep, Zenon DEF IInv
  <2>2. Sound' => Core'
    BY CoreStep, Zenon DEF IInv, Core
  <2> QED BY <2>1, <2>2, Zenon DEF IInv, Core
<1> QED BY <1>1, <1>2, PTL DEF Spec

\* Every variable of power control keeps its type: in particular rpwm_retry
\* never passes LPS_RPWM_RETRY_CNT.
THEOREM TypeCorrect == Spec => []TypeOK
<1>1. IInv => TypeOK
  BY Zenon DEF IInv
<1> QED BY <1>1, Invariance, PTL

\* A task whose rtw_register_*_alive call returned _SUCCESS does its I/O with
\* an awake firmware that has no request to sleep before it.
THEOREM IoSafe == Spec => []IoAwake
<1>1. IInv => IoAwake
  BY Zenon DEF IInv, IoAwake, Sound, TaskInv, Awake
<1> QED BY <1>1, Invariance, PTL

\* rtw_register_cmd_alive and rtw_register_task_alive fail only after a
\* whole poll failed or the device was gone, and only then does
\* halbtcoutsrc_LeaveLowPower go on without the grant.
GrantGiven ==
    \A x \in Tasks :
        at[x] \in {"failed", "blind"} => failed \/ dev = "removed"

\* A registration fails only with the poll or the device: GrantGiven holds
\* for any tasks and users.
THEOREM GrantSafe == Spec => []GrantGiven
<1>1. IInv => GrantGiven
  BY Zenon DEF IInv, GrantGiven, Sound, TaskInv
<1> QED BY <1>1, Invariance, PTL

=============================================================================
