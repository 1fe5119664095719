------------------------------ MODULE ApSleep ------------------------------
(***************************************************************************)
(* Power save on the access-point side: the driver holds back the frames   *)
(* of a dozing station, announces them in the TIM of its beacon, and hands *)
(* them out when the station polls, triggers or wakes.                     *)
(*                                                                         *)
(*   sender        rtw_xmit_posthandle (core/rtw_xmit.c): under            *)
(*                 pxmitpriv->lock a frame goes to sleep_q, otherwise it   *)
(*                 is put on the station's transmit queue in a second      *)
(*                 critical section;                                       *)
(*   receive path  power-management bit, PS-Poll and trigger frames        *)
(*                 (core/rtw_recv.c);                                      *)
(*   cmd thread    tx_beacon_hdl, chk_bmc_sleepq_hdl, rtw_chk_hi_queue_hdl *)
(*                 and the expiry check of associated stations;            *)
(*   leaver        ap_free_sta followed by rtw_free_stainfo.               *)
(*                                                                         *)
(* A station is its association id; id 0 is the station entry of broadcast *)
(* and multicast frames.  What a handler does inside pxmitpriv->lock is    *)
(* one step.  What it does outside is split where another context can come *)
(* between; an update of a bitmap or of psta->state without the lock is a  *)
(* load and a store.  A transmit queue is drained by XmitFlow's machinery, *)
(* here by Transmit.  The bits BIT(0) and BIT(1) of uapsd_xx are always    *)
(* set together, so one set of access categories stands for both.          *)
(***************************************************************************)
EXTENDS Integers, Sequences, FiniteSets, SequencesExt

CONSTANTS
    Stas,        \* association ids of the stations
    AcOrder,     \* the access categories in the order stop_sta_xmit visits
    Be,          \* the category of priority 0, which a PS-Poll carries
    Uapsd,       \* per station, its delivery- and trigger-enabled categories
    LenMod,      \* sleepq_len is an unsigned counter modulo LenMod
    AgeAt,       \* expiry flushes a sleep_q longer than this
    MaxFrames,   \* bound: data frames sent
    MaxBmc,      \* bound: how many of them may be multicast
    MaxMgmt,     \* bound: management frames sent
    MaxNaps,     \* bound: times a station falls asleep
    MaxAlive,    \* bound: alive checks of a sleeping station
    MaxLeaves,   \* bound: stations freed
    MaxBcnFail   \* bound: failures of send_beacon

Bmc == 0
Dests == Stas \cup {Bmc}
Acs == ToSet(AcOrder)
NoSta == -1

ASSUME StasAssumption == Stas \subseteq Nat \ {0} /\ IsFiniteSet(Stas)
ASSUME AcAssumption == Be \in Acs /\ Uapsd \in [Stas -> SUBSET Acs]
ASSUME LenAssumption == LenMod \in Nat /\ MaxFrames < LenMod /\ AgeAt \in Nat

VARIABLES
    sta,             \* "asoc", "leaving" (no longer ASOC) or "gone"
    state,           \* WIFI_SLEEP_STATE and WIFI_STA_ALIVE_CHK_STATE
    sleep_q,         \* frames held back, per destination
    sleepq_len,
    sleepq_ac_len,   \* how many of them are delivery-enabled
    mgmt_sleepq_len, \* management frames held back
    tim_bitmap,
    sta_dz_bitmap,
    txq,             \* frames on the transmit queues, per destination and AC
    mgmt_q,          \* management frames on the transmit queue
    hand,            \* the frame between the two critical sections, or none
    lastTx,          \* id of the last frame transmitted, per destination, AC
    late,            \* ids of frames let through before a nap and queued after
    poll,            \* station whose PS-Poll found sleep_q empty, or NoSta
    open,            \* trigger answered without an end of service period
    cmds,            \* kinds of command queued
    cmd,             \* the command thread: step and what it has loaded
    leave,           \* the leaver: station, step and what it has loaded
    ies,             \* TIM in the beacon template
    bcn,             \* TIM of the beacon on the air
    count            \* the bounded events so far

bits == <<tim_bitmap, sta_dz_bitmap>>
sleepVars == <<sleep_q, sleepq_len, sleepq_ac_len>>
mgmtVars == <<mgmt_sleepq_len, mgmt_q>>
bcnVars == <<ies, cmds>>
orderVars == <<lastTx, late>>
vars == <<sta, state, sleepVars, mgmtVars, bits, txq, hand, orderVars,
          poll, open, bcnVars, cmd, leave, bcn, count>>

Frame == [id : 1..MaxFrames, ac : Acs]
NoFrames == [d \in Dests |-> <<>>]
Awake == [sleep |-> FALSE, alive |-> FALSE]
Idle == [at |-> "idle", map |-> {}, upd |-> FALSE, who |-> NoSta]
Staying == [at |-> "none", map |-> {}, who |-> NoSta]

TypeOK ==
    /\ sta \in [Stas -> {"asoc", "leaving", "gone"}]
    /\ state \in [Stas -> [sleep : BOOLEAN, alive : BOOLEAN]]
    /\ \A d \in Dests : /\ ToSet(sleep_q[d]) \subseteq Frame
                        /\ \A a \in Acs : ToSet(txq[d][a]) \subseteq Frame
    /\ sleepq_len \in [Dests -> 0..LenMod - 1]
    /\ sleepq_ac_len \in [Stas -> 0..LenMod - 1]
    /\ {mgmt_sleepq_len, mgmt_q} \subseteq [Stas -> 0..MaxMgmt]
    /\ tim_bitmap \cup sta_dz_bitmap \cup ies \cup bcn \subseteq Dests
    /\ hand.to \in Dests \cup {NoSta}
    /\ poll \in Stas \cup {NoSta}
    /\ open \in [Stas -> BOOLEAN]
    /\ cmds \subseteq {"beacon", "bmc", "hiq"}
    /\ cmd.at \in {"idle", "bmc", "hiq_tim", "hiq_dz", "alive"}
    /\ leave.at \in {"none", "bcn", "flush", "dz", "dz_store", "tim_store"}

Init ==
    /\ sta = [s \in Stas |-> "asoc"]
    /\ state = [s \in Stas |-> Awake]
    /\ sleep_q = NoFrames
    /\ sleepq_len = [d \in Dests |-> 0]
    /\ sleepq_ac_len = [s \in Stas |-> 0]
    /\ mgmt_sleepq_len = [s \in Stas |-> 0]
    /\ mgmt_q = [s \in Stas |-> 0]
    /\ tim_bitmap = {} /\ sta_dz_bitmap = {} /\ ies = {} /\ bcn = {}
    /\ txq = [d \in Dests |-> [a \in Acs |-> <<>>]]
    /\ hand = [to |-> NoSta]
    /\ lastTx = [d \in Dests |-> [a \in Acs |-> 0]]
    /\ poll = NoSta /\ late = {}
    /\ open = [s \in Stas |-> FALSE]
    /\ cmds = {} /\ cmd = Idle /\ leave = Staying
    /\ count = [frame |-> 0, bmc |-> 0, mgmt |-> 0, nap |-> 0, alive |-> 0,
                leave |-> 0, fail |-> 0]

-----------------------------------------------------------------------------
(* Helpers.                                                                *)

Plus(a, n) == (a + n) % LenMod
\* The counter as a signed integer.
Minus_Signed(a, n) == a - n

Minus(a, n) == (a - n) % LenMod

has_legacy_ac(s) == Uapsd[s] # Acs
wmmps_ac(s, f) == f.ac \in Uapsd[s]
WmmpsLen(s, fs) == Len(SelectSeq(fs, LAMBDA f : wmmps_ac(s, f)))

\* Only frames of legacy categories set the TIM bit.
SignalsTim_LegacyOnly(d, f) == d = Bmc \/ ~wmmps_ac(d, f)

\* Whether holding f back for d sets the TIM bit of d.
SignalsTim(d, f) ==
    \/ d = Bmc
    \/ has_legacy_ac(d) /\ ~wmmps_ac(d, f)
    \/ ~has_legacy_ac(d) /\ wmmps_ac(d, f)

\* The bitmap becomes map; _update_beacon copies it to the template and
\* queues a beacon command if upd; further commands are queued with it.
SetTim(map, upd, more) ==
    /\ tim_bitmap' = map
    /\ ies' = IF upd THEN map ELSE ies
    /\ cmds' = cmds \cup more \cup (IF upd THEN {"beacon"} ELSE {})

\* xmitframe_enqueue_for_sleeping_sta, for all frames of add: each goes to
\* its destination's sleep_q, and the TIM follows.  mgmt are the stations for
\* which mgmt_xmitframe_enqueue_for_sleeping_sta holds frames back as well.
Buffer(add, mgmt) ==
    LET map == tim_bitmap \cup mgmt \cup
               {d \in Dests : \E f \in ToSet(add[d]) : SignalsTim(d, f)}
        again == IF Bmc \in tim_bitmap THEN 1 ELSE 2
    IN  /\ sleep_q' = [d \in Dests |-> sleep_q[d] \o add[d]]
        /\ sleepq_len' = [d \in Dests |-> Plus(sleepq_len[d], Len(add[d]))]
        /\ sleepq_ac_len' =
             [s \in Stas |-> Plus(sleepq_ac_len[s], WmmpsLen(s, add[s]))]
        /\ SetTim(map, map # tim_bitmap,
                  IF Len(add[Bmc]) >= again THEN {"bmc"} ELSE {})

\* Move the frames of out from sleep_q, which keeps rest, to the transmit
\* queues (rtw_hal_xmitframe_enqueue, which frees the frame of a station that
\* is no longer associated).
Release(out, rest) ==
    /\ sleep_q' = rest
    /\ sleepq_len' = [d \in Dests |-> Minus(sleepq_len[d], Len(out[d]))]
    /\ txq' = [d \in Dests |->
                 IF d # Bmc /\ sta[d] # "asoc" THEN txq[d]
                 ELSE [a \in Acs |-> txq[d][a] \o
                         SelectSeq(out[d], LAMBDA f : f.ac = a)]]

Pending(d) ==
    FlattenSeq([i \in 1..Len(AcOrder) |-> txq[d][AcOrder[i]]])

Tick(what) == count' = [count EXCEPT ![what] = @ + 1]

-----------------------------------------------------------------------------
(* The sender.                                                             *)

\* rtw_xmit_posthandle, first critical section: hold the frame back or keep
\* it for the second.  A multicast frame is held while any bit of the doze
\* map is set, bit 0 included.
PostHandle(d, a) ==
    LET f == [id |-> count.frame + 1, ac |-> a]
        dozing == IF d = Bmc THEN sta_dz_bitmap # {}
                  ELSE state[d].sleep /\ d \in sta_dz_bitmap
    IN  /\ hand.to = NoSta
        /\ count.frame < MaxFrames
        /\ d = Bmc => count.bmc < MaxBmc
        /\ d # Bmc => sta[d] = "asoc"
        /\ count' = [count EXCEPT !.frame = @ + 1,
                                  !.bmc = IF d = Bmc THEN @ + 1 ELSE @]
        /\ \/ /\ dozing
              /\ Buffer([NoFrames EXCEPT ![d] = <<f>>], {})
              /\ sta_dz_bitmap' = sta_dz_bitmap \cup
                                  (IF d = Bmc THEN {Bmc} ELSE {})
              /\ UNCHANGED hand
           \/ /\ ~dozing
              /\ hand' = [to |-> d, f |-> f]
              /\ UNCHANGED <<sleepVars, bits, bcnVars>>
        /\ UNCHANGED <<sta, state, mgmtVars, txq, orderVars, poll, open, cmd,
                       leave, bcn>>

\* rtw_hal_xmit, second critical section: the frame joins its transmit queue
\* without another look at the doze state; rtw_xmit_classifier drops it if
\* the station is no longer associated.
Enqueue ==
    /\ hand.to # NoSta
    /\ hand' = [to |-> NoSta]
    /\ txq' = IF hand.to # Bmc /\ sta[hand.to] # "asoc" THEN txq
              ELSE [txq EXCEPT ![hand.to][hand.f.ac] = Append(@, hand.f)]
    /\ UNCHANGED <<sta, state, sleepVars, mgmtVars, bits, orderVars, poll, open,
                   bcnVars, cmd, leave, bcn, count>>

\* The transmit path takes the head of a transmit queue.
Transmit(d, a) ==
    /\ txq[d][a] # <<>>
    /\ lastTx' = [lastTx EXCEPT ![d][a] = IF Head(txq[d][a]).id \in late THEN @
                                         ELSE Head(txq[d][a]).id]
    /\ txq' = [txq EXCEPT ![d][a] = Tail(@)]
    /\ UNCHANGED <<sta, state, sleepVars, mgmtVars, bits, hand, late, poll, open,
                   bcnVars, cmd, leave, bcn, count>>

\* rtw_hal_mgnt_xmit: held back for a dozing station, else sent at once.
MgntXmit(s) ==
    /\ count.mgmt < MaxMgmt
    /\ Tick("mgmt")
    /\ \/ /\ sta[s] = "asoc" /\ state[s].sleep /\ s \in sta_dz_bitmap
          /\ mgmt_sleepq_len' = [mgmt_sleepq_len EXCEPT ![s] = @ + 1]
          /\ SetTim(tim_bitmap \cup {s}, s \notin tim_bitmap, {})
       \/ /\ ~(sta[s] = "asoc" /\ state[s].sleep /\ s \in sta_dz_bitmap)
          /\ UNCHANGED <<mgmt_sleepq_len, tim_bitmap, bcnVars>>
    /\ UNCHANGED <<sta, state, sleepVars, mgmt_q, sta_dz_bitmap, txq, hand,
                   orderVars, poll, open, cmd, leave, bcn>>

\* rtw_dequeue_mgmt_xframe: the tasklet sends a queued management frame.
TransmitMgmt(s) ==
    /\ mgmt_q[s] > 0
    /\ mgmt_q' = [mgmt_q EXCEPT ![s] = @ - 1]
    /\ UNCHANGED <<sta, state, sleepVars, mgmt_sleepq_len, bits, txq, hand,
                   orderVars, poll, open, bcnVars, cmd, leave, bcn, count>>

Sender ==
    \/ \E d \in Dests, a \in Acs : PostHandle(d, a) \/ Transmit(d, a)
    \/ Enqueue
    \/ \E s \in Stas : MgntXmit(s) \/ TransmitMgmt(s)

-----------------------------------------------------------------------------
(* The receive path.                                                       *)

\* The station entry is still in the hash table.
Hashed(s) == sta[s] # "gone" /\ ~(leave.who = s /\ leave.at \in
                                  {"dz", "dz_store", "tim_store"})

\* stop_sta_xmit inserting at the head of sleep_q.
StopStaXmit_Lifo(s) ==
    LET held == [NoFrames EXCEPT ![s] = Reverse(Pending(s)),
                                 ![Bmc] = Pending(Bmc)]
    IN  /\ state' = [state EXCEPT ![s].sleep = TRUE]
        /\ Buffer(held, {})
        /\ txq' = [txq EXCEPT ![s] = [a \in Acs |-> <<>>],
                              ![Bmc] = [a \in Acs |-> <<>>]]
        /\ mgmt_q' = [mgmt_q EXCEPT ![s] = 0]
        /\ mgmt_sleepq_len' = mgmt_sleepq_len
        /\ sta_dz_bitmap' = sta_dz_bitmap \cup {s} \cup
                            (IF held[Bmc] # <<>> THEN {Bmc} ELSE {})

\* stop_sta_xmit: s dozes; what its queues and the multicast queues hold is
\* held back.  The frames of a station that is no longer associated stay
\* where only the flush finds them.
StopStaXmit(s) ==
    LET held == [NoFrames EXCEPT
                   ![s] = IF sta[s] = "asoc" THEN Pending(s) ELSE <<>>,
                   ![Bmc] = Pending(Bmc)]
        mgmt == IF sta[s] = "asoc" THEN mgmt_q[s] ELSE 0
    IN  /\ state' = [state EXCEPT ![s].sleep = TRUE]
        /\ Buffer(held, IF mgmt > 0 THEN {s} ELSE {})
        /\ txq' = [txq EXCEPT ![s] = [a \in Acs |-> <<>>],
                              ![Bmc] = [a \in Acs |-> <<>>]]
        /\ mgmt_q' = [mgmt_q EXCEPT ![s] = 0]
        /\ mgmt_sleepq_len' = [mgmt_sleepq_len EXCEPT ![s] = @ + mgmt]
        /\ sta_dz_bitmap' = sta_dz_bitmap \cup {s} \cup
                            (IF held[Bmc] # <<>> THEN {Bmc} ELSE {})

\* wakeup_sta_to_xmit that forgets the doze bit.
WakeupSta_KeepsDoze(s) ==
    /\ Release([NoFrames EXCEPT ![s] = sleep_q[s]],
               [sleep_q EXCEPT ![s] = <<>>])
    /\ sleepq_ac_len' = [sleepq_ac_len EXCEPT
                           ![s] = Minus(@, WmmpsLen(s, sleep_q[s]))]
    /\ state' = [state EXCEPT ![s] = Awake]
    /\ SetTim(tim_bitmap \ {s}, s \in tim_bitmap, {})
    /\ mgmt_q' = [mgmt_q EXCEPT ![s] = @ + mgmt_sleepq_len[s]]
    /\ mgmt_sleepq_len' = [mgmt_sleepq_len EXCEPT ![s] = 0]
    /\ UNCHANGED sta_dz_bitmap

\* wakeup_sta_to_xmit that counts down sleepq_len only, and leaves the
\* management frames where they are.
WakeupSta_DataOnly(s) ==
    /\ Release([NoFrames EXCEPT ![s] = sleep_q[s]],
               [sleep_q EXCEPT ![s] = <<>>])
    /\ state' = [state EXCEPT ![s] = Awake]
    /\ SetTim(tim_bitmap \ {s}, s \in tim_bitmap, {})
    /\ sta_dz_bitmap' = sta_dz_bitmap \ {s}
    /\ UNCHANGED <<sleepq_ac_len, mgmtVars>>

\* wakeup_sta_to_xmit: everything held back for s is queued again; s counts
\* as awake if sleepq_len has come down to 0; if nobody dozes any more, the
\* multicast frames go too.
WakeupSta(s) ==
    LET empty == Minus(sleepq_len[s], Len(sleep_q[s])) = 0
        dz == IF empty THEN sta_dz_bitmap \ {s} ELSE sta_dz_bitmap
        nobody == dz \ {Bmc} = {}
        bempty == nobody /\ Minus(sleepq_len[Bmc], Len(sleep_q[Bmc])) = 0
        clear == (IF empty THEN {s} ELSE {}) \cup
                 (IF bempty THEN {Bmc} ELSE {})
        out == [NoFrames EXCEPT
                  ![s] = sleep_q[s],
                  ![Bmc] = IF nobody THEN sleep_q[Bmc] ELSE <<>>]
    IN  /\ Release(out, [d \in Dests |->
                           IF d = s \/ (d = Bmc /\ nobody) THEN <<>>
                           ELSE sleep_q[d]])
        /\ sleepq_ac_len' = [sleepq_ac_len EXCEPT
                               ![s] = Minus(@, WmmpsLen(s, sleep_q[s]))]
        /\ mgmt_q' = [mgmt_q EXCEPT
                        ![s] = IF sta[s] = "asoc" THEN @ + mgmt_sleepq_len[s]
                               ELSE @]
        /\ mgmt_sleepq_len' = [mgmt_sleepq_len EXCEPT ![s] = 0]
        /\ state' = IF empty THEN [state EXCEPT ![s] = Awake] ELSE state
        /\ sta_dz_bitmap' = dz \ (IF bempty THEN {Bmc} ELSE {})
        /\ SetTim(tim_bitmap \ clear, clear \cap tim_bitmap # {}, {})

\* process_pwrbit_data, bit set and bit clear.
PwrBitOn(s) ==
    /\ poll = NoSta
    /\ Hashed(s)
    /\ ~state[s].sleep
    /\ count.nap < MaxNaps
    /\ Tick("nap")
    /\ StopStaXmit(s)
    /\ late' = late \cup {hand.f.id : x \in {hand.to} \cap {s}}
    /\ UNCHANGED <<sta, hand, lastTx, poll, open, cmd, leave, bcn>>

PwrBitOff(s) ==
    /\ poll = NoSta
    /\ Hashed(s)
    /\ state[s].sleep
    /\ WakeupSta(s)
    /\ UNCHANGED <<sta, hand, orderVars, poll, open, cmd, leave, bcn, count>>

\* PS-Poll (validate_recv_ctrl_frame): one frame, from the head; the TIM bit
\* goes with the last.  An empty sleep_q is dealt with after the unlock.
PsPoll(s) ==
    /\ poll = NoSta
    /\ Hashed(s) /\ Be \notin Uapsd[s]
    /\ state' = [state EXCEPT ![s].alive = FALSE]
    /\ \/ /\ state[s].sleep /\ s \in sta_dz_bitmap /\ sleep_q[s] # <<>>
          /\ Release([NoFrames EXCEPT ![s] = <<Head(sleep_q[s])>>],
                     [sleep_q EXCEPT ![s] = Tail(@)])
          /\ LET last == sleepq_len'[s] = 0
             IN  SetTim(IF last THEN tim_bitmap \ {s} ELSE tim_bitmap, last,
                        {})
          /\ UNCHANGED poll
       \/ /\ state[s].sleep /\ s \in sta_dz_bitmap /\ sleep_q[s] = <<>>
          /\ poll' = s
          /\ UNCHANGED <<sleep_q, sleepq_len, txq, tim_bitmap, bcnVars>>
       \/ /\ ~(state[s].sleep /\ s \in sta_dz_bitmap)
          /\ UNCHANGED <<sleep_q, sleepq_len, txq, tim_bitmap, bcnVars, poll>>
    /\ UNCHANGED <<sta, sleepq_ac_len, mgmtVars, sta_dz_bitmap, hand, orderVars,
                   open, cmd, leave, bcn, count>>

\* The rest of a PS-Poll that found nothing: if the TIM bit is set, answer
\* with a null frame (or, if the counter disagrees, reset it) and clear it.
PollNothing(s) ==
    /\ poll = s
    /\ poll' = NoSta
    /\ \/ /\ s \in tim_bitmap
          /\ sleepq_len' = [sleepq_len EXCEPT ![s] = 0]
          /\ SetTim(tim_bitmap \ {s}, TRUE, {})
       \/ /\ s \notin tim_bitmap
          /\ UNCHANGED <<sleepq_len, tim_bitmap, bcnVars>>
    /\ UNCHANGED <<sta, state, sleep_q, sleepq_ac_len, mgmtVars,
                   sta_dz_bitmap, txq, hand, orderVars, open, cmd, leave, bcn,
                   count>>

\* A trigger frame that fetches one frame, as a PS-Poll does.
Trigger_One(s) ==
    /\ poll = NoSta
    /\ Hashed(s) /\ Uapsd[s] # {} /\ state[s].sleep
    /\ sleep_q[s] # <<>> /\ wmmps_ac(s, Head(sleep_q[s]))
    /\ Release([NoFrames EXCEPT ![s] = <<Head(sleep_q[s])>>],
               [sleep_q EXCEPT ![s] = Tail(@)])
    /\ sleepq_ac_len' = [sleepq_ac_len EXCEPT ![s] = Minus(@, 1)]
    /\ open' = [open EXCEPT ![s] = sleepq_ac_len'[s] > 0]
    /\ LET clear == sleepq_ac_len'[s] = 0
       IN  SetTim(IF clear THEN tim_bitmap \ {s} ELSE tim_bitmap, clear, {})
    /\ UNCHANGED <<sta, state, mgmtVars, sta_dz_bitmap, hand, orderVars, poll,
                   cmd, leave, bcn, count>>

\* A trigger frame that leaves the TIM bit alone.
Trigger_KeepsTim(s) ==
    LET out == SelectSeq(sleep_q[s], LAMBDA f : wmmps_ac(s, f))
    IN  /\ poll = NoSta
        /\ Hashed(s) /\ Uapsd[s] # {} /\ state[s].sleep
        /\ sleepq_ac_len[s] > 0
        /\ Release([NoFrames EXCEPT ![s] = out],
                   [sleep_q EXCEPT
                      ![s] = SelectSeq(@, LAMBDA f : ~wmmps_ac(s, f))])
        /\ sleepq_ac_len' = [sleepq_ac_len EXCEPT ![s] = Minus(@, Len(out))]
        /\ open' = [open EXCEPT ![s] = FALSE]
        /\ UNCHANGED <<sta, state, mgmtVars, bits, hand, orderVars, poll,
                       bcnVars, cmd, leave, bcn, count>>

\* process_wmmps_data: a trigger frame in a trigger-enabled category.  With
\* delivery-enabled frames counted, xmit_delivery_enabled_frames sends them
\* all, the one that brings the count to 0 with EOSP set; otherwise a QoS
\* null with EOSP is sent.
Trigger(s) ==
    LET out == SelectSeq(sleep_q[s], LAMBDA f : wmmps_ac(s, f))
        left == Minus(sleepq_ac_len[s], Len(out))
        ended == out # <<>> /\ left = 0
    IN  /\ poll = NoSta
        /\ Hashed(s) /\ Uapsd[s] # {} /\ state[s].sleep
        /\ \/ /\ sleepq_ac_len[s] > 0
              /\ Release([NoFrames EXCEPT ![s] = out],
                         [sleep_q EXCEPT
                            ![s] = SelectSeq(@, LAMBDA f : ~wmmps_ac(s, f))])
              /\ sleepq_ac_len' = [sleepq_ac_len EXCEPT ![s] = left]
              /\ open' = [open EXCEPT ![s] = ~ended]
              /\ LET clear == ended /\ ~has_legacy_ac(s)
                 IN  SetTim(IF clear THEN tim_bitmap \ {s} ELSE tim_bitmap,
                            clear, {})
           \/ /\ sleepq_ac_len[s] = 0
              /\ open' = [open EXCEPT ![s] = FALSE]
              /\ UNCHANGED <<sleepVars, txq, tim_bitmap, bcnVars>>
        /\ UNCHANGED <<sta, state, mgmtVars, sta_dz_bitmap, hand, orderVars,
                       poll, cmd, leave, bcn, count>>

Receive ==
    \E s \in Stas : \/ PwrBitOn(s) \/ PwrBitOff(s)
                    \/ PsPoll(s) \/ PollNothing(s) \/ Trigger(s)

-----------------------------------------------------------------------------
(* The command thread.                                                     *)

\* The check of chk_bmc_sleepq_hdl, made before its sleep and its lock.
ChkBmc == IF Bmc \in tim_bitmap /\ sleepq_len[Bmc] > 0
          THEN [Idle EXCEPT !.at = "bmc"] ELSE Idle

\* tx_beacon_hdl that sends no beacon.
TxBeacon_Skips ==
    /\ cmd.at = "idle" /\ "beacon" \in cmds
    /\ cmds' = cmds \ {"beacon"}
    /\ cmd' = ChkBmc
    /\ UNCHANGED <<sta, state, sleepVars, mgmtVars, bits, txq, hand, orderVars,
                   poll, open, ies, leave, bcn, count>>

\* tx_beacon_hdl: send_beacon puts the template on the air, and the
\* multicast frames follow; when it fails they do not.
TxBeacon ==
    /\ cmd.at = "idle" /\ "beacon" \in cmds
    /\ cmds' = cmds \ {"beacon"}
    /\ \/ /\ bcn' = ies
          /\ cmd' = ChkBmc
          /\ UNCHANGED count
       \/ /\ count.fail < MaxBcnFail
          /\ Tick("fail")
          /\ UNCHANGED <<bcn, cmd>>
    /\ UNCHANGED <<sta, state, sleepVars, mgmtVars, bits, txq, hand, orderVars,
                   poll, open, ies, leave>>

ChkBmcSleepq ==
    /\ cmd.at = "idle" /\ "bmc" \in cmds
    /\ cmds' = cmds \ {"bmc"}
    /\ cmd' = ChkBmc
    /\ UNCHANGED <<sta, state, sleepVars, mgmtVars, bits, txq, hand, orderVars,
                   poll, open, ies, leave, bcn, count>>

\* chk_bmc_sleepq_hdl after its sleep: send the multicast frames, then have
\* the hardware's high queue checked.
DrainBmc ==
    /\ cmd.at = "bmc"
    /\ Release([NoFrames EXCEPT ![Bmc] = sleep_q[Bmc]],
               [sleep_q EXCEPT ![Bmc] = <<>>])
    /\ cmds' = cmds \cup {"hiq"}
    /\ cmd' = Idle
    /\ UNCHANGED <<sta, state, sleepq_ac_len, mgmtVars, bits, hand, orderVars,
                   poll, open, ies, leave, bcn, count>>

\* rtw_chk_hi_queue_hdl: nothing here holds pxmitpriv->lock.  If no
\* multicast frame is held back and the high queue is empty, bit 0 of both
\* bitmaps is cleared; the high queue not being empty, look again.
ChkHiQueue ==
    /\ cmd.at = "idle" /\ "hiq" \in cmds
    /\ \/ /\ sleepq_len[Bmc] # 0
          /\ cmds' = cmds \ {"hiq"}
          /\ UNCHANGED cmd
       \/ /\ sleepq_len[Bmc] = 0
          /\ UNCHANGED <<cmds, cmd>>
       \/ /\ sleepq_len[Bmc] = 0
          /\ cmds' = cmds \ {"hiq"}
          /\ cmd' = [Idle EXCEPT !.at = "hiq_tim", !.map = tim_bitmap,
                                 !.upd = Bmc \in tim_bitmap]
    /\ UNCHANGED <<sta, state, sleepVars, mgmtVars, bits, txq, hand, orderVars,
                   poll, open, ies, leave, bcn, count>>

HiQueueTim ==
    /\ cmd.at = "hiq_tim"
    /\ tim_bitmap' = cmd.map \ {Bmc}
    /\ cmd' = [cmd EXCEPT !.at = "hiq_dz", !.map = sta_dz_bitmap]
    /\ UNCHANGED <<sta, state, sleepVars, mgmtVars, sta_dz_bitmap, txq, hand,
                   orderVars, poll, open, bcnVars, leave, bcn, count>>

HiQueueDz ==
    /\ cmd.at = "hiq_dz"
    /\ sta_dz_bitmap' = cmd.map \ {Bmc}
    /\ SetTim(tim_bitmap, cmd.upd, {})
    /\ cmd' = Idle
    /\ UNCHANGED <<sta, state, sleepVars, mgmtVars, txq, hand, orderVars, poll,
                   open, leave, bcn, count>>

\* expire_timeout_chk: the alive check of a dozing station sets
\* WIFI_STA_ALIVE_CHK_STATE in a word other contexts write, and the TIM bit.
AliveLoad(s) ==
    /\ cmd.at = "idle"
    /\ sta[s] = "asoc" /\ state[s].sleep /\ ~state[s].alive
    /\ count.alive < MaxAlive
    /\ Tick("alive")
    /\ cmd' = [Idle EXCEPT !.at = "alive", !.who = s]
    /\ UNCHANGED <<sta, state, sleepVars, mgmtVars, bits, txq, hand, orderVars,
                   poll, open, bcnVars, leave, bcn>>

AliveStore ==
    /\ cmd.at = "alive"
    /\ state' = [state EXCEPT ![cmd.who] = [sleep |-> TRUE, alive |-> TRUE]]
    /\ SetTim(tim_bitmap \cup {cmd.who}, TRUE, {})
    /\ cmd' = Idle
    /\ UNCHANGED <<sta, sleepVars, mgmtVars, sta_dz_bitmap, txq, hand,
                   orderVars, poll, open, leave, bcn, count>>

\* expire_timeout_chk: a sleep_q that has grown too long is sent.
Age(s) ==
    /\ cmd.at = "idle"
    /\ sta[s] = "asoc"
    /\ sleepq_len[s] > AgeAt
    /\ WakeupSta(s)
    /\ UNCHANGED <<sta, hand, orderVars, poll, open, cmd, leave, bcn, count>>

CmdThread ==
    \/ TxBeacon \/ ChkBmcSleepq \/ DrainBmc
    \/ ChkHiQueue \/ HiQueueTim \/ HiQueueDz
    \/ AliveStore
    \/ \E s \in Stas : AliveLoad(s) \/ Age(s)

-----------------------------------------------------------------------------
(* A station leaves, and comes back under the same association id.         *)

\* ap_free_sta: no longer associated; bss_cap_update_on_sta_leave takes the
\* station out of the TIM.  The station list is locked during expiry.
ApFreeSta(s) ==
    /\ leave.at = "none" /\ cmd.at # "alive"
    /\ sta[s] = "asoc"
    /\ count.leave < MaxLeaves
    /\ Tick("leave")
    /\ sta' = [sta EXCEPT ![s] = "leaving"]
    /\ leave' = [at |-> IF s \in tim_bitmap THEN "bcn" ELSE "flush",
                 map |-> IF s \in tim_bitmap THEN tim_bitmap ELSE {},
                 who |-> s]
    /\ UNCHANGED <<state, sleepVars, mgmtVars, bits, txq, hand, orderVars, poll,
                   open, bcnVars, cmd, bcn>>

LeaveBeacon ==
    /\ leave.at = "bcn"
    /\ SetTim(leave.map \ {leave.who}, TRUE, {})
    /\ leave' = [leave EXCEPT !.at = "flush", !.map = {}]
    /\ UNCHANGED <<sta, state, sleepVars, mgmtVars, sta_dz_bitmap, txq, hand,
                   orderVars, poll, open, cmd, bcn, count>>

\* rtw_free_stainfo_flush_xmit that forgets sleep_q.
FlushXmit_KeepsSleepq ==
    /\ leave.at = "flush"
    /\ txq' = [txq EXCEPT ![leave.who] = [a \in Acs |-> <<>>]]
    /\ mgmt_sleepq_len' = [mgmt_sleepq_len EXCEPT ![leave.who] = 0]
    /\ mgmt_q' = [mgmt_q EXCEPT ![leave.who] = 0]
    /\ leave' = [leave EXCEPT !.at = "dz"]
    /\ UNCHANGED <<sta, state, sleepVars, bits, hand, orderVars, poll, open,
                   bcnVars, cmd, bcn, count>>

\* rtw_free_stainfo: out of the hash table, then rtw_free_stainfo_flush_xmit.
FlushXmit ==
    LET s == leave.who
    IN  /\ leave.at = "flush"
        /\ sleep_q' = [sleep_q EXCEPT ![s] = <<>>]
        /\ sleepq_len' = [sleepq_len EXCEPT ![s] = 0]
        /\ sleepq_ac_len' = [sleepq_ac_len EXCEPT ![s] = 0]
        /\ txq' = [txq EXCEPT ![s] = [a \in Acs |-> <<>>]]
        /\ mgmt_sleepq_len' = [mgmt_sleepq_len EXCEPT ![s] = 0]
        /\ mgmt_q' = [mgmt_q EXCEPT ![s] = 0]
        /\ leave' = [leave EXCEPT !.at = "dz"]
        /\ UNCHANGED <<sta, state, bits, hand, orderVars, poll, open, bcnVars,
                       cmd, bcn, count>>

\* rtw_free_stainfo clears the station's bits, without pxmitpriv->lock, and
\* then gives its association id back.
LoadDz ==
    /\ leave.at = "dz"
    /\ leave' = [leave EXCEPT !.at = "dz_store", !.map = sta_dz_bitmap]
    /\ UNCHANGED <<sta, state, sleepVars, mgmtVars, bits, txq, hand, orderVars,
                   poll, open, bcnVars, cmd, bcn, count>>

StoreDz ==
    /\ leave.at = "dz_store"
    /\ sta_dz_bitmap' = leave.map \ {leave.who}
    /\ leave' = [leave EXCEPT !.at = "tim_store", !.map = tim_bitmap]
    /\ UNCHANGED <<sta, state, sleepVars, mgmtVars, tim_bitmap, txq, hand,
                   orderVars, poll, open, bcnVars, cmd, bcn, count>>

StoreTim ==
    /\ leave.at = "tim_store"
    /\ tim_bitmap' = leave.map \ {leave.who}
    /\ sta' = [sta EXCEPT ![leave.who] = "gone"]
    /\ leave' = Staying
    /\ UNCHANGED <<state, sleepVars, mgmtVars, sta_dz_bitmap, txq, hand,
                   orderVars, poll, open, bcnVars, cmd, bcn, count>>

\* A fresh station entry takes the association id.
Associate(s) ==
    /\ sta[s] = "gone"
    /\ sta' = [sta EXCEPT ![s] = "asoc"]
    /\ state' = [state EXCEPT ![s] = Awake]
    /\ open' = [open EXCEPT ![s] = FALSE]
    /\ lastTx' = [lastTx EXCEPT ![s] = [a \in Acs |-> 0]]
    /\ UNCHANGED <<sleepVars, mgmtVars, bits, txq, hand, late, poll, bcnVars,
                   cmd, leave, bcn, count>>

Leaver ==
    \/ \E s \in Stas : ApFreeSta(s) \/ Associate(s)
    \/ LeaveBeacon \/ FlushXmit \/ LoadDz \/ StoreDz \/ StoreTim

-----------------------------------------------------------------------------
Next == Sender \/ Receive \/ CmdThread \/ Leaver

Spec == Init /\ [][Next]_vars

(***************************************************************************)
(* Fairness.  The command thread runs its queue in order, so a command is  *)
(* not passed over for ever, and the tasklet empties the transmit queues   *)
(* (CmdThread, XmitFlow); a caller finishes the handler it is in.  A       *)
(* station, outside the driver, retrieves what the beacon on the air       *)
(* announces: by PS-Poll, or with a trigger frame if all of its categories *)
(* are trigger-enabled.                                                    *)
(***************************************************************************)
Retrieve(s) == s \in bcn /\ (PsPoll(s) \/ (~has_legacy_ac(s) /\ Trigger(s)))

Fairness ==
    /\ WF_vars(Enqueue)
    /\ \A d \in Dests, a \in Acs : WF_vars(Transmit(d, a))
    /\ SF_vars(TxBeacon) /\ SF_vars(ChkBmcSleepq) /\ WF_vars(DrainBmc)
    /\ WF_vars(HiQueueTim) /\ WF_vars(HiQueueDz) /\ WF_vars(AliveStore)
    /\ \A s \in Stas : WF_vars(PollNothing(s)) /\ SF_vars(Retrieve(s))

LiveSpec == Spec /\ Fairness

-----------------------------------------------------------------------------
(* Properties.                                                             *)

\* What s holds back and must learn of from the beacon.
NeedsTim(s) == IF has_legacy_ac(s)
               THEN \E f \in ToSet(sleep_q[s]) : ~wmmps_ac(s, f)
               ELSE sleep_q[s] # <<>>

\* In one category, the frames of a station are transmitted in the order in
\* which they were accepted, whatever naps, polls, triggers and expiry do to
\* them: those on the transmit queue precede those held back, which precede
\* the one in the sender's hand.  The one exception is a frame that
\* rtw_xmit_posthandle let through before the station dozed and that joins
\* the transmit queue after.
InOrder ==
    \A s \in Stas, a \in Acs :
        LET mine(fs) == SelectSeq(fs, LAMBDA f : f.ac = a /\ f.id \notin late)
            all == mine(txq[s][a] \o sleep_q[s] \o
                        (IF hand.to = s THEN <<hand.f>> ELSE <<>>))
        IN  \A i \in 1..Len(all) :
                all[i].id > (IF i = 1 THEN lastTx[s][a] ELSE all[i - 1].id)

\* Nothing stays behind in the sleep queues of a station the driver takes
\* to be awake (wakeup_sta_to_xmit), for only its next nap would free it.
AwakeHoldsNothing ==
    \A s \in Stas : sta[s] = "asoc" /\ ~state[s].sleep =>
                        sleep_q[s] = <<>> /\ mgmt_sleepq_len[s] = 0

\* An association id given back leaves nothing for the next station that
\* gets it (rtw_free_stainfo_flush_xmit against late senders).
GoneHoldsNothing ==
    \A s \in Stas : sta[s] = "gone" =>
        /\ sleep_q[s] = <<>> /\ sleepq_len[s] = 0 /\ sleepq_ac_len[s] = 0
        /\ mgmt_sleepq_len[s] = 0 /\ mgmt_q[s] = 0
        /\ \A a \in Acs : txq[s][a] = <<>>

\* The two marks of a dozing station agree: WIFI_SLEEP_STATE in its entry and
\* its bit in sta_dz_bitmap.  A frame is held back only if both are set, and
\* a multicast frame if any bit is.
DozeAgrees ==
    \A s \in Stas : sta[s] = "asoc" => (state[s].sleep <=> s \in sta_dz_bitmap)

\* The counters tell what sleep_q holds; PS-Poll takes the opposite for an
\* error, and the more-data and end-of-service-period bits are set by them.
LenAgrees ==
    \A s \in Stas : /\ sleepq_len[s] = Len(sleep_q[s])
                    /\ sleepq_ac_len[s] = WmmpsLen(s, sleep_q[s])

\* A station with frames it can only learn of from the beacon is in the TIM.
HeldIsSignalled == \A s \in Stas : NeedsTim(s) => s \in tim_bitmap

\* A station in the TIM has something to fetch.
SignalledIsHeld ==
    \A s \in Stas : s \in tim_bitmap =>
                        sleep_q[s] # <<>> \/ mgmt_sleepq_len[s] > 0

\* The beacon on the air follows the bitmap: if they differ, a beacon
\* command is queued that will make them equal.
BeaconFollows ==
    /\ bcn # tim_bitmap => "beacon" \in cmds
    /\ ies = tim_bitmap

\* A trigger frame is answered by an end of service period, after which the
\* station may doze again (process_wmmps_data).
ServicePeriodEnds == \A s \in Stas : ~open[s]

\* When PS-Poll answers with the null frame that says nothing is buffered,
\* no management frame is buffered either.
NullIsHonest ==
    [][\A s \in Stas : poll = s /\ poll' = NoSta /\ s \in tim_bitmap
                            /\ sleepq_len[s] = 0
                        => mgmt_sleepq_len[s] = 0]_vars

\* The multicast frames held back are sent after the beacon that announces
\* them (tx_beacon_hdl, chk_bmc_sleepq_hdl).
BmcLeaves == (sleep_q[Bmc] # <<>>) ~> (sleep_q[Bmc] = <<>>)

\* A frame held back for a station reaches the transmit queue, if the station
\* fetches what the beacon announces: the TIM bit, the beacon command and
\* the trigger handler together leave no frame behind.
HeldLeaves == \A s \in Stas : NeedsTim(s) ~> ~NeedsTim(s)
=============================================================================
