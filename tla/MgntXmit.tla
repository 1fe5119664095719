------------------------------ MODULE MgntXmit ------------------------------
(***************************************************************************)
(* Management frames and those who wait for them (core/rtw_mlme_ext.c,     *)
(* dump_mgntframe and its two waiting variants).  A frame travels in a     *)
(* buffer of the extension pool: straight to the USB core, or through the  *)
(* queues of a sleeping station.                                           *)
(*                                                                         *)
(* dump_mgntframe_and_wait waits for the URB: the buffer points to a       *)
(* submit_ctx on the caller's stack.  dump_mgntframe_and_wait_ack waits    *)
(* for the firmware's CCX report: there is one submit_ctx for all callers, *)
(* ack_tx_ops, and one caller at a time, the holder of ack_tx_mutex.       *)
(*                                                                         *)
(* Abstracted: a frame and its buffer are one, one station, why a          *)
(* submission fails.  A call that finds the pool empty changes nothing and *)
(* is left out.  A wait for ack_tx_mutex is not cut short by a signal.     *)
(***************************************************************************)
EXTENDS Naturals, FiniteSets

CONSTANTS
    Bufs,      \* the xmit_buf extension pool: NR_XMIT_EXTBUFF of them
    Ctxs,      \* contexts that send management frames
    Kinds,     \* the variants of dump_mgntframe each context calls
    Tasklet,   \* xmit_tasklet
    CanStop,   \* bound: whether the driver is ever stopped
    CanLeave,  \* bound: whether the station may be freed and come back
    Calls,     \* bound: names of calls whose frame or caller is around
    MaxNaps,   \* bound: times the station falls asleep
    NoCall,    \* a NULL submit_ctx
    None

\* "wait" is dump_mgntframe_and_wait.  Only issue_beacon calls it, from
\* send_beacon, which runs in the command thread.
ASSUME KindsAssumption ==
    /\ Kinds \in [Ctxs -> SUBSET {"plain", "wait", "ack"}]
    /\ \A c, d \in Ctxs : "wait" \in Kinds[c] \cap Kinds[d] => c = d

ASSUME ConstAssumption ==
    /\ Tasklet \notin Ctxs /\ None \notin Bufs \cup Ctxs \cup {Tasklet}
    /\ CanStop \in BOOLEAN /\ CanLeave \in BOOLEAN
    /\ MaxNaps \in Nat /\ NoCall \notin Calls

VARIABLES
    free_xmit_extbuf,  \* xmitpriv.free_xmit_extbuf_queue
    sctx,              \* pxmitbuf->sctx: the call it points to, or NULL
    urb,               \* buffers whose URB is with the USB core
    comp,              \* how far usb_write_port_complete is with a buffer
    lock_sctx,         \* xmitpriv.lock_sctx, while held across steps
    own,               \* the submit_ctx on the stack of the "wait" caller
    ack_tx,            \* xmitpriv.ack_tx
    ack_tx_mutex,      \* its holder
    ack_tx_ops,        \* xmitpriv.ack_tx_ops
    onair,             \* calls whose frame the firmware may yet report on
    rpt,               \* rtw_ack_tx_done in the receive tasklet
    sta,               \* the station: "awake", "asleep", "leaving", "gone"
    mgmt_sleep_q,      \* psta->mgmt_sleep_q
    mgmt_q,            \* psta->sta_xmitpriv.mgmt_q
    stopped,           \* RTW_CANNOT_RUN, RTW_CANNOT_TX
    pc, kind, id, buf, \* of every context: where it is, its call, its buffer
    call,              \* the call whose frame is in the buffer
    ack_report,        \* buffers whose frame asks for a CCX report
    good,              \* history: the URB of the "wait" call went through
    acked,             \* history: callers whose frame was acknowledged
    naps               \* counter for the bound

poolVars == <<free_xmit_extbuf, sctx, urb, call, ack_report, onair>>
ackVars == <<ack_tx, ack_tx_mutex, ack_tx_ops>>
staVars == <<sta, mgmt_sleep_q, mgmt_q, naps>>
ctxVars == <<pc, kind, id, buf>>
histVars == <<good, acked>>
vars == <<poolVars, comp, lock_sctx, own, ackVars, rpt, staVars, stopped,
          ctxVars, histVars>>

Idle == [step |-> "idle", status |-> "fail"]

Status == {"submitted", "success", "fail"}
Steps == {"idle", "dump", "mutex", "init", "xmit", "write", "wait", "clear",
          "unlock"}

Fresh(c) == [call |-> c, status |-> "submitted", done |-> FALSE]

Init ==
    /\ free_xmit_extbuf = Bufs /\ urb = {} /\ ack_report = {} /\ onair = {}
    /\ sctx = [b \in Bufs |-> NoCall] /\ call = [b \in Bufs |-> NoCall]
    /\ comp = [b \in Bufs |-> "none"] /\ lock_sctx = None
    /\ own = Fresh(NoCall)
    /\ ack_tx = FALSE /\ ack_tx_mutex = None
    /\ ack_tx_ops = [status |-> "submitted", done |-> FALSE]
    /\ rpt = Idle
    /\ sta = "awake" /\ mgmt_sleep_q = {} /\ mgmt_q = {} /\ stopped = FALSE
    /\ pc = [c \in Ctxs \cup {Tasklet} |-> "idle"]
    /\ kind = [c \in Ctxs |-> "plain"] /\ id = [c \in Ctxs |-> NoCall]
    /\ buf = [c \in Ctxs \cup {Tasklet} |-> None]
    /\ good = FALSE /\ naps = 0
    /\ acked = [c \in Ctxs |-> FALSE]

-----------------------------------------------------------------------------
(* Helpers.                                                                *)

Goto(c, step) == pc' = [pc EXCEPT ![c] = step]

\* rtw_sctx_done_err(&pxmitbuf->sctx, status), without the final NULL: what
\* it writes to the caller's stack, if the caller is still there.
Answer(b, status) ==
    own' = IF sctx[b] # NoCall /\ sctx[b] = own.call
             THEN [own EXCEPT !.status = status, !.done = TRUE]
             ELSE own

\* rtw_free_xmitbuf of a buffer nobody waits for, or of one that is
\* answered in the same step.
Free(b) ==
    /\ free_xmit_extbuf' = free_xmit_extbuf \cup {b}
    /\ sctx' = [sctx EXCEPT ![b] = NoCall]
    /\ call' = [call EXCEPT ![b] = NoCall]
    /\ ack_report' = ack_report \ {b}

\* The submission fails and the waiter is told it did not.
WritePort_Succeeds(c) ==
    \/ /\ ~stopped
       /\ urb' = urb \cup {buf[c]}
       /\ onair' = onair \cup {call[b] : b \in {buf[c]} \cap ack_report}
       /\ UNCHANGED <<free_xmit_extbuf, sctx, call, ack_report, own, stopped>>
    \/ /\ Answer(buf[c], "success")
       /\ Free(buf[c])
       /\ stopped' \in {stopped, stopped \/ CanStop}
       /\ UNCHANGED <<urb, onair>>

\* The submission fails and the buffer is forgotten.
WritePort_Leaks(c) ==
    \/ /\ ~stopped
       /\ urb' = urb \cup {buf[c]}
       /\ onair' = onair \cup {call[b] : b \in {buf[c]} \cap ack_report}
       /\ UNCHANGED <<free_xmit_extbuf, sctx, call, ack_report, own, stopped>>
    \/ /\ Answer(buf[c], "fail")
       /\ stopped' \in {stopped, stopped \/ CanStop}
       /\ UNCHANGED <<free_xmit_extbuf, sctx, call, ack_report, urb, onair>>

\* usb_write_port for the buffer of c: the URB is submitted, or the waiter
\* is told and the buffer freed; with -ENODEV the driver is stopped too.
WritePort(c) ==
    \/ /\ ~stopped
       /\ urb' = urb \cup {buf[c]}
       /\ onair' = onair \cup {call[b] : b \in {buf[c]} \cap ack_report}
       /\ UNCHANGED <<free_xmit_extbuf, sctx, call, ack_report, own, stopped>>
    \/ /\ Answer(buf[c], "fail")
       /\ Free(buf[c])
       /\ stopped' \in {stopped, stopped \/ CanStop}
       /\ UNCHANGED <<urb, onair>>

-----------------------------------------------------------------------------
(* The callers.                                                            *)

\* The names a new call may take: nothing refers to them any more.
Unused == Calls \ (onair \cup {call[b] : b \in Bufs} \cup {id[c] : c \in Ctxs})

\* alloc_mgtxmitframe.
Alloc(c) ==
    /\ pc[c] = "idle"
    /\ \E b \in free_xmit_extbuf, k \in Kinds[c], n \in Unused :
         /\ free_xmit_extbuf' = free_xmit_extbuf \ {b}
         /\ Answer(b, "fail")
         /\ sctx' = [sctx EXCEPT ![b] = NoCall]
         /\ buf' = [buf EXCEPT ![c] = b]
         /\ kind' = [kind EXCEPT ![c] = k]
         /\ id' = [id EXCEPT ![c] = n]
         /\ call' = [call EXCEPT ![b] = n]
    /\ Goto(c, "dump")
    /\ UNCHANGED <<urb, ack_report, onair, comp, lock_sctx, ackVars, rpt,
                   staVars, stopped, histVars>>

\* The call of c returns.
Return(c) ==
    /\ Goto(c, "idle")
    /\ buf' = [buf EXCEPT ![c] = None]
    /\ id' = [id EXCEPT ![c] = NoCall]
    /\ kind' = [kind EXCEPT ![c] = "plain"]
    /\ acked' = [acked EXCEPT ![c] = FALSE]

\* The driver was stopped before the call.
DumpStopped(c) ==
    /\ pc[c] = "dump" /\ stopped
    /\ Answer(buf[c], "fail") /\ Free(buf[c])
    /\ Return(c)
    /\ UNCHANGED <<urb, onair, comp, lock_sctx, ackVars, rpt, staVars, stopped,
                   good>>

\* What comes before rtw_hal_mgnt_xmit in the three variants.
Dump(c) ==
    /\ pc[c] = "dump" /\ ~stopped
    /\ \/ kind[c] = "plain" /\ Goto(c, "xmit") /\ UNCHANGED <<own, sctx, good>>
       \/ kind[c] = "ack" /\ Goto(c, "mutex") /\ UNCHANGED <<own, sctx, good>>
       \/ /\ kind[c] = "wait" /\ Goto(c, "xmit")
          /\ own' = Fresh(id[c]) /\ good' = FALSE
          /\ sctx' = [sctx EXCEPT ![buf[c]] = id[c]]
    /\ UNCHANGED <<free_xmit_extbuf, urb, call, ack_report, onair, comp,
                   lock_sctx, ackVars, rpt, staVars, stopped, kind, id, buf,
                   acked>>

AckLock(c) ==
    /\ pc[c] = "mutex" /\ ack_tx_mutex = None
    /\ ack_tx_mutex' = c /\ ack_tx' = TRUE
    /\ Goto(c, "init")
    /\ UNCHANGED <<poolVars, comp, lock_sctx, own, ack_tx_ops, rpt, staVars,
                   stopped, kind, id, buf, histVars>>

\* rtw_sctx_init(&ack_tx_ops): an answer that came since AckLock is dropped.
AckInit(c) ==
    /\ pc[c] = "init"
    /\ ack_report' = ack_report \cup {buf[c]}
    /\ ack_tx_ops' = [status |-> "submitted", done |-> FALSE]
    /\ Goto(c, "xmit")
    /\ UNCHANGED <<free_xmit_extbuf, sctx, urb, call, onair, comp, lock_sctx,
                   own, ack_tx, ack_tx_mutex, rpt, staVars, stopped, kind, id,
                   buf, histVars>>

\* The frame of c is out of its hands: c returns or begins to wait.
Sent(c) ==
    \/ kind[c] = "plain" /\ Return(c)
    \/ /\ kind[c] # "plain" /\ Goto(c, "wait")
       /\ buf' = [buf EXCEPT ![c] = IF kind[c] = "wait" THEN @ ELSE None]
       /\ UNCHANGED <<kind, id, acked>>

\* rtw_hal_mgnt_xmit: a frame for a sleeping station is held back.  A
\* beacon goes to everybody and never is.
MgntXmit(c) ==
    /\ pc[c] = "xmit"
    /\ IF kind[c] # "wait" /\ sta = "asleep"
         THEN mgmt_sleep_q' = mgmt_sleep_q \cup {buf[c]} /\ Sent(c)
         ELSE /\ Goto(c, "write")
              /\ UNCHANGED <<mgmt_sleep_q, kind, id, buf, acked>>
    /\ UNCHANGED <<poolVars, comp, lock_sctx, own, ackVars, rpt, sta, mgmt_q,
                   naps, stopped, good>>

\* rtw_dump_xframe.  It returns _SUCCESS even when the submission of its
\* only fragment failed, so that the caller waits.
DumpXframe(c) ==
    /\ pc[c] = "write"
    /\ WritePort(c) /\ Sent(c)
    /\ UNCHANGED <<comp, lock_sctx, ackVars, rpt, staVars, good>>

\* rtw_sctx_wait returns: answered, or timed out.
SctxWait(c) ==
    /\ pc[c] = "wait"
    /\ Goto(c, IF kind[c] = "wait" THEN "clear" ELSE "unlock")
    /\ UNCHANGED <<poolVars, comp, lock_sctx, own, ackVars, rpt, staVars,
                   stopped, kind, id, buf, histVars>>

\* The buffer is told to forget the caller's stack without the lock.
Clear_NoLock(c) ==
    /\ pc[c] = "clear"
    /\ sctx' = [sctx EXCEPT ![buf[c]] = NoCall]
    /\ Return(c) /\ own' = Fresh(NoCall) /\ good' = FALSE
    /\ UNCHANGED <<free_xmit_extbuf, urb, call, ack_report, onair, comp,
                   lock_sctx, ackVars, rpt, staVars, stopped>>

\* Under lock_sctx the buffer is told to forget the caller's stack.  It may
\* be somebody else's by now.
Clear(c) ==
    /\ lock_sctx = None
    /\ Clear_NoLock(c)

\* The mutex is not released.
AckUnlock_Keeps(c) ==
    /\ pc[c] = "unlock"
    /\ ack_tx' = FALSE
    /\ Return(c)
    /\ UNCHANGED <<poolVars, comp, lock_sctx, own, ack_tx_mutex, ack_tx_ops,
                   rpt, staVars, stopped, good>>

AckUnlock(c) ==
    /\ pc[c] = "unlock"
    /\ ack_tx' = FALSE /\ ack_tx_mutex' = None
    /\ Return(c)
    /\ UNCHANGED <<poolVars, comp, lock_sctx, own, ack_tx_ops, rpt, staVars,
                   stopped, good>>

Caller(c) ==
    \/ Alloc(c) \/ DumpStopped(c) \/ Dump(c) \/ AckLock(c) \/ AckInit(c)
    \/ MgntXmit(c) \/ DumpXframe(c) \/ SctxWait(c) \/ Clear(c) \/ AckUnlock(c)

-----------------------------------------------------------------------------
(* usb_write_port_complete.                                                *)

\* It takes lock_sctx and looks at pxmitbuf->sctx.  A frame whose URB failed
\* was never on the air; the error may be that the device is gone.
CompLock(b) ==
    /\ b \in urb /\ comp[b] = "none" /\ lock_sctx = None
    /\ \E ok \in BOOLEAN :
         /\ IF ok THEN UNCHANGED <<onair, stopped>>
                  ELSE /\ onair' = onair \ {call[b]}
                       /\ stopped' \in {stopped, stopped \/ CanStop}
         /\ good' = (good \/ (ok /\ call[b] = own.call))
         /\ IF sctx[b] = NoCall
              THEN comp' = [comp EXCEPT ![b] = "free"] /\ UNCHANGED lock_sctx
              ELSE /\ comp' = [comp EXCEPT ![b] = IF ok THEN "ok" ELSE "err"]
                   /\ lock_sctx' = b
    /\ UNCHANGED <<free_xmit_extbuf, sctx, urb, call, ack_report, own, ackVars,
                   rpt, staVars, ctxVars, acked>>

\* It writes the status and completes.
CompDone(b) ==
    /\ comp[b] \in {"ok", "err"}
    /\ Answer(b, IF comp[b] = "ok" THEN "success" ELSE "fail")
    /\ comp' = [comp EXCEPT ![b] = "null"]
    /\ UNCHANGED <<poolVars, lock_sctx, ackVars, rpt, staVars, stopped,
                   ctxVars, histVars>>

\* pxmitbuf->sctx keeps pointing to the caller's stack.
CompNull_Keeps(b) ==
    /\ comp[b] = "null"
    /\ comp' = [comp EXCEPT ![b] = "free"] /\ lock_sctx' = None
    /\ UNCHANGED <<poolVars, own, ackVars, rpt, staVars, stopped, ctxVars,
                   histVars>>

\* It clears pxmitbuf->sctx and unlocks.
CompNull(b) ==
    /\ comp[b] = "null"
    /\ sctx' = [sctx EXCEPT ![b] = NoCall]
    /\ comp' = [comp EXCEPT ![b] = "free"] /\ lock_sctx' = None
    /\ UNCHANGED <<free_xmit_extbuf, urb, call, ack_report, onair, own,
                   ackVars, rpt, staVars, stopped, ctxVars, histVars>>

\* The buffer is freed and stays with the USB core.
CompFree_Twice(b) ==
    /\ comp[b] = "free"
    /\ Answer(b, "fail") /\ Free(b)
    /\ comp' = [comp EXCEPT ![b] = "none"]
    /\ UNCHANGED <<urb, onair, lock_sctx, ackVars, rpt,
                   staVars, stopped, ctxVars, histVars>>

\* rtw_free_xmitbuf, which completes a submit_ctx it still finds.
CompFree(b) ==
    /\ comp[b] = "free"
    /\ Answer(b, "fail") /\ Free(b)
    /\ urb' = urb \ {b} /\ comp' = [comp EXCEPT ![b] = "none"]
    /\ UNCHANGED <<onair, lock_sctx, ackVars, rpt, staVars,
                   stopped, ctxVars, histVars>>

Completion(b) == CompLock(b) \/ CompDone(b) \/ CompNull(b) \/ CompFree(b)

-----------------------------------------------------------------------------
(* The firmware's report and the receive tasklet.                          *)

\* c2h_ccx_rpt: rtw_ack_tx_done looks at ack_tx.  The report does not say
\* whose frame it is about.
CcxRpt(n) ==
    /\ rpt = Idle /\ n \in onair
    /\ onair' = onair \ {n}
    /\ \E ok \in BOOLEAN :
         /\ acked' = [c \in Ctxs |-> acked[c] \/ (ok /\ id[c] = n)]
         /\ rpt' = IF ack_tx THEN [step |-> "done", status |->
                                     IF ok THEN "success" ELSE "fail"]
                             ELSE Idle
    /\ UNCHANGED <<free_xmit_extbuf, sctx, urb, call, ack_report, comp,
                   lock_sctx, own, ackVars, staVars, stopped, ctxVars, good>>

\* It writes the status and completes, whoever waits now.
AckTxDone ==
    /\ rpt.step = "done" /\ rpt' = Idle
    /\ ack_tx_ops' = [status |-> rpt.status, done |-> TRUE]
    /\ UNCHANGED <<poolVars, comp, lock_sctx, own, ack_tx, ack_tx_mutex,
                   staVars, stopped, ctxVars, histVars>>

-----------------------------------------------------------------------------
(* The station and the transmit tasklet.                                   *)

\* stop_sta_xmit: what waits for the tasklet is held back.
Nap ==
    /\ sta = "awake" /\ naps < MaxNaps
    /\ sta' = "asleep" /\ naps' = naps + 1
    /\ mgmt_sleep_q' = mgmt_sleep_q \cup mgmt_q /\ mgmt_q' = {}
    /\ UNCHANGED <<poolVars, comp, lock_sctx, own, ackVars, rpt, stopped,
                   ctxVars, histVars>>

\* What was held back is not looked at.
Wakeup_Forgets ==
    /\ sta = "asleep" /\ sta' = "awake"
    /\ UNCHANGED <<poolVars, comp, lock_sctx, own, ackVars, rpt, mgmt_sleep_q,
                   mgmt_q, naps, stopped, ctxVars, histVars>>

\* wakeup_sta_to_xmit and rtl8822bu_hal_mgmt_xmitframe_enqueue: what was
\* held back is queued.  While the station is leaving that fails, and the
\* frame is freed without its buffer.
Wakeup ==
    /\ sta \in {"asleep", "leaving"} /\ mgmt_sleep_q' = {}
    /\ IF sta = "asleep"
         THEN sta' = "awake" /\ mgmt_q' = mgmt_q \cup mgmt_sleep_q
         ELSE mgmt_sleep_q # {} /\ UNCHANGED <<sta, mgmt_q>>
    /\ UNCHANGED <<poolVars, comp, lock_sctx, own, ackVars, rpt, naps, stopped,
                   ctxVars, histVars>>

\* ap_free_sta clears WIFI_ASOC_STATE.
Leave ==
    /\ CanLeave /\ sta \in {"awake", "asleep"}
    /\ sta' = "leaving"
    /\ UNCHANGED <<poolVars, comp, lock_sctx, own, ackVars, rpt, mgmt_sleep_q,
                   mgmt_q, naps, stopped, ctxVars, histVars>>

\* rtw_free_stainfo_flush_xmit: the frames held back are freed with their
\* buffers, those in mgmt_q without.
FlushXmit ==
    /\ sta = "leaving" /\ sta' = "gone"
    /\ free_xmit_extbuf' = free_xmit_extbuf \cup mgmt_sleep_q
    /\ mgmt_sleep_q' = {} /\ mgmt_q' = {}
    /\ call' = [b \in Bufs |-> IF b \in mgmt_sleep_q THEN NoCall ELSE call[b]]
    /\ ack_report' = ack_report \ mgmt_sleep_q
    /\ UNCHANGED <<sctx, urb, onair, comp, lock_sctx, own, ackVars, rpt, naps,
                   stopped, ctxVars, histVars>>

Associate ==
    /\ sta = "gone" /\ sta' = "awake"
    /\ UNCHANGED <<poolVars, comp, lock_sctx, own, ackVars, rpt, mgmt_sleep_q,
                   mgmt_q, naps, stopped, ctxVars, histVars>>

\* rtw_dequeue_mgmt_xframe in xmit_tasklet.
TaskletTake ==
    /\ pc[Tasklet] = "idle" /\ ~stopped
    /\ \E b \in mgmt_q :
         buf' = [buf EXCEPT ![Tasklet] = b] /\ mgmt_q' = mgmt_q \ {b}
    /\ Goto(Tasklet, "write")
    /\ UNCHANGED <<poolVars, comp, lock_sctx, own, ackVars, rpt, sta,
                   mgmt_sleep_q, naps, stopped, kind, id, histVars>>

TaskletDump ==
    /\ pc[Tasklet] = "write"
    /\ WritePort(Tasklet)
    /\ Goto(Tasklet, "idle") /\ buf' = [buf EXCEPT ![Tasklet] = None]
    /\ UNCHANGED <<comp, lock_sctx, ackVars, rpt, staVars, kind, id, histVars>>

\* The driver is stopped, and who waits for a report is told.
Stop ==
    /\ CanStop /\ ~stopped /\ stopped' = TRUE
    /\ ack_tx_ops' = IF ack_tx THEN [status |-> "fail", done |-> TRUE]
                               ELSE ack_tx_ops
    /\ UNCHANGED <<poolVars, comp, lock_sctx, own, ack_tx, ack_tx_mutex, rpt,
                   staVars, ctxVars, histVars>>

Next ==
    \/ \E c \in Ctxs : Caller(c)
    \/ \E b \in Bufs : Completion(b)
    \/ (\E n \in Calls : CcxRpt(n)) \/ AckTxDone
    \/ Nap \/ Wakeup \/ Leave \/ FlushXmit \/ Associate
    \/ TaskletTake \/ TaskletDump \/ Stop

Spec == Init /\ [][Next]_vars

\* A caller goes on, its wait ends at the latest with the timeout; the USB
\* core completes every URB; the transmit tasklet runs; a station that naps
\* wakes up.  It is strong fairness because ack_tx_mutex and lock_sctx are
\* handed to whoever waits for them; no other step can be disabled again.
Fairness ==
    /\ \A c \in Ctxs : SF_vars(pc[c] # "idle" /\ Caller(c))
    /\ \A b \in Bufs : SF_vars(Completion(b))
    /\ WF_vars(Wakeup) /\ WF_vars(TaskletTake \/ TaskletDump)

LiveSpec == Spec /\ Fairness

-----------------------------------------------------------------------------
(* Properties.                                                             *)

\* The call of dump_mgntframe_and_wait that owns stack frame n has not
\* returned.
Live(n) ==
    \E c \in Ctxs : /\ kind[c] = "wait" /\ id[c] = n
                    /\ pc[c] \in {"xmit", "write", "wait", "clear"}

\* No buffer points to the stack of a dump_mgntframe_and_wait that has
\* returned, and while usb_write_port_complete writes there the pointer
\* stays what it was: a timeout does not race the completion.
SctxLive ==
    \A b \in Bufs : /\ sctx[b] # NoCall => Live(sctx[b])
                    /\ comp[b] \in {"ok", "err"} => sctx[b] # NoCall

\* rtw_free_xmitbuf and rtw_alloc_xmitbuf_ext, which complete pxmitbuf->sctx
\* without lock_sctx, never find one: it is NULL before the buffer is freed,
\* and nobody sets it while the buffer is in the pool.
FreeSctxNull ==
    \A b \in Bufs :
        b \in free_xmit_extbuf \/ comp[b] = "free" => sctx[b] = NoCall

\* Who holds a buffer before it is queued, submitted or freed.
InHand == {c \in Ctxs \cup {Tasklet} :
              pc[c] \in {"dump", "mutex", "init", "xmit", "write"}}

Held == {buf[c] : c \in InHand}

\* No extension buffer is in two places: two frames never share one, and none
\* is freed, queued or submitted while the USB core has it, whoever leaves or
\* stops.
ExtOnce ==
    /\ \A c, d \in InHand : buf[c] = buf[d] => c = d
    /\ Held \cap UNION {free_xmit_extbuf, mgmt_sleep_q, mgmt_q, urb} = {}
    /\ free_xmit_extbuf \cap UNION {mgmt_sleep_q, mgmt_q, urb} = {}
    /\ mgmt_sleep_q \cap (mgmt_q \cup urb) = {} /\ mgmt_q \cap urb = {}

\* No extension buffer is lost.  Otherwise the pool shrinks, management
\* frames are dropped once it is empty, and the idle check of rtw_pwrctrl.c
\* never succeeds again.
ExtConserved ==
    \A b \in Bufs : \/ b \in UNION {free_xmit_extbuf, mgmt_sleep_q, mgmt_q, urb}
                    \/ \E c \in InHand : buf[c] = b

\* dump_mgntframe_and_wait returns _SUCCESS only if the URB of its own frame
\* went through.
WaitHonest == own.done /\ own.status = "success" => good

\* dump_mgntframe_and_wait_ack returns _SUCCESS only if the peer acknowledged
\* the frame the call sent ("_SUCCESS: No xmit ack is used or acked").
AckHonest ==
    \A c \in Ctxs : /\ kind[c] = "ack" /\ pc[c] = "wait"
                    /\ ack_tx_ops = [status |-> "success", done |-> TRUE]
                    => acked[c]

\* Every call returns, whether its frame is sent, refused, held back for a
\* sleeping station or never reported on; nobody keeps ack_tx_mutex.
CallReturns == \A c \in Ctxs : pc[c] # "idle" ~> pc[c] = "idle"

\* Every buffer taken comes back to the pool, also by way of the queues of a
\* station that falls asleep and wakes up.
BufReturns ==
    \A b \in Bufs : b \notin free_xmit_extbuf ~> b \in free_xmit_extbuf
=============================================================================
