------------------------------ MODULE XmitFlow ------------------------------
(***************************************************************************)
(* The transmit path of data frames: the network stack's queues and the    *)
(* forwarding receive tasklet hand frames in (core/rtw_xmit.c, rtw_xmit),  *)
(* a frame goes straight to a USB buffer or waits in its station's queue   *)
(* (hal/rtl8822b/usb/rtl8822bu_xmit.c, pre_xmitframe), the transmit        *)
(* tasklet drains the queues into aggregated buffers, and the completion   *)
(* of a buffer's URB returns it and runs the tasklet again                 *)
(* (os_dep/linux/usb_ops_linux.c).                                         *)
(*                                                                         *)
(* Nothing polls: a frame in a queue is sent only if somebody schedules    *)
(* the tasklet after it, and a stopped network queue carries traffic again *)
(* only if somebody frees a frame of it.                                   *)
(*                                                                         *)
(* Abstracted: one interface, a frame's contents, how many frames fit a    *)
(* buffer (any number up to MaxAgg), why coalescing fails, and which of    *)
(* the free frames or buffers is taken (the pools are sets: the code takes *)
(* the first and puts back at the end).                                    *)
(* Not taken: the branches for a station interface that is linking        *)
(* (DEV_STA_LG_NUM is 0 here) and for UsbTxAggDescNum of 1.  Management    *)
(* frames, which the tasklet sends first, are in MgntXmit.                 *)
(***************************************************************************)
EXTENDS Naturals, Sequences, FiniteSets, Functions

CONSTANTS
    Frames,      \* the xmit_frame pool: NR_XMITFRAME of them
    Bufs,        \* the xmit_buf pool: NR_XMITBUFF of them
    Stas,        \* stations
    Acs,         \* access categories, each an OS queue and a hw_xmit
    Prio,        \* Acs in the order rtw_dequeue_xframe looks at them
    Leavers,     \* bound: the stations that may be freed and come back
    CanStop,     \* bound: whether transmission is ever turned off
    Forwarders,  \* contexts that send without an OS queue: receive tasklet
    Tasklet,     \* xmit_tasklet
    StopAt,      \* rtw_os_need_stop_queue's bound on free_xmitframe_cnt: 4
    MaxAgg,      \* UsbTxAggDescNum
    None

Senders == Acs \cup Forwarders
Holders == Senders \cup {Tasklet}

\* NR_XMITBUFF exceeds the number of contexts that can hold a buffer before
\* it is submitted: they cannot hold all of them.
ASSUME PoolAssumption ==
    \A f \in [Bufs -> Holders] : \E a, b \in Bufs : a # b /\ f[a] = f[b]

ASSUME ConstAssumption ==
    /\ None \notin Frames \cup Bufs \cup Stas \cup Holders
    /\ Tasklet \notin Senders /\ Acs \cap Forwarders = {}
    /\ Stas # {} /\ Leavers \subseteq Stas /\ CanStop \in BOOLEAN
    /\ Acs # {} /\ Prio \in Seq(Acs)
    /\ \A ac \in Acs : \E i \in DOMAIN Prio : Prio[i] = ac
    /\ StopAt \in Nat /\ MaxAgg \in Nat \ {0}

VARIABLES
    free_xmit_queue,   \* xmitpriv.free_xmit_queue
    os_qid,            \* pxmitframe->os_qid
    sta_pending,       \* tx_servq.sta_pending of every station and AC
    sta_queue,         \* hwxmits[ac].sta_queue: the tx_servqs linked there
    free_xmitbuf,      \* xmitpriv.free_xmitbuf_queue
    urb,               \* buffers whose URB is with the USB core
    giveback,          \* a completion has freed its buffer, not yet scheduled
    scheduled,         \* xmit_tasklet is scheduled
    lock,              \* holder of xmitpriv.lock across steps
    blocked,           \* rtw_xmit_ac_blocked
    backing,           \* rtw_back_opch has yet to call os_xmit_schedule
    cannot_tx,         \* RTW_CANNOT_TX
    sta,               \* stations: hashed and associated, being freed, free
    stopped,           \* the OS queues netif_stop_subqueue has stopped
    pc, frame, xbuf,   \* every context: its step, frame and buffer
    dest,              \* and the station and AC the frame is for
    first, agg         \* the tasklet's pfirstframe and its agg_num

queueVars == <<sta_pending, sta_queue>>
poolVars  == <<free_xmit_queue, os_qid>>
bufVars   == <<free_xmitbuf, urb, xbuf>>
envVars   == <<blocked, backing, cannot_tx, sta>>
aggVars   == <<first, agg>>
vars == <<poolVars, queueVars, bufVars, giveback, scheduled, lock, envVars,
          stopped, pc, frame, dest, aggVars>>

Servqs == [sta : Stas, ac : Acs]

Steps == {"idle", "stop", "pre", "enqueue", "direct", "free", "wake", "check",
          "pick", "lock", "agg", "submit", "release"}

TypeOK ==
    /\ free_xmit_queue \subseteq Frames /\ os_qid \in [Frames -> Acs]
    /\ sta_pending \in [Servqs -> Seq(Frames)]
    /\ sta_queue \in [Acs -> Seq(Stas)]
    /\ free_xmitbuf \subseteq Bufs /\ urb \subseteq Bufs
    /\ xbuf \in [Holders -> Bufs \cup {None}]
    /\ giveback \in BOOLEAN /\ scheduled \in BOOLEAN
    /\ lock \in Holders \cup {None}
    /\ blocked \in BOOLEAN /\ backing \in BOOLEAN /\ cannot_tx \in BOOLEAN
    /\ sta \in [Stas -> {"asoc", "leaving", "free"}]
    /\ stopped \subseteq Acs
    /\ pc \in [Holders -> Steps]
    /\ frame \in [Holders -> Frames \cup {None}]
    /\ dest \in [Holders -> Servqs]
    /\ first \in Frames \cup {None} /\ agg \in 0..MaxAgg

\* dest of a context that has no frame
NoDest == CHOOSE q \in Servqs : TRUE

Init ==
    /\ free_xmit_queue = Frames
    /\ os_qid \in [Frames -> {Prio[1]}]
    /\ sta_pending = [q \in Servqs |-> <<>>]
    /\ sta_queue = [ac \in Acs |-> <<>>]
    /\ free_xmitbuf = Bufs /\ urb = {}
    /\ xbuf = [h \in Holders |-> None]
    /\ giveback = FALSE /\ scheduled = FALSE /\ lock = None
    /\ blocked = FALSE /\ backing = FALSE /\ cannot_tx = FALSE
    /\ sta = [s \in Stas |-> "asoc"] /\ stopped = {}
    /\ pc = [h \in Holders |-> "idle"]
    /\ frame = [h \in Holders |-> None]
    /\ dest = [h \in Holders |-> NoDest]
    /\ first = None /\ agg = 0

Goto(h, l) == pc' = [pc EXCEPT ![h] = l]

----------------------------------------------------------------------------
(* What every context does: rtw_free_xmitframe in two steps (the frame is  *)
(* back in the pool before its os_qid is read to wake the queue), and the  *)
(* lists of waiting frames.                                                *)

FreeFrame(h) ==
    /\ pc[h] = "free"
    /\ free_xmit_queue' = free_xmit_queue \cup {frame[h]}
    /\ Goto(h, "wake")
    /\ UNCHANGED <<os_qid, queueVars, bufVars, giveback, scheduled, lock,
                   envVars, stopped, frame, dest, aggVars>>

\* What the tasklet turns to once it has freed the frame: the next one to
\* aggregate, if it holds the lock, the next first frame of the buffer it
\* holds, or the next round.
AfterFree(h) ==
    IF h # Tasklet THEN "idle"
    ELSE IF lock = h THEN "agg"
    ELSE IF xbuf[h] # None THEN "pick" ELSE "check"

WakeQueue(h) ==
    /\ pc[h] = "wake"
    /\ stopped' = stopped \ {os_qid[frame[h]]}
    /\ frame' = [frame EXCEPT ![h] = None]
    /\ dest' = [dest EXCEPT ![h] = IF lock = h THEN @ ELSE NoDest]
    /\ Goto(h, AfterFree(h))
    /\ UNCHANGED <<poolVars, queueVars, bufVars, giveback, scheduled, lock,
                   envVars, aggVars>>

Linked(sq, s) == \E i \in DOMAIN sq : sq[i] = s

\* list_add_tail of a tx_servq that is not linked yet
Link(sq, s) == IF Linked(sq, s) THEN sq ELSE Append(sq, s)

\* list_del_init
Unlink(sq, s) ==
    LET n == CHOOSE i \in DOMAIN sq : sq[i] = s
    IN  IF Linked(sq, s) THEN SubSeq(sq, 1, n - 1) \o SubSeq(sq, n + 1, Len(sq))
        ELSE sq

\* rtw_xmit_classifier
Enqueue(f, q) ==
    /\ sta_queue' = [sta_queue EXCEPT ![q.ac] = Link(@, q.sta)]
    /\ sta_pending' = [sta_pending EXCEPT ![q] = Append(@, f)]

\* dequeue_one_xmitframe, and the tx_servq unlinked when it is empty
Dequeue(q) ==
    /\ sta_pending' = [sta_pending EXCEPT ![q] = Tail(@)]
    /\ sta_queue' = [sta_queue EXCEPT
                       ![q.ac] = IF Len(sta_pending[q]) = 1
                                 THEN Unlink(@, q.sta) ELSE @]

\* rtw_alloc_xmitbuf
AllocBuf(h) ==
    \E b \in free_xmitbuf :
        /\ free_xmitbuf' = free_xmitbuf \ {b}
        /\ xbuf' = [xbuf EXCEPT ![h] = b]

\* rtw_free_xmitbuf
FreeBuf(h) ==
    /\ free_xmitbuf' = free_xmitbuf \cup {xbuf[h]}
    /\ xbuf' = [xbuf EXCEPT ![h] = None]
    /\ UNCHANGED urb

\* Mutant of WritePort: the buffer is freed although it was submitted.
WritePort_FreesSubmitted(h, ok) ==
    /\ urb' = (IF ok /\ ~cannot_tx THEN urb \cup {xbuf[h]} ELSE urb)
    /\ free_xmitbuf' = free_xmitbuf \cup {xbuf[h]}
    /\ xbuf' = [xbuf EXCEPT ![h] = None]

\* usb_write_port: the buffer goes to the USB core, or back to the pool if
\* transmission is off or usb_submit_urb fails.
WritePort(h, ok) ==
    IF ok /\ ~cannot_tx
    THEN /\ urb' = urb \cup {xbuf[h]}
         /\ xbuf' = [xbuf EXCEPT ![h] = None]
         /\ UNCHANGED free_xmitbuf
    ELSE FreeBuf(h)

----------------------------------------------------------------------------
(* A context that sends a frame: rtw_xmit from the OS queue of its AC,     *)
(* which the stack calls only while the queue is not stopped, one caller   *)
(* at a time; or the receive tasklet forwarding between stations.          *)

\* rtw_alloc_xmitframe
Send(x, q) ==
    /\ pc[x] = "idle" /\ ~cannot_tx /\ sta[q.sta] = "asoc"
    /\ x \in Acs => q.ac = x /\ x \notin stopped
    /\ \E f \in free_xmit_queue :
          /\ free_xmit_queue' = free_xmit_queue \ {f}
          /\ os_qid' = [os_qid EXCEPT ![f] = q.ac]
          /\ frame' = [frame EXCEPT ![x] = f]
    /\ dest' = [dest EXCEPT ![x] = q]
    /\ Goto(x, "stop")
    /\ UNCHANGED <<queueVars, bufVars, giveback, scheduled, lock, envVars,
                   stopped, aggVars>>

\* rtw_os_check_stop_queue, on the count as it is by now; then update_attrib
\* (rtw_xmit_posthandle), which may refuse the frame
CheckStop(x) ==
    /\ pc[x] = "stop"
    /\ stopped' = IF Cardinality(free_xmit_queue) <= StopAt
                  THEN stopped \cup {dest[x].ac} ELSE stopped
    /\ \E l \in {"pre", "free"} : Goto(x, l)
    /\ UNCHANGED <<poolVars, queueVars, bufVars, giveback, scheduled, lock,
                   envVars, frame, dest, aggVars>>

\* rtw_txframes_sta_ac_pending: no frame counts for a station that is gone
AcPending(q) == sta[q.sta] = "asoc" /\ sta_pending[q] # <<>>

\* pre_xmitframe, up to the choice between the queue and a buffer
PreXmit(x) ==
    /\ pc[x] = "pre" /\ lock = None
    /\ \/ /\ AcPending(dest[x]) \/ blocked \/ free_xmitbuf = {}
          /\ lock' = x /\ Goto(x, "enqueue")
          /\ UNCHANGED <<free_xmitbuf, xbuf>>
       \/ /\ ~AcPending(dest[x]) /\ ~blocked
          /\ AllocBuf(x)
          /\ Goto(x, "direct")
          /\ UNCHANGED lock
    /\ UNCHANGED <<poolVars, queueVars, urb, giveback, scheduled, envVars,
                   stopped, frame, dest, aggVars>>

\* pre_xmitframe, the rest of its critical section
XmitEnqueue(x) ==
    /\ pc[x] = "enqueue"
    /\ lock' = None
    /\ IF sta[dest[x].sta] = "asoc"
       THEN /\ Enqueue(frame[x], dest[x])
            /\ frame' = [frame EXCEPT ![x] = None]
            /\ dest' = [dest EXCEPT ![x] = NoDest]
            /\ Goto(x, "idle")
       ELSE Goto(x, "free") /\ UNCHANGED <<queueVars, frame, dest>>
    /\ UNCHANGED <<poolVars, bufVars, giveback, scheduled, envVars, stopped,
                   aggVars>>

\* Mutant of Direct: on a failed coalesce only the buffer is freed.
Direct_LeaksFrame(x) ==
    /\ pc[x] = "direct"
    /\ \/ (\E ok \in BOOLEAN : WritePort(x, ok)) /\ Goto(x, "free")
          /\ UNCHANGED <<frame, dest>>
       \/ /\ FreeBuf(x) /\ Goto(x, "idle")
          /\ frame' = [frame EXCEPT ![x] = None]
          /\ dest' = [dest EXCEPT ![x] = NoDest]
    /\ UNCHANGED <<poolVars, queueVars, giveback, scheduled, lock, envVars,
                   stopped, aggVars>>

\* xmitframe_direct: coalescing fails and the buffer is freed, or it is
\* submitted; whatever rtw_write_port says, the frame is freed.
Direct(x) ==
    /\ pc[x] = "direct"
    /\ \/ \E ok \in BOOLEAN : WritePort(x, ok)
       \/ FreeBuf(x)
    /\ Goto(x, "free")
    /\ UNCHANGED <<poolVars, queueVars, giveback, scheduled, lock, envVars,
                   stopped, frame, dest, aggVars>>

Sender(x) ==
    \/ \E q \in Servqs : Send(x, q)
    \/ CheckStop(x) \/ PreXmit(x) \/ XmitEnqueue(x) \/ Direct(x)
    \/ FreeFrame(x) \/ WakeQueue(x)

----------------------------------------------------------------------------
(* rtl8822bu_xmit_tasklet and rtl8822bu_xmitframe_complete                 *)

Start ==
    /\ scheduled /\ pc[Tasklet] = "idle"
    /\ scheduled' = FALSE /\ Goto(Tasklet, "check")
    /\ UNCHANGED <<poolVars, queueVars, bufVars, giveback, lock, envVars,
                   stopped, frame, dest, aggVars>>

\* One round of the tasklet's loop, up to rtw_alloc_xmitbuf
Check ==
    /\ pc[Tasklet] = "check"
    /\ IF cannot_tx \/ blocked \/ free_xmitbuf = {}
       THEN Goto(Tasklet, "idle") /\ UNCHANGED <<free_xmitbuf, xbuf>>
       ELSE /\ AllocBuf(Tasklet)
            /\ Goto(Tasklet, "pick")
    /\ UNCHANGED <<poolVars, queueVars, urb, giveback, scheduled, lock,
                   envVars, stopped, frame, dest, aggVars>>

\* rtw_dequeue_xframe: the first station of the first AC with a frame.
\* Coalescing that frame may fail: then the next one takes its place.
FirstServq(q) ==
    /\ sta_queue[q.ac] # <<>> /\ Head(sta_queue[q.ac]) = q.sta
    /\ \E i \in DOMAIN Prio :
          Prio[i] = q.ac /\ \A j \in 1..(i - 1) : sta_queue[Prio[j]] = <<>>

Pick ==
    /\ pc[Tasklet] = "pick" /\ lock = None
    /\ IF \A ac \in Acs : sta_queue[ac] = <<>>
       THEN Goto(Tasklet, "release") /\ UNCHANGED <<queueVars, frame, dest>>
       ELSE \E q \in Servqs :
              /\ FirstServq(q) /\ Dequeue(q)
              /\ frame' = [frame EXCEPT ![Tasklet] = Head(sta_pending[q])]
              /\ dest' = [dest EXCEPT ![Tasklet] = q]
              /\ \E l \in {"lock", "free"} : Goto(Tasklet, l)
    /\ UNCHANGED <<poolVars, bufVars, giveback, scheduled, lock, envVars,
                   stopped, aggVars>>

\* No frame: the buffer goes back, and the tasklet ends
Release ==
    /\ pc[Tasklet] = "release"
    /\ FreeBuf(Tasklet)
    /\ Goto(Tasklet, "idle")
    /\ UNCHANGED <<poolVars, queueVars, giveback, scheduled, lock,
                   envVars, stopped, frame, dest, aggVars>>

Lock ==
    /\ pc[Tasklet] = "lock" /\ lock = None
    /\ lock' = Tasklet
    /\ first' = frame[Tasklet] /\ agg' = 1
    /\ frame' = [frame EXCEPT ![Tasklet] = None]
    /\ Goto(Tasklet, "agg")
    /\ UNCHANGED <<poolVars, queueVars, bufVars, giveback, scheduled, envVars,
                   stopped, dest>>

\* One more frame of the same station and AC, copied and freed (or dropped)
Aggregate ==
    /\ pc[Tasklet] = "agg" /\ agg < MaxAgg
    /\ sta_pending[dest[Tasklet]] # <<>>
    /\ frame' = [frame EXCEPT ![Tasklet] = Head(sta_pending[dest[Tasklet]])]
    /\ sta_pending' = [sta_pending EXCEPT ![dest[Tasklet]] = Tail(@)]
    /\ agg' \in {agg, agg + 1}
    /\ Goto(Tasklet, "free")
    /\ UNCHANGED <<poolVars, sta_queue, bufVars, giveback, scheduled, lock,
                   envVars, stopped, dest, first>>

\* Mutant of Requeue: a station without frames stays linked.
Requeue_KeepsEmpty(q) ==
    IF Len(sta_queue[q.ac]) > 1
    THEN Append(Unlink(sta_queue[q.ac], q.sta), q.sta)
    ELSE sta_queue[q.ac]

\* The buffer is full, or the next frame does not fit: the station is
\* unlinked, or lets the next one go first.
Requeue(q) ==
    LET others == Unlink(sta_queue[q.ac], q.sta)
    IN  IF sta_pending[q] = <<>> THEN others
        ELSE IF Len(sta_queue[q.ac]) > 1 THEN Append(others, q.sta)
        ELSE sta_queue[q.ac]

AggEnd ==
    /\ pc[Tasklet] = "agg"
    /\ sta_queue' = [sta_queue EXCEPT ![dest[Tasklet].ac] = Requeue(dest[Tasklet])]
    /\ lock' = None /\ Goto(Tasklet, "submit")
    /\ UNCHANGED <<poolVars, sta_pending, bufVars, giveback, scheduled,
                   envVars, stopped, frame, dest, aggVars>>

SubmitAgg ==
    /\ pc[Tasklet] = "submit"
    /\ \E ok \in BOOLEAN : WritePort(Tasklet, ok)
    /\ frame' = [frame EXCEPT ![Tasklet] = first]
    /\ first' = None /\ agg' = 0
    /\ Goto(Tasklet, "free")
    /\ UNCHANGED <<poolVars, queueVars, giveback, scheduled, lock, envVars,
                   stopped, dest>>

TaskletStep ==
    \/ Start \/ Check \/ Pick \/ Release \/ Lock \/ Aggregate
    \/ AggEnd \/ SubmitAgg \/ FreeFrame(Tasklet) \/ WakeQueue(Tasklet)

----------------------------------------------------------------------------
(* The others: URB completions (one at a time, the host controller gives   *)
(* them back in turn), the command thread leaving the channel and coming   *)
(* back, stations freed and added, and the end of transmission.            *)

\* usb_write_port_complete, up to rtw_free_xmitbuf
Complete(b) ==
    /\ b \in urb /\ ~giveback
    /\ urb' = urb \ {b} /\ free_xmitbuf' = free_xmitbuf \cup {b}
    /\ giveback' = TRUE
    /\ UNCHANGED <<poolVars, queueVars, xbuf, scheduled, lock, envVars,
                   stopped, pc, frame, dest, aggVars>>

\* Mutant of CompleteSchedule: the completion does not run the tasklet.
CompleteSchedule_NoTasklet ==
    /\ giveback /\ giveback' = FALSE
    /\ UNCHANGED <<poolVars, queueVars, bufVars, scheduled, lock, envVars,
                   stopped, pc, frame, dest, aggVars>>

\* and its tasklet_hi_schedule
CompleteSchedule ==
    /\ giveback /\ giveback' = FALSE /\ scheduled' = TRUE
    /\ UNCHANGED <<poolVars, queueVars, bufVars, lock, envVars, stopped, pc,
                   frame, dest, aggVars>>

rtw_leave_opch ==
    /\ ~blocked /\ ~backing /\ blocked' = TRUE
    /\ UNCHANGED <<poolVars, queueVars, bufVars, giveback, scheduled, lock,
                   backing, cannot_tx, sta, stopped, pc, frame, dest, aggVars>>

rtw_back_opch ==
    /\ blocked /\ blocked' = FALSE /\ backing' = TRUE
    /\ UNCHANGED <<poolVars, queueVars, bufVars, giveback, scheduled, lock,
                   cannot_tx, sta, stopped, pc, frame, dest, aggVars>>

\* rtw_os_xmit_schedule
XmitSchedule ==
    /\ backing /\ lock = None /\ backing' = FALSE
    /\ scheduled' = (scheduled \/ \E ac \in Acs : sta_queue[ac] # <<>>)
    /\ UNCHANGED <<poolVars, queueVars, bufVars, giveback, lock, blocked,
                   cannot_tx, sta, stopped, pc, frame, dest, aggVars>>

\* rtw_free_stainfo: first the hash table, then the queues
Unhash(s) ==
    /\ sta[s] = "asoc" /\ sta' = [sta EXCEPT ![s] = "leaving"]
    /\ UNCHANGED <<poolVars, queueVars, bufVars, giveback, scheduled, lock,
                   blocked, backing, cannot_tx, stopped, pc, frame, dest,
                   aggVars>>

\* rtw_free_xmitframe_queue of each of the station's queues
PendingOf(s) == UNION {Range(sta_pending[[sta |-> s, ac |-> ac]]) : ac \in Acs}

\* Mutant of FlushXmit: freeing the frames wakes no OS queue.
FlushXmit_NoWake(s) ==
    /\ sta[s] = "leaving" /\ lock = None
    /\ free_xmit_queue' = free_xmit_queue \cup PendingOf(s)
    /\ sta_pending' = [q \in Servqs |-> IF q.sta = s THEN <<>> ELSE sta_pending[q]]
    /\ sta_queue' = [ac \in Acs |-> Unlink(sta_queue[ac], s)]
    /\ sta' = [sta EXCEPT ![s] = "free"]
    /\ UNCHANGED <<os_qid, bufVars, giveback, scheduled, lock, blocked,
                   backing, cannot_tx, stopped, pc, frame, dest, aggVars>>

FlushXmit(s) ==
    /\ sta[s] = "leaving" /\ lock = None
    /\ free_xmit_queue' = free_xmit_queue \cup PendingOf(s)
    /\ sta_pending' = [q \in Servqs |-> IF q.sta = s THEN <<>> ELSE sta_pending[q]]
    /\ sta_queue' = [ac \in Acs |-> Unlink(sta_queue[ac], s)]
    /\ stopped' = stopped \ {os_qid[f] : f \in PendingOf(s)}
    /\ sta' = [sta EXCEPT ![s] = "free"]
    /\ UNCHANGED <<os_qid, bufVars, giveback, scheduled, lock, blocked,
                   backing, cannot_tx, pc, frame, dest, aggVars>>

Associate(s) ==
    /\ sta[s] = "free" /\ sta' = [sta EXCEPT ![s] = "asoc"]
    /\ UNCHANGED <<poolVars, queueVars, bufVars, giveback, scheduled, lock,
                   blocked, backing, cannot_tx, stopped, pc, frame, dest,
                   aggVars>>

SetCannotTx ==
    /\ CanStop /\ ~cannot_tx /\ cannot_tx' = TRUE
    /\ UNCHANGED <<poolVars, queueVars, bufVars, giveback, scheduled, lock,
                   blocked, backing, sta, stopped, pc, frame, dest, aggVars>>

Environment ==
    \/ rtw_leave_opch \/ rtw_back_opch \/ XmitSchedule \/ SetCannotTx
    \/ \E s \in Leavers : Unhash(s) \/ FlushXmit(s) \/ Associate(s)

Next ==
    \/ \E x \in Senders : Sender(x)
    \/ TaskletStep
    \/ \E b \in Bufs : Complete(b)
    \/ CompleteSchedule
    \/ Environment

Spec == Init /\ [][Next]_vars

\* Tasklets, softirqs and the stack's senders run on once started; whoever
\* waits for xmitpriv.lock gets it (a queued spinlock); the USB core
\* completes URBs; the command thread comes back to the channel.
Fairness ==
    /\ \A x \in Senders :
         WF_vars(CheckStop(x) \/ PreXmit(x) \/ XmitEnqueue(x) \/ Direct(x)
                   \/ FreeFrame(x) \/ WakeQueue(x))
    /\ WF_vars(TaskletStep) /\ SF_vars(Pick \/ Lock)
    /\ WF_vars(\E b \in Bufs : Complete(b)) /\ WF_vars(CompleteSchedule)
    /\ WF_vars(rtw_back_opch) /\ SF_vars(XmitSchedule)

LiveSpec == Spec /\ Fairness

----------------------------------------------------------------------------
(* Safety                                                                  *)

\* A frame waits in a queue, or is about to be put there.
Work ==
    \/ \E q \in Servqs : sta_pending[q] # <<>>
    \/ \E x \in Senders : pc[x] = "enqueue"

\* Somebody who will look at the queues, or have the tasklet do it.
Waker ==
    \/ scheduled \/ giveback \/ urb # {}
    \/ pc[Tasklet] \notin {"idle", "release"}

\* No frame is forgotten: while frames wait and nothing forbids sending, the
\* tasklet is scheduled, at work, or will be scheduled by the completion of
\* a URB.  pre_xmitframe relies on it: it queues a frame that found no
\* buffer, or arrived off channel, and schedules nothing.
NoStranded == Work /\ ~blocked /\ ~backing /\ ~cannot_tx => Waker

\* The two lists agree: a station is linked into the AC's list exactly once
\* if it has frames waiting there, and not at all otherwise, whenever the
\* lock that protects them is free.
ListsAgree ==
    lock = None =>
        \A q \in Servqs :
            LET sq == sta_queue[q.ac]
            IN  /\ Linked(sq, q.sta) <=> sta_pending[q] # <<>>
                /\ \A i, j \in DOMAIN sq : sq[i] = sq[j] => i = j

InHand(h) == IF pc[h] = "wake" THEN {} ELSE {frame[h]} \ {None}

\* Every frame of the pool is in one place: free, waiting in one queue, in
\* the hands of one context, or the tasklet's first frame; none is lost and
\* none is freed twice, on any error path.
FrameConserved ==
    LET held    == UNION {InHand(h) : h \in Holders}
        waiting == UNION {Range(sta_pending[q]) : q \in Servqs}
    IN  /\ Frames = free_xmit_queue \cup held \cup waiting \cup ({first} \ {None})
        /\ free_xmit_queue \cap (held \cup waiting) = {}
        /\ held \cap waiting = {}
        /\ first \notin free_xmit_queue \cup held \cup waiting
        /\ \A g, h \in Holders : g = h \/ InHand(g) \cap InHand(h) = {}
        /\ \A q, r \in Servqs :
              \A i \in DOMAIN sta_pending[q], j \in DOMAIN sta_pending[r] :
                  sta_pending[q][i] = sta_pending[r][j] => q = r /\ i = j

\* The same of a transmit buffer: free, with the USB core, or held by one
\* context.
BufConserved ==
    LET held == {xbuf[h] : h \in Holders} \ {None}
    IN  /\ Bufs = free_xmitbuf \cup urb \cup held
        /\ free_xmitbuf \cap urb = {}
        /\ (free_xmitbuf \cup urb) \cap held = {}
        /\ \A g, h \in Holders : xbuf[g] = xbuf[h] => g = h \/ xbuf[g] = None

\* A frame of the OS queue is outstanding: rtw_free_xmitframe is yet to be
\* called for it, or has yet to wake the queue.
HasWaker(ac) ==
    \/ \E h \in Holders : IF pc[h] = "wake" THEN dest[h].ac = ac
                         ELSE frame[h] # None /\ os_qid[frame[h]] = ac
    \/ first # None /\ os_qid[first] = ac
    \/ \E q \in Servqs : \E i \in DOMAIN sta_pending[q] :
          os_qid[sta_pending[q][i]] = ac

\* rtw_free_xmitframe reads os_qid of a frame that is back in the pool: it
\* has been allocated anew by then, and another queue is woken.
Misdirected(ac) ==
    \E h \in Holders : WakeQueue(h) /\ dest[h].ac = ac /\ os_qid[frame[h]] # ac

\* An OS queue is stopped only while a frame of it is outstanding, and no
\* step takes a stopped queue its last one without waking it, but for that
\* one: no error path, flush of a station or race of rtw_os_check_stop_queue
\* with the completions leaves a queue stopped for good.
WakersKept ==
    [][\A ac \in stopped' :
          HasWaker(ac)' \/ Misdirected(ac) \/ (ac \in stopped /\ ~HasWaker(ac))]_vars

\* What the driver relies on: a stopped OS queue will be woken.  It holds
\* where there is one AC, and Misdirected breaks it where there are more.
StopHasWaker == \A ac \in stopped : HasWaker(ac)

----------------------------------------------------------------------------
(* Liveness                                                                *)

Waits(f) == \E q \in Servqs : f \in Range(sta_pending[q])

\* Transmission stays possible: the interface is not always on its way off
\* the channel, and is not stopped.
Open == <>[]~blocked /\ []~cannot_tx

\* Every queued frame leaves its queue: no wakeup of the tasklet is lost, and
\* the tasklet finds a buffer although the senders compete for them.
FrameLeaves == Open => \A f \in Frames : Waits(f) ~> ~Waits(f)

\* Every stopped OS queue is woken.
QueueWoken == Open => \A ac \in Acs : ac \in stopped ~> ac \notin stopped

====
