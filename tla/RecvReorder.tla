---------------------------- MODULE RecvReorder ----------------------------
(***************************************************************************)
(* The receive reorder buffer of one TID of one station                    *)
(* (core/rtw_recv.c, struct recv_reorder_ctrl) with its three actors: the  *)
(* receive tasklet, the reordering timer and whoever changes the block ack *)
(* agreement or frees the station.  The pending queue's lock serialises    *)
(* the tasklet and the timer only; the others write without it, and the    *)
(* tasklet cancels the timer after it has dropped the lock.                *)
(*                                                                         *)
(* Frames are numbered as the sender numbers them, without wrapping; the   *)
(* code sees a frame's number modulo Mod.  The sender (external) keeps to  *)
(* its transmit window: it sends, and sends again, only frames of it.      *)
(***************************************************************************)
EXTENDS Integers, Sequences

CONSTANTS
    Mod,      \* number of sequence numbers: 4096
    WSize,    \* preorder_ctrl->wsize_b: 64
    TxWin,    \* the sender's window, at most WSize
    First,    \* the sender's first frame
    MaxN,     \* bound: the sender's last frame
    MaxGap,   \* bound: frames lost in a row, whatever BARs come between
    MaxBa     \* bound: changes of the agreement

ASSUME WindowAssumption ==
    /\ Mod \in Nat /\ WSize \in Nat \ {0} /\ TxWin \in 1..WSize
    /\ First \in Nat /\ MaxN \in Nat /\ First <= MaxN /\ MaxGap \in Nat
    /\ MaxBa \in Nat
    /\ Mod % 2 = 0 /\ WSize + TxWin + MaxGap < Mod \div 2

VARIABLES
    enable, indicate_seq, queue, bReorderWaiting,  \* recv_reorder_ctrl
    rec_abba_rsp_ack,  \* its RTW_RECV_ACK_OR_TIMEOUT bit
    armed,     \* reordering_ctrl_timer is pending
    qlock,     \* holder of pending_recvframe_queue.lock
    rx, cur,   \* the receive tasklet, and the frame it has in hand
    tm,        \* the timer's handler
    sta,       \* the station, as far as rtw_free_stainfo has gone
    stopped,   \* RTW_CANNOT_RUN
    base, hi,  \* the sender's window start, the last frame received
    last, ordered, \* history: last frame indicated; all were in order
    bas,       \* changes of the agreement so far
    moved,     \* history: the window start was set aside from the stream
    inflight   \* history: the tasklet held a frame when the sta was unhashed

ctrlVars == <<enable, indicate_seq, queue, bReorderWaiting, rec_abba_rsp_ack>>
rxVars   == <<rx, cur>>
sendVars == <<base, hi>>
histVars == <<last, ordered, moved, inflight, bas>>
vars == <<ctrlVars, armed, qlock, rxVars, tm, sta, stopped, sendVars, histVars>>

SN(n) == n % Mod

\* 0xFFFF: like it, congruent to Mod - 1 and equal to no sequence number.
NoSeq == 2 * Mod - 1

SN_LESS(a, b) == (a - b) % Mod >= Mod \div 2

\* The frame is handed to recv_process_mpdu.
Indicate(n) ==
    /\ last' = n
    /\ ordered' = (ordered /\ n > last)

-----------------------------------------------------------------------------
(* The sender (external).                                                  *)

\* The window moves on: the first frame was acknowledged, or given up.
Advance ==
    /\ base <= hi + MaxGap
    /\ base < MaxN
    /\ base' = base + 1
    /\ UNCHANGED <<ctrlVars, armed, qlock, rxVars, tm, sta, stopped, hi,
                   histVars>>

-----------------------------------------------------------------------------
(* The receive tasklet.                                                    *)

\* A data frame arrives and its station is found in the hash table.
RecvFrame(n) ==
    /\ rx = "idle"
    /\ sta = "linked" /\ ~stopped
    /\ n \in base..(base + TxWin - 1)
    /\ rx' = "test"
    /\ cur' = n
    /\ hi' = IF n > hi THEN n ELSE hi
    /\ UNCHANGED <<ctrlVars, armed, qlock, tm, sta, stopped, base, histVars>>

\* recv_indicatepkt_reorder: is there an agreement?
RecvTest ==
    /\ rx = "test"
    /\ rx' = IF enable THEN "reorder" ELSE "before"
    /\ UNCHANGED <<ctrlVars, armed, qlock, cur, tm, sta, stopped, sendVars,
                   histVars>>

\* Without one: recv_set_iseq_before_mpdu_process, recv_process_mpdu.
RecvBefore ==
    /\ rx = "before"
    /\ rx' = "after"
    /\ indicate_seq' = SN(cur)
    /\ Indicate(cur)
    /\ moved' = TRUE
    /\ UNCHANGED <<enable, queue, bReorderWaiting, rec_abba_rsp_ack, armed,
                   qlock, cur, tm, sta, stopped, sendVars, inflight, bas>>

\* recv_set_iseq_after_mpdu_process.
RecvAfter ==
    /\ rx = "after"
    /\ rx' = "idle"
    /\ indicate_seq' = (indicate_seq + 1) % Mod
    /\ UNCHANGED <<enable, queue, bReorderWaiting, rec_abba_rsp_ack, armed,
                   qlock, cur, tm, sta, stopped, sendVars, histVars>>

\* check_indicate_seq: the window start for a frame numbered seq ...
Start(seq) ==
    IF rec_abba_rsp_ack \/ indicate_seq = NoSeq THEN seq ELSE indicate_seq

\* ... which is dropped when it lies before the window ...
TooOld(seq) == SN_LESS(seq, Start(seq))

\* Variant: the window start is not reduced modulo 4096.
ShiftedNoMask(seq) ==
    LET s == Start(seq)
        wend == (s + WSize - 1) % Mod
    IN IF TooOld(seq) THEN s
       ELSE IF seq = s THEN s + 1
       ELSE IF SN_LESS(wend, seq) THEN (seq + 1 - WSize) % Mod
       ELSE s

\* Variant: a frame after the window does not shift it.
ShiftedNever(seq) ==
    LET s == Start(seq)
    IN IF seq = s THEN (s + 1) % Mod ELSE s

\* ... and moves the window when it is its first frame or lies after it.
Shifted(seq) ==
    LET s == Start(seq)
        wend == (s + WSize - 1) % Mod
    IN IF TooOld(seq) THEN s
       ELSE IF seq = s THEN (s + 1) % Mod
       ELSE IF SN_LESS(wend, seq) THEN (seq + 1 - WSize) % Mod
       ELSE s

\* enqueue_reorder_recvframe: the place of a frame in the sorted queue.
Place(seq) ==
    CHOOSE i \in 1..(Len(queue) + 1) :
        /\ \A j \in 1..(i - 1) : SN_LESS(SN(queue[j]), seq)
        /\ i <= Len(queue) => ~SN_LESS(SN(queue[i]), seq)

Duplicate(seq) ==
    Place(seq) <= Len(queue) /\ SN(queue[Place(seq)]) = seq

\* Variant: a frame is put at the end of the queue.
EnqueueTail(n) == Append(queue, n)

Enqueue(n) ==
    LET i == Place(SN(n))
    IN SubSeq(queue, 1, i - 1) \o <<n>> \o SubSeq(queue, i, Len(queue))

\* recv_indicatepkt_reorder under the lock, up to the indication.
RecvReorder ==
    /\ rx = "reorder"
    /\ qlock = "free"
    /\ rec_abba_rsp_ack' = FALSE
    /\ indicate_seq' = Shifted(SN(cur))
    /\ \/ /\ TooOld(SN(cur)) \/ Duplicate(SN(cur))
          /\ rx' = "idle"
          /\ UNCHANGED <<queue, qlock>>
       \/ /\ ~(TooOld(SN(cur)) \/ Duplicate(SN(cur)))
          /\ queue' = Enqueue(cur)
          /\ rx' = "deliver"
          /\ qlock' = "rx"
    /\ UNCHANGED <<enable, bReorderWaiting, armed, cur, tm, sta, stopped,
                   sendVars, histVars>>

\* recv_indicatepkts_in_order: the head of the queue is due.
Due == queue # <<>> /\ ~SN_LESS(indicate_seq, SN(Head(queue)))

\* One turn of its loop, in the tasklet or in the timer.
Deliver(w) ==
    /\ qlock = w
    /\ w = "rx" => rx = "deliver"
    /\ w = "tm" => tm = "deliver"
    /\ Due
    /\ queue' = Tail(queue)
    /\ indicate_seq' = IF indicate_seq = SN(Head(queue))
                          THEN (indicate_seq + 1) % Mod ELSE indicate_seq
    /\ Indicate(Head(queue))
    /\ UNCHANGED <<enable, bReorderWaiting, rec_abba_rsp_ack, armed, qlock,
                   rxVars, tm, sta, stopped, sendVars, moved, inflight, bas>>

\* Variant: the timer is armed only for the first frame of a session.
RecvEndNoReset ==
    /\ rx = "deliver"
    /\ ~Due
    /\ qlock' = "free"
    /\ \/ /\ queue # <<>>
          /\ bReorderWaiting' = TRUE
          /\ armed' = (armed \/ ~bReorderWaiting)
          /\ rx' = "idle"
       \/ /\ queue = <<>>
          /\ rx' = "cancel"
          /\ UNCHANGED <<bReorderWaiting, armed>>
    /\ UNCHANGED <<enable, indicate_seq, queue, rec_abba_rsp_ack, cur, tm,
                   sta, stopped, sendVars, histVars>>

\* The rest of recv_indicatepkt_reorder: frames are left, or none.
RecvEnd ==
    /\ rx = "deliver"
    /\ ~Due
    /\ qlock' = "free"
    /\ \/ /\ queue # <<>>
          /\ bReorderWaiting' = TRUE
          /\ armed' = (armed \/ ~bReorderWaiting)
          /\ rx' = "idle"
       \/ /\ queue = <<>>
          /\ bReorderWaiting' = FALSE
          /\ rx' = "cancel"
          /\ UNCHANGED armed
    /\ UNCHANGED <<enable, indicate_seq, queue, rec_abba_rsp_ack, cur, tm,
                   sta, stopped, sendVars, histVars>>

\* _cancel_timer_ex, without the lock: waits until the handler is done.
RecvCancel ==
    /\ rx = "cancel"
    /\ tm = "idle"
    /\ armed' = FALSE
    /\ rx' = "idle"
    /\ UNCHANGED <<ctrlVars, qlock, cur, tm, sta, stopped, sendVars, histVars>>

\* rtw_process_bar_frame: the window start is set, without the lock.
RecvBar ==
    /\ rx = "idle"
    /\ sta = "linked" /\ ~stopped
    /\ indicate_seq' = SN(base)
    /\ moved' = \/ moved \/ indicate_seq = NoSeq
                \/ SN_LESS(SN(base), indicate_seq)
    /\ UNCHANGED <<enable, queue, bReorderWaiting, rec_abba_rsp_ack, armed,
                   qlock, rxVars, tm, sta, stopped, sendVars, last, ordered,
                   inflight, bas>>

-----------------------------------------------------------------------------
(* rtw_reordering_ctrl_timeout_handler.                                    *)

TimerExpire ==
    /\ armed
    /\ tm = "idle"
    /\ armed' = FALSE
    /\ tm' = IF stopped THEN "idle" ELSE "fired"
    /\ UNCHANGED <<ctrlVars, qlock, rxVars, sta, stopped, sendVars, histVars>>

\* Variant: the handler indicates without forcing the window to the head.
TimerForceNot ==
    /\ tm = "fired"
    /\ qlock = "free"
    /\ bReorderWaiting' = FALSE
    /\ \/ /\ queue = <<>>
          /\ armed' = TRUE
          /\ tm' = "idle"
          /\ UNCHANGED qlock
       \/ /\ queue # <<>>
          /\ qlock' = "tm"
          /\ tm' = "deliver"
          /\ UNCHANGED armed
    /\ UNCHANGED <<enable, indicate_seq, queue, rec_abba_rsp_ack, rxVars, sta,
                   stopped, sendVars, histVars>>

\* The forced indication starts at the head; an empty queue is reported like
\* one with frames left.
TimerForce ==
    /\ tm = "fired"
    /\ qlock = "free"
    /\ bReorderWaiting' = FALSE
    /\ \/ /\ queue = <<>>
          /\ armed' = TRUE
          /\ tm' = "idle"
          /\ UNCHANGED <<indicate_seq, qlock>>
       \/ /\ queue # <<>>
          /\ indicate_seq' = SN(Head(queue))
          /\ qlock' = "tm"
          /\ tm' = "deliver"
          /\ UNCHANGED armed
    /\ UNCHANGED <<enable, queue, rec_abba_rsp_ack, rxVars, sta, stopped,
                   sendVars, histVars>>

TimerEnd ==
    /\ tm = "deliver"
    /\ ~Due
    /\ armed' = (armed \/ queue # <<>>)
    /\ qlock' = "free"
    /\ tm' = "idle"
    /\ UNCHANGED <<ctrlVars, rxVars, sta, stopped, sendVars, histVars>>

-----------------------------------------------------------------------------
(* The block ack agreement, without the lock.                              *)

\* add_ba_rsp_hdl, for a request accepted or rejected.
AddBaRsp(accept) ==
    /\ sta = "linked"
    /\ bas < MaxBa
    /\ bas' = bas + 1
    /\ rec_abba_rsp_ack' = TRUE
    /\ enable' = accept
    /\ moved' = TRUE
    /\ UNCHANGED <<indicate_seq, queue, bReorderWaiting, armed, qlock, rxVars,
                   tm, sta, stopped, sendVars, last, ordered, inflight>>

\* A DELBA received, or sent by _send_delba_sta_tid or rtw_delba_check.
DelBa ==
    /\ sta = "linked"
    /\ bas < MaxBa
    /\ bas' = bas + 1
    /\ enable
    /\ enable' = FALSE
    /\ moved' = TRUE
    /\ UNCHANGED <<indicate_seq, queue, bReorderWaiting, rec_abba_rsp_ack,
                   armed, qlock, rxVars, tm, sta, stopped, sendVars, last,
                   ordered, inflight>>

\* rtw_joinbss_update_stainfo: the controls of a station that is kept.
JoinReset ==
    /\ sta = "linked"
    /\ bas < MaxBa
    /\ bas' = bas + 1
    /\ enable' = FALSE
    /\ indicate_seq' = NoSeq
    /\ rec_abba_rsp_ack' = FALSE
    /\ moved' = TRUE
    /\ UNCHANGED <<queue, bReorderWaiting, armed, qlock, rxVars, tm, sta,
                   stopped, sendVars, last, ordered, inflight>>

-----------------------------------------------------------------------------
(* rtw_free_stainfo.                                                       *)

FreeUnhash ==
    /\ sta = "linked"
    /\ sta' = "unhashed"
    /\ inflight' = (rx # "idle")
    /\ UNCHANGED <<ctrlVars, armed, qlock, rxVars, tm, stopped, sendVars, last,
                   ordered, moved, bas>>

\* Variant: the cancel does not wait for a handler that runs.
FreeCancelAsync ==
    /\ sta = "unhashed"
    /\ sta' = "cancelled"
    /\ rec_abba_rsp_ack' = FALSE
    /\ armed' = FALSE
    /\ UNCHANGED <<enable, indicate_seq, queue, bReorderWaiting, qlock, rxVars,
                   tm, stopped, sendVars, histVars>>

\* rtw_free_stainfo_flush_recv: the timer ...
FreeCancel ==
    /\ sta = "unhashed"
    /\ tm = "idle"
    /\ sta' = "cancelled"
    /\ rec_abba_rsp_ack' = FALSE
    /\ armed' = FALSE
    /\ UNCHANGED <<enable, indicate_seq, queue, bReorderWaiting, qlock, rxVars,
                   tm, stopped, sendVars, histVars>>

\* ... and then, under the lock, the frames.
FreePurge ==
    /\ sta = "cancelled"
    /\ qlock = "free"
    /\ sta' = "freed"
    /\ queue' = <<>>
    /\ UNCHANGED <<enable, indicate_seq, bReorderWaiting, rec_abba_rsp_ack,
                   armed, qlock, rxVars, tm, stopped, sendVars, histVars>>

\* rtw_set_drv_stopped or rtw_set_surprise_removed.
Stop ==
    /\ ~stopped
    /\ stopped' = TRUE
    /\ UNCHANGED <<ctrlVars, armed, qlock, rxVars, tm, sta, sendVars, histVars>>

-----------------------------------------------------------------------------
\* rtw_alloc_stainfo, and an agreement that has just been accepted.
Init ==
    /\ enable = TRUE /\ rec_abba_rsp_ack = TRUE
    /\ indicate_seq = NoSeq
    /\ queue = <<>>
    /\ bReorderWaiting = FALSE
    /\ armed = FALSE
    /\ qlock = "free"
    /\ rx = "idle" /\ cur = First
    /\ tm = "idle"
    /\ sta = "linked"
    /\ stopped = FALSE
    /\ base = First /\ hi = First - 1
    /\ last = First - 1 /\ ordered = TRUE
    /\ moved = FALSE
    /\ bas = 0
    /\ inflight = FALSE

RxStep ==
    RecvTest \/ RecvBefore \/ RecvAfter \/ RecvReorder \/ RecvEnd \/ RecvCancel

TimerStep == TimerForce \/ TimerEnd

Next ==
    \/ Advance
    \/ \E n \in First..MaxN : RecvFrame(n)
    \/ RxStep
    \/ RecvBar
    \/ \E w \in {"rx", "tm"} : Deliver(w)
    \/ TimerExpire
    \/ TimerStep
    \/ \E accept \in BOOLEAN : AddBaRsp(accept)
    \/ DelBa
    \/ JoinReset
    \/ FreeUnhash \/ FreeCancel \/ FreePurge
    \/ Stop

Spec == Init /\ [][Next]_vars

-----------------------------------------------------------------------------
\* Every variable holds a value its declaration allows.
TypeOK ==
    /\ enable \in BOOLEAN
    /\ indicate_seq \in 0..(Mod - 1) \cup {NoSeq}
    /\ queue \in Seq(First..MaxN)
    /\ bReorderWaiting \in BOOLEAN
    /\ rec_abba_rsp_ack \in BOOLEAN
    /\ armed \in BOOLEAN
    /\ qlock \in {"free", "rx", "tm"}
    /\ rx \in {"idle", "test", "before", "after", "reorder", "deliver",
               "cancel"}
    /\ cur \in First..MaxN
    /\ tm \in {"idle", "fired", "deliver"}
    /\ sta \in {"linked", "unhashed", "cancelled", "freed"}
    /\ stopped \in BOOLEAN
    /\ base \in First..MaxN
    /\ hi \in (First - 1)..MaxN
    /\ last \in (First - 1)..MaxN
    /\ ordered \in BOOLEAN
    /\ moved \in BOOLEAN
    /\ inflight \in BOOLEAN
    /\ bas \in 0..MaxBa

\* What reordering is for: within one agreement the frames go up in the
\* sender's order and none twice, across lost frames, retransmissions, the
\* wrap of the sequence numbers, window shifts, forced indications and BARs
\* that do not lie behind the window.
InOrder == ~moved => ordered

\* No frame is stranded: although recv_indicatepkt_reorder cancels the timer
\* after it has dropped the lock, and skips arming it while bReorderWaiting
\* is set, the timer is armed between the calls whenever frames wait.
TimerForPending ==
    rx = "idle" /\ tm = "idle" /\ ~stopped /\ sta = "linked" /\ queue # <<>>
        => armed

\* Within one agreement the pending queue holds fewer frames than the window
\* between the calls, also after a BAR has moved the window past frames that
\* rtw_process_bar_frame leaves in it.
PendingBounded == ~moved /\ qlock = "free" => Len(queue) < WSize

\* rtw_free_stainfo leaves no frame and no timer behind on a station that
\* goes back to the free queue, when no frame was on its way through the
\* tasklet as the station left the hash table.
FreedQuiet ==
    sta = "freed" /\ ~inflight => queue = <<>> /\ ~armed /\ tm = "idle"

-----------------------------------------------------------------------------
(* Timers expire, softirqs and rtw_free_stainfo run to their end, and      *)
(* del_timer_sync gets hold of the timer between two runs of its handler.  *)
Fairness ==
    /\ WF_vars(RxStep) /\ SF_vars(RecvCancel)
    /\ WF_vars(TimerExpire) /\ WF_vars(TimerStep)
    /\ \A w \in {"rx", "tm"} : WF_vars(Deliver(w))
    /\ WF_vars(FreePurge)

\* The sender falls silent, as it does sooner or later: the hard case, for no
\* later frame pushes the waiting ones up.
Silence == <>[][~RecvBar /\ \A n \in First..MaxN : ~RecvFrame(n)]_vars

FairSpec == Spec /\ Fairness /\ Silence

\* No frame waits for ever in the pending queue for one that is lost, unless
\* the driver stops or, as for FreedQuiet, the frame was on its way through
\* the tasklet while its station was freed.
EventuallyIndicated ==
    queue # <<>> ~> queue = <<>> \/ stopped \/ inflight
=============================================================================
