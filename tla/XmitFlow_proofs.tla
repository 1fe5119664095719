-------------------------- MODULE XmitFlow_proofs --------------------------
(***************************************************************************)
(* No queued frame is stranded, the two lists of waiting frames agree, no  *)
(* frame and no transmit buffer is lost or freed twice, and no stopped OS  *)
(* queue loses its last frame without being woken: for every number of     *)
(* stations, access categories, forwarding contexts, frames and buffers    *)
(* that satisfy PoolAssumption.                                            *)
(***************************************************************************)
EXTENDS XmitFlowInv

\* ListInv of one station and AC; the distinctness of an AC's list.
ListOk(q) ==
    /\ IsSeq(sta_pending[q])
    /\ sta_pending[q] # <<>> => Linked(sta_queue[q.ac], q.sta)
    /\ Linked(sta_queue[q.ac], q.sta) => sta_pending[q] # <<>> \/ Served(q)

\* A queue's frames change at one end, its station is linked or unlinked,
\* the other queues and stations are left alone: enough for ListInv.
LEMMA ListKeeps ==
    ASSUME ListInv, NEW q \in Servqs,
           NEW fs, IsSeq(fs), sta_pending' = [sta_pending EXCEPT ![q] = fs],
           NEW sq \in Seq(Stas), Distinct(sq),
           sta_queue' = [sta_queue EXCEPT ![q.ac] = sq],
           \A s \in Stas \ {q.sta} : Linked(sq, s) <=> Linked(sta_queue[q.ac], s),
           fs # <<>> => Linked(sq, q.sta),
           Linked(sq, q.sta) => fs # <<>> \/ Served(q)',
           \A r \in Servqs \ {q} : Served(r) => Served(r)'
    PROVE  ListInv'
<1>1. q.ac \in Acs /\ q.sta \in Stas
    BY Zenon DEF Servqs
<1>2. /\ sta_queue' \in [Acs -> Seq(Stas)]
      /\ \A ac \in Acs : Distinct(sta_queue'[ac])
    BY <1>1, Zenon DEF ListInv
<1>3. /\ sta_pending' = [r \in Servqs |-> sta_pending'[r]]
      /\ sta_pending'[q] = fs
      /\ \A r \in Servqs \ {q} : sta_pending'[r] = sta_pending[r]
    BY Zenon DEF ListInv
<1>4. sta_queue'[q.ac] = sq /\ \A ac \in Acs \ {q.ac} : sta_queue'[ac] = sta_queue[ac]
    BY <1>1, Zenon DEF ListInv
<1>5. ASSUME NEW r \in Servqs PROVE ListOk(r)'
  <2>1. CASE r = q
    BY <1>3, <1>4, <2>1 DEF ListOk
  <2>2. CASE r # q
    <3>1. ListOk(r)
      BY Zenon DEF ListInv, ListOk
    <3>2. r.ac \in Acs /\ r.sta \in Stas /\ (r.ac = q.ac => r.sta # q.sta)
      BY <2>2 DEF Servqs
    <3>3. Linked(sta_queue'[r.ac], r.sta) <=> Linked(sta_queue[r.ac], r.sta)
      BY <1>4, <3>2, Zenon
    <3>4. sta_pending'[r] = sta_pending[r] /\ (Served(r) => Served(r)')
      BY <1>3, <2>2, Zenon
    <3>. QED
      BY <3>1, <3>3, <3>4, Zenon DEF ListOk
  <2>. QED
    BY <2>1, <2>2, Zenon
<1>. QED
    BY <1>2, <1>3, <1>5, Zenon DEF ListInv, ListOk

\* Every step keeps the station linked where frames wait, but for the queue
\* the tasklet is taking frames from under the lock.
LEMMA ListInvNext == Shape /\ LockInv /\ ListInv /\ [Next]_vars => ListInv'
<1>. SUFFICES ASSUME Shape, LockInv, ListInv, [Next]_vars PROVE ListInv'
    BY Zenon
<1>. USE SenderFacts DEF Shape, Goto
<1>0. ASSUME UNCHANGED queueVars, \A q \in Servqs : Served(q) => Served(q)'
      PROVE  ListInv'
    BY <1>0, Zenon DEF ListInv, queueVars
<1>1. ASSUME UNCHANGED <<queueVars, lock>>, lock = Tasklet => dest'[Tasklet] = dest[Tasklet]
      PROVE  ListInv'
    BY <1>0, <1>1, Zenon DEF Served
<1>2. ASSUME NEW x \in Senders, Sender(x) PROVE ListInv'
  <2>1. CASE \E q \in Servqs : Send(x, q)
    BY <1>1, <1>2, <2>1, Zenon DEF Send
  <2>2. CASE CheckStop(x)
    BY <1>1, <2>2, Zenon DEF CheckStop
  <2>3. CASE PreXmit(x)
    BY <1>0, <2>3, Zenon DEF PreXmit, Served
  <2>4. CASE XmitEnqueue(x)
    <3>0. PICK q \in Servqs : q = dest[x]
      BY Zenon
    <3>. DEFINE fs == Append(sta_pending[q], frame[x])
                sq == Link(sta_queue[q.ac], q.sta)
    <3>1. lock = x /\ lock' = None
      BY <2>4, Zenon DEF XmitEnqueue, LockInv
    <3>2. CASE Enqueue(frame[x], q)
      <4>1. q.ac \in Acs /\ q.sta \in Stas
        BY Zenon DEF Servqs
      <4>2. IsSeq(fs) /\ fs # <<>>
        BY <4>1, AppendFacts, Zenon DEF ListInv
      <4>3. /\ sq \in Seq(Stas) /\ Distinct(sq)
            /\ \A t \in Stas : Linked(sq, t) <=> Linked(sta_queue[q.ac], t) \/ t = q.sta
        BY <4>1, LinkFacts, Zenon DEF ListInv
      <4>4. /\ sta_pending' = [sta_pending EXCEPT ![q] = fs]
            /\ sta_queue' = [sta_queue EXCEPT ![q.ac] = sq]
        BY <3>2, Zenon DEF Enqueue
      <4>5. \A r \in Servqs : ~Served(r)
        BY <3>1, Zenon DEF Served
      <4>. HIDE DEF fs, sq
      <4>. QED
        BY <4>1, <4>2, <4>3, <4>4, <4>5, ListKeeps, Zenon
    <3>3. CASE UNCHANGED queueVars
      BY <1>0, <3>1, <3>3, Zenon DEF Served
    <3>. QED
      BY <2>4, <3>0, <3>2, <3>3, Zenon DEF XmitEnqueue
  <2>5. CASE Direct(x)
    BY <1>1, <2>5, Zenon DEF Direct
  <2>6. CASE FreeFrame(x)
    BY <1>1, <2>6, Zenon DEF FreeFrame
  <2>7. CASE WakeQueue(x)
    BY <1>1, <1>2, <2>7, Zenon DEF WakeQueue
  <2>. QED
    BY <1>2, <2>1, <2>2, <2>3, <2>4, <2>5, <2>6, <2>7, Zenon DEF Sender
<1>3. CASE TaskletStep
  <2>1. CASE Start
    BY <1>1, <2>1, Zenon DEF Start
  <2>2. CASE Check
    BY <1>1, <2>2, Zenon DEF Check
  <2>3. CASE Pick
    <3>1. lock = None /\ lock' = None /\ \A r \in Servqs : ~Served(r)
      BY <2>3, Zenon DEF Pick, Served
    <3>2. CASE UNCHANGED queueVars
      BY <1>0, <3>1, <3>2, Zenon
    <3>3. ASSUME NEW q \in Servqs, FirstServq(q), Dequeue(q) PROVE ListInv'
      <4>. DEFINE fs == Tail(sta_pending[q])
                  sq == IF Len(sta_pending[q]) = 1
                        THEN Unlink(sta_queue[q.ac], q.sta) ELSE sta_queue[q.ac]
      <4>1. q.ac \in Acs /\ q.sta \in Stas
        BY Zenon DEF Servqs
      <4>2. Linked(sta_queue[q.ac], q.sta)
        <5>1. sta_queue[q.ac] \in Seq(Stas) /\ sta_queue[q.ac] # <<>>
          BY <3>3, <4>1, Zenon DEF FirstServq, ListInv
        <5>2. 1 \in DOMAIN sta_queue[q.ac] /\ sta_queue[q.ac][1] = q.sta
          BY <3>3, <5>1 DEF FirstServq
        <5>. QED
          BY <5>2, Zenon DEF Linked
      <4>3. sta_pending[q] # <<>> /\ IsSeq(sta_pending[q])
        BY <3>1, <4>2, Zenon DEF ListInv
      <4>4. IsSeq(fs) /\ (fs = <<>> <=> Len(sta_pending[q]) = 1)
        BY <4>3, TailFacts, Zenon
      <4>5. /\ sq \in Seq(Stas) /\ Distinct(sq)
            /\ \A t \in Stas :
                  Linked(sq, t) <=> Linked(sta_queue[q.ac], t) /\ (t = q.sta => fs # <<>>)
        BY <4>1, <4>4, UnlinkFacts, Zenon DEF ListInv
      <4>6. /\ sta_pending' = [sta_pending EXCEPT ![q] = fs]
            /\ sta_queue' = [sta_queue EXCEPT ![q.ac] = sq]
        BY <3>3, Zenon DEF Dequeue
      <4>. HIDE DEF fs, sq
      <4>. QED
        BY <3>1, <4>1, <4>2, <4>4, <4>5, <4>6, ListKeeps, Zenon
    <3>. QED
      BY <2>3, <3>2, <3>3, Zenon DEF Pick
  <2>4. CASE Release
    BY <1>1, <2>4, Zenon DEF Release
  <2>5. CASE Lock
    BY <1>0, <2>5, Zenon DEF Lock, Served
  <2>6. CASE Aggregate
    <3>0. PICK q \in Servqs : q = dest[Tasklet]
      BY Zenon
    <3>. DEFINE fs == Tail(sta_pending[q])
    <3>1. /\ lock = Tasklet /\ UNCHANGED <<lock, dest, sta_queue>>
          /\ sta_pending[q] # <<>>
          /\ sta_pending' = [sta_pending EXCEPT ![q] = fs]
      BY <2>6, <3>0, Zenon DEF Aggregate, LockInv
    <3>2. q.ac \in Acs /\ IsSeq(fs)
      BY <3>1, TailFacts, Zenon DEF Servqs, ListInv
    <3>3. /\ sta_queue[q.ac] \in Seq(Stas) /\ Distinct(sta_queue[q.ac])
          /\ sta_queue' = [sta_queue EXCEPT ![q.ac] = sta_queue[q.ac]]
          /\ Linked(sta_queue[q.ac], q.sta)
      BY <3>1, <3>2, Zenon DEF ListInv
    <3>4. Served(q)' /\ \A r \in Servqs \ {q} : Served(r) => Served(r)'
      BY <3>0, <3>1, Zenon DEF Served
    <3>. HIDE DEF fs
    <3>. QED
      BY <3>1, <3>2, <3>3, <3>4, ListKeeps, Zenon
  <2>7. CASE AggEnd
    <3>0. PICK q \in Servqs : q = dest[Tasklet]
      BY Zenon
    <3>. DEFINE fs == sta_pending[q]
                sq == Requeue(q)
    <3>1. /\ lock = Tasklet /\ lock' = None /\ UNCHANGED <<dest, sta_pending>>
          /\ sta_queue' = [sta_queue EXCEPT ![q.ac] = sq]
      BY <2>7, <3>0, Zenon DEF AggEnd, LockInv
    <3>2. /\ q.ac \in Acs /\ q.sta \in Stas /\ IsSeq(fs)
          /\ sta_pending' = [sta_pending EXCEPT ![q] = fs]
      BY <3>1, Zenon DEF Servqs, ListInv
    <3>3. /\ sq \in Seq(Stas) /\ Distinct(sq)
          /\ \A t \in Stas \ {q.sta} : Linked(sq, t) <=> Linked(sta_queue[q.ac], t)
          /\ Linked(sq, q.sta) <=> fs # <<>>
      <4>. DEFINE u == Unlink(sta_queue[q.ac], q.sta)
      <4>1. sta_queue[q.ac] \in Seq(Stas) /\ Distinct(sta_queue[q.ac])
        BY <3>2, Zenon DEF ListInv
      <4>2. /\ u \in Seq(Stas) /\ Distinct(u)
            /\ \A t \in Stas : Linked(u, t) <=> Linked(sta_queue[q.ac], t) /\ t # q.sta
        BY <3>2, <4>1, UnlinkFacts, Zenon
      <4>3. /\ Append(u, q.sta) = Link(u, q.sta)
            /\ Link(u, q.sta) \in Seq(Stas) /\ Distinct(Link(u, q.sta))
            /\ \A t \in Stas : Linked(Link(u, q.sta), t) <=> Linked(u, t) \/ t = q.sta
        BY <3>2, <4>2, LinkFacts DEF Link
      <4>4. fs # <<>> => Linked(sta_queue[q.ac], q.sta)
        BY <3>2, Zenon DEF ListInv
      <4>. HIDE DEF u
      <4>. QED
        BY <3>2, <4>1, <4>2, <4>3, <4>4, Zenon DEF Requeue, u
    <3>4. \A r \in Servqs \ {q} : ~Served(r)
      BY <3>0, Zenon DEF Served
    <3>5. /\ \A r \in Servqs \ {q} : Served(r) => Served(r)'
          /\ fs # <<>> => Linked(sq, q.sta)
          /\ Linked(sq, q.sta) => fs # <<>> \/ Served(q)'
      BY <3>3, <3>4, Zenon
    <3>. HIDE DEF fs, sq
    <3>. QED
      BY <3>1, <3>2, <3>3, <3>5, ListKeeps, Zenon
  <2>8. CASE SubmitAgg
    BY <1>1, <2>8, Zenon DEF SubmitAgg
  <2>9. CASE FreeFrame(Tasklet)
    BY <1>1, <2>9, Zenon DEF FreeFrame
  <2>10. CASE WakeQueue(Tasklet)
    BY <1>1, <2>10, Zenon DEF WakeQueue
  <2>. QED
    BY <1>3, <2>1, <2>2, <2>3, <2>4, <2>5, <2>6, <2>7, <2>8, <2>9, <2>10, Zenon
    DEF TaskletStep
<1>4. ASSUME NEW s \in Stas, FlushXmit(s) PROVE ListInv'
  <2>1. lock = None /\ UNCHANGED <<lock, dest>> /\ \A r \in Servqs : ~Served(r)
    BY <1>4, Zenon DEF FlushXmit, Served
  <2>2. /\ sta_pending' = [q \in Servqs |-> IF q.sta = s THEN <<>> ELSE sta_pending[q]]
        /\ sta_queue' = [ac \in Acs |-> Unlink(sta_queue[ac], s)]
    BY <1>4, Zenon DEF FlushXmit
  <2>3. \A ac \in Acs :
          /\ Unlink(sta_queue[ac], s) \in Seq(Stas) /\ Distinct(Unlink(sta_queue[ac], s))
          /\ \A t \in Stas :
                Linked(Unlink(sta_queue[ac], s), t) <=> Linked(sta_queue[ac], t) /\ t # s
    BY UnlinkFacts, Zenon DEF ListInv
  <2>4. /\ sta_queue' \in [Acs -> Seq(Stas)]
        /\ \A ac \in Acs : Distinct(sta_queue'[ac])
        /\ sta_pending' = [q \in Servqs |-> sta_pending'[q]]
    BY <2>2, <2>3, Zenon
  <2>5. IsSeq(<<>>)
    <3>1. <<>> \in Seq({})
      OBVIOUS
    <3>. QED
      BY <3>1, SeqIsSeq, Zenon
  <2>6. ASSUME NEW q \in Servqs PROVE ListOk(q)'
    <3>1. q.ac \in Acs /\ q.sta \in Stas
      BY Zenon DEF Servqs
    <3>2. /\ sta_pending'[q] = IF q.sta = s THEN <<>> ELSE sta_pending[q]
          /\ Linked(sta_queue'[q.ac], q.sta) <=> Linked(sta_queue[q.ac], q.sta) /\ q.sta # s
      BY <2>2, <2>3, <3>1, Zenon
    <3>. QED
      BY <2>1, <2>5, <3>2, Zenon DEF ListInv, ListOk
  <2>. QED
    BY <2>4, <2>6, Zenon DEF ListInv, ListOk
<1>5. ASSUME \/ (\E b \in Bufs : Complete(b)) \/ CompleteSchedule \/ Environment
             \/ UNCHANGED vars,
             \A s \in Stas : ~FlushXmit(s)
      PROVE  ListInv'
  <2>1. UNCHANGED <<queueVars, lock, dest>>
    <3>1. CASE \E b \in Bufs : Complete(b)
      BY <3>1, Zenon DEF Complete
    <3>2. CASE CompleteSchedule
      BY <3>2, Zenon DEF CompleteSchedule
    <3>3. CASE Environment
      BY <1>5, <3>3, ConstAssumption, Zenon DEF Environment, rtw_leave_opch,
          rtw_back_opch, XmitSchedule, SetCannotTx, Unhash, Associate
    <3>. QED
      BY <1>5, <3>1, <3>2, <3>3, Zenon DEF vars
  <2>. QED
    BY <1>1, <2>1, Zenon
<1>. QED
    BY <1>2, <1>3, <1>4, <1>5, Zenon DEF Next

\* When no buffer is free, one is with the USB core: the contexts that
\* hold the others are too few to hold all (PoolAssumption).
LEMMA EmptyPool ==
    ASSUME BufInv, free_xmitbuf = {}
    PROVE  urb # {}
<1>. SUFFICES ASSUME urb = {} PROVE FALSE
    BY Zenon
<1>1. \A b \in Bufs : \E h \in Holders : xbuf[h] = b
    BY Zenon DEF BufInv, BufConserved
<1>. DEFINE holder == [b \in Bufs |-> CHOOSE h \in Holders : xbuf[h] = b]
<1>2. \A b \in Bufs : holder[b] \in Holders /\ xbuf[holder[b]] = b
    BY <1>1, Zenon
<1>3. holder \in [Bufs -> Holders]
    BY <1>2, Zenon
<1>. HIDE DEF holder
<1>. QED
    BY <1>2, <1>3, PoolAssumption

\* With every AC's list empty and the lock free, no frame waits and none is
\* about to.
LEMMA NoWork ==
    ASSUME LockInv, ListInv, lock = None, \A ac \in Acs : sta_queue[ac] = <<>>
    PROVE  ~Work
<1>1. ASSUME NEW q \in Servqs PROVE sta_pending[q] = <<>>
  <2>1. ~Linked(sta_queue[q.ac], q.sta)
    BY DEF Linked, Servqs
  <2>. QED
    BY <2>1, Zenon DEF ListInv
<1>2. \A x \in Senders : pc[x] # "enqueue"
    BY SenderFacts, Zenon DEF LockInv
<1>. QED
    BY <1>1, <1>2, Zenon DEF Work

\* No step queues the first frame, finishes the tasklet or consumes the last
\* completion without leaving somebody to run the tasklet.
LEMMA NoStrandedNext == IInv /\ [Next]_vars => NoStranded'
<1>. SUFFICES ASSUME IInv, [Next]_vars,
                     Work', ~blocked', ~backing', ~cannot_tx'
              PROVE  Waker'
    BY Zenon DEF NoStranded
<1>0. /\ Shape /\ BufInv /\ LockInv /\ ListInv /\ pc \in [Holders -> Steps]
      /\ Work /\ ~blocked /\ ~backing /\ ~cannot_tx => Waker
    BY Zenon DEF IInv, NoStranded, Shape
<1>. USE SenderFacts DEF Goto
<1>1. ASSUME NEW x \in Senders, Sender(x) PROVE Waker'
  <2>1. /\ UNCHANGED <<scheduled, giveback, blocked, backing, cannot_tx>>
        /\ pc'[Tasklet] = pc[Tasklet] /\ urb \subseteq urb'
    BY <1>0, <1>1, SenderFrame, Zenon DEF envVars
  <2>2. CASE Work
    BY <1>0, <2>1, <2>2, Zenon DEF Waker
  <2>3. CASE ~Work
    <3>1. /\ \A y \in Senders : pc[y] # "enqueue"
          /\ \A q \in Servqs : sta_pending[q] = <<>>
      BY <2>3, Zenon DEF Work
    <3>2. ~XmitEnqueue(x)
      BY <3>1, Zenon DEF XmitEnqueue
    <3>3. UNCHANGED sta_pending
      BY <1>0, <1>1, <3>2, SenderFrame, Zenon
    <3>4. PICK y \in Senders : pc'[y] = "enqueue"
      BY <3>1, <3>3, Zenon DEF Work
    <3>5. PreXmit(x)
      BY <1>0, <1>1, <3>1, <3>4, SenderFrame, Zenon
    <3>6. pc' = [pc EXCEPT ![x] = "enqueue"]
      BY <1>0, <3>1, <3>4, <3>5, Zenon DEF PreXmit, Shape
    <3>7. AcPending(dest[x]) \/ blocked \/ free_xmitbuf = {}
      BY <1>0, <3>5, <3>6, Zenon DEF PreXmit, Shape
    <3>8. dest[x] \in Servqs /\ ~blocked
      BY <1>0, <2>1, Zenon DEF Shape
    <3>9. free_xmitbuf = {}
      BY <3>1, <3>7, <3>8, Zenon DEF AcPending
    <3>. QED
      BY <1>0, <2>1, <3>9, EmptyPool, Zenon DEF Waker
  <2>. QED
    BY <2>2, <2>3, Zenon
<1>2. CASE TaskletStep
  <2>1. UNCHANGED <<giveback, blocked, backing, cannot_tx>> /\ urb \subseteq urb'
    BY <1>2, TaskletFrame, Zenon DEF envVars
  <2>2. CASE Check
    BY <1>0, <2>1, <2>2, EmptyPool, Zenon DEF Check, Waker
  <2>3. CASE Pick
    <3>1. CASE \A ac \in Acs : sta_queue[ac] = <<>>
      <4>1. ~Work /\ UNCHANGED sta_pending /\ pc' = [pc EXCEPT ![Tasklet] = "release"]
        BY <1>0, <2>3, <3>1, NoWork, Zenon DEF Pick, queueVars
      <4>2. ~Work'
        BY <1>0, <4>1, Zenon DEF Work
      <4>. QED
        BY <4>2, Zenon
    <3>2. CASE ~ \A ac \in Acs : sta_queue[ac] = <<>>
      BY <1>0, <2>3, <3>2, Zenon DEF Pick, Waker
    <3>. QED
      BY <3>1, <3>2, Zenon
  <2>4. CASE Release
    <3>1. /\ UNCHANGED <<sta_pending, scheduled>>
          /\ pc[Tasklet] = "release" /\ pc' = [pc EXCEPT ![Tasklet] = "idle"]
      BY <2>4, Zenon DEF Release, queueVars
    <3>2. Work
      BY <1>0, <3>1, Zenon DEF Work
    <3>. QED
      BY <1>0, <2>1, <3>1, <3>2, Zenon DEF Waker
  <2>5. CASE Start \/ Lock \/ Aggregate \/ AggEnd \/ SubmitAgg
                  \/ FreeFrame(Tasklet) \/ WakeQueue(Tasklet)
    <3>1. pc'[Tasklet] \in {"check", "agg", "free", "submit", "wake", "pick"}
      BY <1>0, <2>5, Zenon DEF Start, Lock, Aggregate, AggEnd, SubmitAgg, FreeFrame,
          WakeQueue, AfterFree
    <3>. QED
      BY <3>1, Zenon DEF Waker
  <2>. QED
    BY <1>2, <2>2, <2>3, <2>4, <2>5, Zenon DEF TaskletStep
<1>3. CASE (\E b \in Bufs : Complete(b)) \/ CompleteSchedule
    BY <1>3, Zenon DEF Complete, CompleteSchedule, Waker
<1>4. CASE Environment
  <2>1. UNCHANGED <<pc, urb, giveback>>
    BY <1>4, Zenon DEF Environment, rtw_leave_opch, rtw_back_opch, XmitSchedule,
        SetCannotTx, Unhash, FlushXmit, Associate, bufVars
  <2>2. CASE XmitSchedule
    <3>1. /\ lock = None /\ UNCHANGED sta_pending
          /\ (\E ac \in Acs : sta_queue[ac] # <<>>) => scheduled'
      BY <2>2, Zenon DEF XmitSchedule, queueVars
    <3>2. Work
      BY <2>1, <3>1, Zenon DEF Work
    <3>. QED
      BY <1>0, <3>1, <3>2, NoWork, Zenon DEF Waker
  <2>3. CASE ~XmitSchedule
    <3>1. /\ ~blocked /\ ~backing /\ ~cannot_tx /\ UNCHANGED scheduled
          /\ \A q \in Servqs : sta_pending'[q] # <<>> => sta_pending[q] # <<>>
      <4>1. CASE rtw_leave_opch \/ rtw_back_opch \/ SetCannotTx
        BY <4>1, Zenon DEF rtw_leave_opch, rtw_back_opch, SetCannotTx
      <4>2. CASE \E s \in Leavers : Unhash(s) \/ Associate(s)
        BY <4>2 DEF Unhash, Associate, queueVars
      <4>3. CASE \E s \in Leavers : FlushXmit(s)
        BY <4>3 DEF FlushXmit
      <4>. QED
        BY <1>4, <2>3, <4>1, <4>2, <4>3, Zenon DEF Environment
    <3>2. Work
      BY <2>1, <3>1, Zenon DEF Work
    <3>. QED
      BY <1>0, <2>1, <3>1, <3>2, Zenon DEF Waker
  <2>. QED
    BY <2>2, <2>3, Zenon
<1>5. CASE UNCHANGED vars
  <2>1. UNCHANGED <<pc, sta_pending, scheduled, giveback, urb, blocked, backing, cannot_tx>>
    BY <1>5, Zenon DEF vars, bufVars, envVars, queueVars
  <2>. QED
    BY <1>0, <2>1, Zenon DEF Work, Waker
<1>. QED
    BY <1>1, <1>2, <1>3, <1>4, <1>5, Zenon DEF Next

-----------------------------------------------------------------------------
(* The theorems                                                            *)

-----------------------------------------------------------------------------
(* Who wakes a stopped OS queue                                            *)

\* HasWaker by where the frames are, without a look at os_qid.
Outstanding(ac) ==
    \/ \E h \in Holders : frame[h] # None /\ dest[h].ac = ac
    \/ first # None /\ dest[Tasklet].ac = ac
    \/ \E q \in Servqs : q.ac = ac /\ sta_pending[q] # <<>>

\* The two are the same: os_qid of a frame that is not in the pool is the AC
\* it was sent to.
LEMMA WakerOutstanding ==
    ASSUME Shape, FrameInv, NEW ac \in Acs
    PROVE  HasWaker(ac) <=> Outstanding(ac)
<1>1. ASSUME NEW h \in Holders
      PROVE  (IF pc[h] = "wake" THEN dest[h].ac = ac
              ELSE frame[h] # None /\ os_qid[frame[h]] = ac)
               <=> frame[h] # None /\ dest[h].ac = ac
  <2>1. pc[h] = "wake" => frame[h] # None
    BY FrameFacts, SenderFacts, Zenon DEF HandInv, Holders
  <2>2. pc[h] # "wake" /\ frame[h] # None => os_qid[frame[h]] = dest[h].ac
    BY FrameFacts, Zenon DEF OwnInv
  <2>. QED
    BY <2>1, <2>2, Zenon
<1>2. first # None => os_qid[first] = dest[Tasklet].ac
    BY FrameFacts, Zenon DEF OwnInv
<1>3. ASSUME NEW q \in Servqs
      PROVE  (\E i \in DOMAIN sta_pending[q] : os_qid[sta_pending[q][i]] = ac)
               <=> q.ac = ac /\ sta_pending[q] # <<>>
  <2>1. \A i \in DOMAIN sta_pending[q] : os_qid[sta_pending[q][i]] = q.ac
    BY FrameFacts, Zenon DEF OwnInv
  <2>2. sta_pending[q] \in Seq(Frames)
    BY FrameFacts, Zenon
  <2>3. sta_pending[q] # <<>> <=> \E i \in DOMAIN sta_pending[q] : TRUE
    <3>1. CASE sta_pending[q] = <<>>
      BY <3>1
    <3>2. CASE sta_pending[q] # <<>>
      <4>1. Len(sta_pending[q]) \in Nat \ {0}
            /\ DOMAIN sta_pending[q] = 1..Len(sta_pending[q])
        BY <2>2, <3>2, TailOf, Zenon
      <4>2. 1 \in DOMAIN sta_pending[q]
        BY <4>1
      <4>. QED
        BY <3>2, <4>2, Zenon
    <3>. QED
      BY <3>1, <3>2, Zenon
  <2>. QED
    BY <2>1, <2>3, Zenon
<1>. QED
    BY <1>1, <1>2, <1>3, Zenon DEF HasWaker, Outstanding

\* The ACs that keep their outstanding frames, but for the queue that is
\* woken or should be.
LEMMA WakeStep ==
    ASSUME Shape, FrameInv, NEW h \in Holders, WakeQueue(h),
           NEW ac \in stopped', ac \in Acs, Outstanding(ac)
    PROVE  Outstanding(ac)' \/ Misdirected(ac)
<1>1. /\ pc[h] = "wake" /\ frame' = [frame EXCEPT ![h] = None]
      /\ stopped' = stopped \ {os_qid[frame[h]]}
      /\ \A g \in Holders \ {h} : dest'[g] = dest[g]
      /\ lock = h => dest'[h] = dest[h]
      /\ UNCHANGED <<sta_pending, first>>
    BY FrameFacts, Zenon DEF WakeQueue, Goto, poolVars, queueVars, aggVars
<1>2. CASE dest[h].ac = ac
    BY <1>1, <1>2, Zenon DEF Misdirected
<1>3. CASE dest[h].ac # ac
  <2>1. CASE \E g \in Holders : frame[g] # None /\ dest[g].ac = ac
    <3>1. PICK g \in Holders : frame[g] # None /\ dest[g].ac = ac
      BY <2>1, Zenon
    <3>2. g # h
      BY <1>3, <3>1, Zenon
    <3>3. frame'[g] # None /\ dest'[g].ac = ac
      BY <1>1, <3>1, <3>2, FrameFacts, Zenon
    <3>. QED
      BY <3>3, Zenon DEF Outstanding
  <2>2. CASE first # None /\ dest[Tasklet].ac = ac
    <3>1. dest'[Tasklet] = dest[Tasklet]
      BY <1>1, <2>2, FrameFacts, SenderFacts, Zenon DEF HandInv
    <3>. QED
      BY <1>1, <2>2, <3>1, Zenon DEF Outstanding
  <2>3. CASE \E q \in Servqs : q.ac = ac /\ sta_pending[q] # <<>>
    BY <1>1, <2>3, Zenon DEF Outstanding
  <2>. QED
    BY <2>1, <2>2, <2>3, Zenon DEF Outstanding
<1>. QED
    BY <1>2, <1>3, Zenon

\* The other steps take no stopped queue its last outstanding frame.
LEMMA MoveStep ==
    ASSUME Shape, FrameInv, Moves, \A h \in Holders : ~WakeQueue(h),
           NEW ac \in stopped', ac \in Acs, Outstanding(ac)
    PROVE  Outstanding(ac)'
<1>. USE SenderFacts
<1>1. ASSUME NEW x \in Senders, NEW q \in Servqs, Send(x, q) PROVE Outstanding(ac)'
  <2>1. /\ pc[x] = "idle" /\ \E f \in free_xmit_queue : frame' = [frame EXCEPT ![x] = f]
        /\ dest' = [dest EXCEPT ![x] = q]
        /\ UNCHANGED <<sta_pending, first>>
    BY <1>1, Zenon DEF Send, queueVars, aggVars
  <2>2. frame[x] = None
    BY <2>1, FrameFacts, Zenon DEF HandInv
  <2>. QED
    BY <2>1, <2>2, FrameFacts DEF Outstanding
<1>2. ASSUME NEW x \in Senders, Queued(x) PROVE Outstanding(ac)'
  <2>0. PICK q \in Servqs : q = dest[x]
    BY FrameFacts, Zenon
  <2>1. /\ pc[x] = "enqueue"
        /\ sta_pending' = [sta_pending EXCEPT ![q] = Append(sta_pending[q], frame[x])]
        /\ frame' = [frame EXCEPT ![x] = None] /\ dest' = [dest EXCEPT ![x] = NoDest]
        /\ first' = first
    BY <1>2, <2>0, Zenon DEF Queued
  <2>2. /\ sta_pending'[q] # <<>>
        /\ \A r \in Servqs \ {q} : sta_pending'[r] = sta_pending[r]
    <3>1. sta_pending[q] \in Seq(Frames) /\ frame[x] \in Frames
      BY <2>1, FrameFacts, Zenon DEF HandInv
    <3>2. Append(sta_pending[q], frame[x]) # <<>>
      BY <3>1
    <3>. QED
      BY <2>1, <3>2, FrameFacts, Zenon
  <2>. QED
    BY <2>0, <2>1, <2>2, FrameFacts DEF Outstanding
<1>3. ASSUME NEW h \in Holders, FreeFrame(h) PROVE Outstanding(ac)'
    BY <1>3, Zenon DEF FreeFrame, Outstanding, queueVars, aggVars
<1>4. ASSUME NEW q \in Servqs, Taken(q) PROVE Outstanding(ac)'
  <2>1. /\ sta_pending[q] # <<>> /\ pc[Tasklet] \in {"pick", "agg"}
        /\ pc[Tasklet] = "pick" => lock = None
        /\ pc[Tasklet] = "agg" => q = dest[Tasklet]
        /\ sta_pending' = [sta_pending EXCEPT ![q] = Tail(sta_pending[q])]
        /\ frame' = [frame EXCEPT ![Tasklet] = Head(sta_pending[q])]
        /\ dest' = [dest EXCEPT ![Tasklet] = q]
        /\ first' = first
    BY <1>4, Zenon DEF Taken
  <2>2. Head(sta_pending[q]) \in Frames
    <3>1. sta_pending[q] \in Seq(Frames)
      BY FrameFacts, Zenon
    <3>. QED
      BY <2>1, <3>1, TailOf, Zenon
  <2>3. frame'[Tasklet] # None /\ dest'[Tasklet] = q
    BY <2>1, <2>2, FrameFacts, Zenon
  <2>4. frame[Tasklet] = None /\ (first # None => q = dest[Tasklet])
    BY <2>1, FrameFacts, Zenon DEF HandInv
  <2>5. /\ \A r \in Servqs \ {q} : sta_pending'[r] = sta_pending[r]
        /\ \A h \in Holders \ {Tasklet} : frame'[h] = frame[h] /\ dest'[h] = dest[h]
    BY <2>1, FrameFacts, Zenon
  <2>. QED
    BY <2>1, <2>3, <2>4, <2>5 DEF Outstanding
<1>5. CASE Lock
  <2>1. /\ pc[Tasklet] = "lock" /\ lock = None /\ first' = frame[Tasklet]
        /\ frame' = [frame EXCEPT ![Tasklet] = None]
        /\ UNCHANGED <<sta_pending, dest>>
    BY <1>5, Zenon DEF Lock, queueVars
  <2>2. frame[Tasklet] # None /\ first = None
    BY <2>1, FrameFacts, Zenon DEF HandInv
  <2>. QED
    BY <2>1, <2>2, FrameFacts, Zenon DEF Outstanding
<1>6. CASE SubmitAgg
  <2>1. /\ pc[Tasklet] = "submit" /\ frame' = [frame EXCEPT ![Tasklet] = first]
        /\ UNCHANGED <<sta_pending, dest>>
    BY <1>6, Zenon DEF SubmitAgg, queueVars
  <2>2. frame[Tasklet] = None /\ first # None
    BY <2>1, FrameFacts, Zenon DEF HandInv
  <2>. QED
    BY <2>1, <2>2, FrameFacts, Zenon DEF Outstanding
<1>7. ASSUME NEW s \in Stas, FlushXmit(s) PROVE Outstanding(ac)'
  <2>1. /\ sta_pending' = [q \in Servqs |-> IF q.sta = s THEN <<>> ELSE sta_pending[q]]
        /\ stopped' = stopped \ {os_qid[f] : f \in Of(sta_pending, s)}
        /\ UNCHANGED <<first, frame, dest>>
    BY <1>7, Zenon DEF FlushXmit, PendingOf, Of, aggVars
  <2>2. ASSUME NEW q \in Servqs, q.ac = ac, sta_pending[q] # <<>>
        PROVE  sta_pending'[q] # <<>>
    <3>. SUFFICES ASSUME q.sta = s PROVE FALSE
      BY <2>1, <2>2, Zenon
    <3>1. sta_pending[q] \in Seq(Frames)
      BY FrameFacts, Zenon
    <3>2. /\ Len(sta_pending[q]) \in Nat \ {0}
          /\ DOMAIN sta_pending[q] = 1..Len(sta_pending[q])
      BY <2>2, <3>1, TailOf, Zenon
    <3>3. 1 \in DOMAIN sta_pending[q]
      BY <3>2
    <3>4. os_qid[sta_pending[q][1]] = ac
      BY <2>2, <3>3, FrameFacts, Zenon DEF OwnInv
    <3>5. sta_pending[q][1] \in Of(sta_pending, s)
      BY <2>1, <3>3, FrameFacts, FlushPlaces, Zenon
    <3>. QED
      BY <2>1, <3>4, <3>5, Zenon
  <2>. QED
    BY <2>1, <2>2, Zenon DEF Outstanding
<1>. QED
    BY <1>1, <1>2, <1>3, <1>4, <1>5, <1>6, <1>7, Zenon DEF Moves

\* The same in the next state.
LEMMA WakerOutstandingNext ==
    Shape' /\ FrameInv' => \A ac \in Acs : HasWaker(ac)' <=> Outstanding(ac)'
<1>1. Shape /\ FrameInv => \A ac \in Acs : HasWaker(ac) <=> Outstanding(ac)
    BY WakerOutstanding, Zenon
<1>2. (Shape /\ FrameInv => \A ac \in Acs : HasWaker(ac) <=> Outstanding(ac))'
    BY <1>1, PTL
<1>. QED
    BY <1>2, Zenon

\* No step of any context takes a stopped OS queue its last outstanding frame
\* without waking it, but for the wakeup that goes to another queue.
LEMMA WakersNext ==
    ASSUME Shape, LockInv, ListInv, FrameInv, FrameInv', Shape', stopped \subseteq Acs,
           [Next]_vars, NEW ac \in stopped'
    PROVE  HasWaker(ac)' \/ Misdirected(ac) \/ (ac \in stopped /\ ~HasWaker(ac))
<1>. USE SenderFacts
<1>1. \/ Moves
      \/ Still /\ stopped' = stopped
      \/ Still /\ \E x \in Senders : CheckStop(x)
    BY StepKinds, Zenon DEF FrameInv
<1>2. \A x \in Holders : dest[x].ac \in Acs
    BY FrameFacts, Zenon DEF Servqs
<1>3. ac \in Acs /\ (Moves => ac \in stopped)
  <2>1. CASE Moves
    <3>1. stopped' \subseteq stopped
      BY <2>1, Zenon DEF Moves, Send, Queued, FreeFrame, WakeQueue, Taken, Lock, SubmitAgg,
                  FlushXmit
    <3>. QED
      BY <3>1, Zenon
  <2>2. CASE ~Moves
    BY <1>1, <1>2, <2>2 DEF CheckStop
  <2>. QED
    BY <2>1, <2>2, Zenon
<1>4. HasWaker(ac) <=> Outstanding(ac)
    BY <1>3, WakerOutstanding, Zenon
<1>5. Outstanding(ac)' => HasWaker(ac)'
    BY <1>3, WakerOutstandingNext, Zenon
<1>6. CASE Moves
  <2>. SUFFICES ASSUME Outstanding(ac) PROVE Outstanding(ac)' \/ Misdirected(ac)
    BY <1>3, <1>4, <1>5, <1>6, Zenon
  <2>1. CASE \E h \in Holders : WakeQueue(h)
    BY <1>3, <2>1, WakeStep, Zenon
  <2>2. CASE \A h \in Holders : ~WakeQueue(h)
    BY <1>3, <1>6, <2>2, MoveStep, Zenon
  <2>. QED
    BY <2>1, <2>2, Zenon
<1>7. CASE Still
  <2>1. Outstanding(ac) => Outstanding(ac)'
    BY <1>7, Zenon DEF Still, Outstanding
  <2>2. CASE ac \in stopped
    BY <1>4, <1>5, <2>1, <2>2, Zenon
  <2>3. CASE ac \notin stopped
    <3>1. PICK x \in Senders : CheckStop(x)
      BY <1>1, <1>3, <2>3, Zenon
    <3>2. dest[x].ac = ac /\ pc[x] = "stop"
      BY <2>3, <3>1, Zenon DEF CheckStop
    <3>3. frame[x] # None
      BY <3>2, FrameFacts, Zenon DEF HandInv
    <3>4. Outstanding(ac)
      BY <3>2, <3>3, Zenon DEF Outstanding
    <3>. QED
      BY <1>5, <2>1, <3>4, Zenon
  <2>. QED
    BY <2>2, <2>3, Zenon
<1>. QED
    BY <1>1, <1>6, <1>7, Zenon

-----------------------------------------------------------------------------
(* The types of the rest                                                   *)

\* Every OS queue that is stopped exists, and a buffer takes at most
\* UsbTxAggDescNum frames.
LEMMA EnvInvNext ==
    ASSUME Shape, LockInv, HandInv, EnvInv, [Next]_vars
    PROVE  EnvInv'
<1>. USE SenderFacts DEF Goto
<1>0. MaxAgg \in Nat \ {0} /\ agg \in 0..MaxAgg
    BY ConstAssumption, Zenon DEF EnvInv
<1>1. ASSUME NEW x \in Senders, Sender(x) PROVE EnvInv'
  <2>1. UNCHANGED <<scheduled, giveback, envVars>>
    BY <1>1, SenderFrame, Zenon
  <2>2. agg' = agg
    BY <1>1, Zenon DEF Sender, Send, CheckStop, PreXmit, XmitEnqueue, Direct, FreeFrame,
                       WakeQueue, aggVars
  <2>3. stopped' \subseteq Acs
    <3>1. dest[x].ac \in Acs
      BY Zenon DEF Shape, Servqs
    <3>2. stopped' \subseteq stopped \cup {dest[x].ac}
      BY <1>1, Zenon DEF Sender, Send, CheckStop, PreXmit, XmitEnqueue, Direct, FreeFrame,
                  WakeQueue
    <3>. QED
      BY <3>1, <3>2, Zenon DEF EnvInv
  <2>. QED
    BY <2>1, <2>2, <2>3, Zenon DEF EnvInv, envVars
<1>2. CASE TaskletStep
  <2>1. UNCHANGED <<giveback, envVars>>
    BY <1>2, TaskletFrame, Zenon
  <2>2. scheduled' \in BOOLEAN
    BY <1>2, Zenon DEF TaskletStep, Start, Check, Pick, Release, Lock, Aggregate, AggEnd,
                SubmitAgg, FreeFrame, WakeQueue, EnvInv
  <2>3. stopped' \subseteq Acs
    BY <1>2, Zenon DEF TaskletStep, Start, Check, Pick, Release, Lock, Aggregate, AggEnd,
                SubmitAgg, FreeFrame, WakeQueue, EnvInv
  <2>4. agg' \in 0..MaxAgg
    <3>1. agg' = agg \/ agg' \in {0, 1} \/ (agg < MaxAgg /\ agg' = agg + 1)
      BY <1>2, Zenon DEF TaskletStep, Start, Check, Pick, Release, Lock, Aggregate, AggEnd,
                  SubmitAgg, FreeFrame, WakeQueue, aggVars
    <3>. QED
      BY <1>0, <3>1
  <2>. QED
    BY <2>1, <2>2, <2>3, <2>4, Zenon DEF EnvInv, envVars
<1>3. CASE \E b \in Bufs : Complete(b)
    BY <1>3, Zenon DEF Complete, EnvInv, envVars, aggVars
<1>4. CASE CompleteSchedule
    BY <1>4, Zenon DEF CompleteSchedule, EnvInv, envVars, aggVars
<1>5. CASE Environment
  <2>1. /\ giveback' \in BOOLEAN /\ blocked' \in BOOLEAN /\ backing' \in BOOLEAN
        /\ cannot_tx' \in BOOLEAN /\ agg' = agg
    BY <1>5, Zenon DEF Environment, rtw_leave_opch, rtw_back_opch, XmitSchedule,
                  SetCannotTx, Unhash, FlushXmit, Associate, EnvInv, aggVars
  <2>2. scheduled' \in BOOLEAN
    BY <1>5, Zenon DEF Environment, rtw_leave_opch, rtw_back_opch, XmitSchedule,
                  SetCannotTx, Unhash, FlushXmit, Associate, EnvInv
  <2>3. stopped' \subseteq Acs
    BY <1>5, Zenon DEF Environment, rtw_leave_opch, rtw_back_opch, XmitSchedule,
                  SetCannotTx, Unhash, FlushXmit, Associate, EnvInv
  <2>4. sta' \in [Stas -> {"asoc", "leaving", "free"}]
    BY <1>5, Zenon DEF Environment, rtw_leave_opch, rtw_back_opch, XmitSchedule,
                  SetCannotTx, Unhash, FlushXmit, Associate, EnvInv
  <2>. QED
    BY <2>1, <2>2, <2>3, <2>4, Zenon DEF EnvInv
<1>6. CASE UNCHANGED vars
    BY <1>6, Zenon DEF vars, EnvInv, envVars, aggVars
<1>. QED
    BY <1>1, <1>2, <1>3, <1>4, <1>5, <1>6, Zenon DEF Next

\* The AC that os_qid names before a frame is first sent exists.
LEMMA PrioFirst == Prio[1] \in Acs
<1>1. PICK i \in DOMAIN Prio : TRUE
    BY ConstAssumption, Zenon
<1>2. Prio \in Seq(Acs)
    BY ConstAssumption, Zenon
<1>3. Len(Prio) \in Nat /\ DOMAIN Prio = 1..Len(Prio)
    BY <1>2
<1>4. 1 \in DOMAIN Prio
    BY <1>1, <1>3
<1>. QED
    BY <1>2, <1>4

\* The pools are full and the queues empty after _rtw_init_xmit_priv.
LEMMA InitIInv == Init => IInv
<1>. SUFFICES ASSUME Init PROVE IInv
    BY Zenon
<1>. USE SenderFacts DEF Init
<1>1. Shape
    BY NoDestType, Zenon DEF Shape, Steps
<1>2. LockInv
    BY Zenon DEF LockInv
<1>3. BufInv
    BY Zenon DEF BufInv, BufConserved
<1>4. ListInv
  <2>1. IsSeq(<<>>)
    <3>1. <<>> \in Seq({})
      OBVIOUS
    <3>. QED
      BY <3>1, SeqIsSeq, Zenon
  <2>2. Distinct(<<>>) /\ \A s \in Stas : ~Linked(<<>>, s)
    BY DEF Distinct, Linked
  <2>. QED
    BY <2>1, <2>2 DEF ListInv, Servqs
<1>5. NoStranded
    BY Zenon DEF NoStranded, Work, Waker
<1>6. FrameInv
  <2>1. FrameType
    <3>1. Prio[1] \in Acs
      BY PrioFirst, Zenon
    <3>. QED
      BY <3>1 DEF FrameType
  <2>2. HandInv
    BY Zenon DEF HandInv
  <2>3. \A q \in Servqs : sta_pending[q] = <<>> /\ DOMAIN sta_pending[q] = {}
    OBVIOUS
  <2>4. Waiting = {} /\ Hand = [h \in Holders |-> None]
    BY <2>3, Zenon DEF Waiting, Waits, Range, Hand
  <2>5. None \notin Frames
    BY ConstAssumption, Zenon
  <2>6. PlaceInv
    BY <2>3, <2>4, <2>5, Zenon DEF PlaceInv, Partition, Once
  <2>7. OwnInv
    BY <2>3, <2>4, Zenon DEF OwnInv
  <2>. QED
    BY <2>1, <2>2, <2>6, <2>7, Zenon DEF FrameInv
<1>7. EnvInv
  <2>1. MaxAgg \in Nat
    BY ConstAssumption, Zenon
  <2>2. agg \in 0..MaxAgg
    BY <2>1
  <2>3. sta \in [Stas -> {"asoc", "leaving", "free"}] /\ stopped \subseteq Acs
    BY Zenon
  <2>. QED
    BY <2>2, <2>3, Zenon DEF EnvInv
<1>. QED
    BY <1>1, <1>2, <1>3, <1>4, <1>5, <1>6, <1>7, Zenon DEF IInv

\* The inductive invariant is kept by every step.
LEMMA IInvNext == IInv /\ [Next]_vars => IInv'
<1>. SUFFICES ASSUME IInv, [Next]_vars PROVE IInv'
    BY Zenon
<1>1. Shape' /\ LockInv' /\ BufInv' /\ ListInv' /\ NoStranded'
    BY ShapeNext, LockInvNext, BufInvNext, ListInvNext, NoStrandedNext, Zenon DEF IInv
<1>2. HandInv'
    BY HandInvNext, Zenon DEF IInv, FrameInv
<1>3. FrameType' /\ PlaceInv' /\ OwnInv'
    BY PlaceNext, Zenon DEF IInv
<1>4. EnvInv'
    BY EnvInvNext, Zenon DEF IInv, FrameInv
<1>. QED
    BY <1>1, <1>2, <1>3, <1>4, Zenon DEF IInv, FrameInv

\* The inductive invariant holds in every reachable state.
LEMMA IInvAlways == Spec => []IInv
    BY InitIInv, IInvNext, PTL DEF Spec

\* No queued frame is forgotten: pre_xmitframe may queue a frame without
\* scheduling anybody, whatever the number of stations, ACs and forwarders,
\* as long as the contexts cannot hold the whole buffer pool.
THEOREM NothingStranded == Spec => []NoStranded
<1>1. IInv => NoStranded
    BY Zenon DEF IInv
<1>. QED
    BY <1>1, IInvAlways, PTL

\* No transmit buffer is lost or freed twice, on any path through
\* xmitframe_direct, the tasklet, usb_write_port and its completion.
THEOREM BuffersConserved == Spec => []BufConserved
<1>1. IInv => BufConserved
    BY Zenon DEF IInv, BufInv
<1>. QED
    BY <1>1, IInvAlways, PTL

\* Whenever xmitpriv.lock is free, a station is linked, once, exactly where
\* frames wait for it.
THEOREM ListsConsistent == Spec => []ListsAgree
<1>1. IInv => ListsAgree
  <2>. SUFFICES ASSUME ListInv, lock = None, NEW q \in Servqs
                PROVE  /\ Linked(sta_queue[q.ac], q.sta) <=> sta_pending[q] # <<>>
                       /\ Distinct(sta_queue[q.ac])
    BY Zenon DEF IInv, ListsAgree, Distinct
  <2>1. ~Served(q) /\ q.ac \in Acs
    BY SenderFacts, Zenon DEF Served, Servqs
  <2>. QED
    BY <2>1, Zenon DEF ListInv
<1>. QED
    BY <1>1, IInvAlways, PTL

\* Every variable keeps its type; a buffer takes at most UsbTxAggDescNum
\* frames.
THEOREM TypeCorrect == Spec => []TypeOK
<1>1. IInv => TypeOK
  <2>1. IInv => free_xmitbuf \subseteq Bufs /\ urb \subseteq Bufs
    BY Zenon DEF IInv, BufInv, BufConserved
  <2>. QED
    BY <2>1, Zenon DEF IInv, Shape, BufInv, ListInv, FrameInv, FrameType, EnvInv, TypeOK
<1>. QED
    BY <1>1, IInvAlways, PTL

\* No xmit_frame is lost, in two queues, or freed twice, on any path through
\* rtw_xmit, the tasklet and the freeing of a station.
THEOREM FramesConserved == Spec => []FrameConserved
<1>1. ASSUME FrameInv PROVE FrameConserved
  <2>. DEFINE held == UNION {InHand(h) : h \in Holders}
              waiting == UNION {Range(sta_pending[q]) : q \in Servqs}
  <2>0. None \notin Frames
    BY ConstAssumption, Zenon
  <2>1. \A h \in Holders : InHand(h) = IF Hand[h] = None THEN {} ELSE {Hand[h]}
    BY Zenon DEF Hand, InHand
  <2>2. waiting = Waiting /\ Waiting \subseteq Frames
    <3>1. \A q \in Servqs : sta_pending[q] \in Seq(Frames)
      BY <1>1, Zenon DEF FrameInv, FrameType
    <3>2. \A q \in Servqs : Range(sta_pending[q]) \subseteq Frames
      BY <3>1 DEF Range
    <3>. QED
      BY <3>2, Zenon DEF Waiting, Waits
  <2>3. \A f : f \in held <=> f # None /\ \E h \in Holders : Hand[h] = f
    BY <2>1, Zenon
  <2>4. \A g, h \in Holders : g = h \/ InHand(g) \cap InHand(h) = {}
    <3>1. \A g, h \in Holders : Hand[g] # None /\ Hand[g] = Hand[h] => g = h
      BY <1>1, Zenon DEF FrameInv, PlaceInv, Partition
    <3>. QED
      BY <2>1, <3>1, Zenon
  <2>5. Once(sta_pending)
    BY <1>1, Zenon DEF FrameInv, PlaceInv
  <2>6. held \subseteq Frames
    BY <1>1, <2>3 DEF Hand, FrameInv, FrameType
  <2>. HIDE DEF held, waiting
  <2>7. Frames = free_xmit_queue \cup held \cup waiting \cup ({first} \ {None})
    BY <1>1, <2>0, <2>2, <2>3, <2>6 DEF FrameInv, FrameType, PlaceInv, Partition
  <2>8. /\ free_xmit_queue \cap (held \cup waiting) = {} /\ held \cap waiting = {}
        /\ first \notin free_xmit_queue \cup held \cup waiting
    BY <1>1, <2>2, <2>3 DEF FrameInv, PlaceInv, Partition
  <2>. USE DEF held, waiting
  <2>. QED
    BY <2>4, <2>5, <2>7, <2>8, Zenon DEF FrameConserved, Once
<1>2. IInv => FrameConserved
    BY <1>1, Zenon DEF IInv
<1>. QED
    BY <1>2, IInvAlways, PTL

\* An OS queue is stopped only while one of its frames is outstanding, and
\* the last of them wakes it, whatever the number of ACs: only the read of
\* os_qid after the frame is back in the pool can take a queue its wakeup.
THEOREM WakersSafe == Spec => WakersKept
<1>1. ASSUME IInv, IInv', [Next]_vars
      PROVE  [\A ac \in stopped' :
                HasWaker(ac)' \/ Misdirected(ac) \/ (ac \in stopped /\ ~HasWaker(ac))]_vars
  <2>1. stopped \subseteq Acs
    BY <1>1, Zenon DEF IInv, EnvInv
  <2>. QED
    BY <1>1, <2>1, WakersNext, Zenon DEF IInv
<1>. QED
    BY <1>1, IInvAlways, PTL DEF Spec, WakersKept

\* Where there is one AC that exception is none: a stopped OS queue always
\* has a frame whose end wakes it.
THEOREM OneQueueWoken ==
    ASSUME \A a, b \in Acs : a = b
    PROVE  Spec => []StopHasWaker
<1>1. Init => StopHasWaker
    BY Zenon DEF Init, StopHasWaker
<1>2. ASSUME IInv, IInv', StopHasWaker, [Next]_vars PROVE StopHasWaker'
  <2>. SUFFICES ASSUME NEW ac \in stopped' PROVE HasWaker(ac)'
    BY Zenon DEF StopHasWaker
  <2>1. stopped \subseteq Acs /\ stopped' \subseteq Acs
    BY <1>2, Zenon DEF IInv, EnvInv
  <2>2. HasWaker(ac)' \/ Misdirected(ac) \/ (ac \in stopped /\ ~HasWaker(ac))
    BY <1>2, <2>1, WakersNext, Zenon DEF IInv
  <2>3. ~Misdirected(ac)
    <3>. SUFFICES ASSUME NEW h \in Holders, pc[h] = "wake" PROVE os_qid[frame[h]] = ac
      BY Zenon DEF Misdirected, WakeQueue
    <3>1. frame[h] \in Frames
      BY <1>2, SenderFacts, Zenon DEF IInv, FrameInv, FrameType, HandInv, Holders
    <3>2. os_qid[frame[h]] \in Acs
      BY <1>2, <3>1, Zenon DEF IInv, FrameInv, FrameType
    <3>. QED
      BY <2>1, <3>2, Zenon
  <2>4. ac \in stopped => HasWaker(ac)
    BY <1>2, Zenon DEF StopHasWaker
  <2>. QED
    BY <2>2, <2>3, <2>4, Zenon
<1>. QED
    BY <1>1, <1>2, IInvAlways, PTL DEF Spec

====
