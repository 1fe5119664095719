---------------------------- MODULE XmitFlowInv ----------------------------
(***************************************************************************)
(* The inductive invariant of XmitFlow, the facts about sequences it needs,*)
(* and the parts of it that concern the contexts: their steps, the lock,   *)
(* the transmit buffers and the frames.  XmitFlow_proofs has the rest.     *)
(***************************************************************************)
EXTENDS XmitFlow, TLAPS

-----------------------------------------------------------------------------
(* Sequences                                                               *)

\* A sequence, whatever its elements are: nothing here depends on which
\* frames wait in a queue.
IsSeq(s) == s \in Seq({s[i] : i \in DOMAIN s})

\* Every sequence is one in that sense: the queues are built with list
\* operations only.
LEMMA SeqIsSeq ==
    ASSUME NEW T, NEW t \in Seq(T)
    PROVE  IsSeq(t)
<1>. DEFINE R == {t[i] : i \in DOMAIN t}
<1>1. Len(t) \in Nat /\ t \in [1..Len(t) -> T]
    OBVIOUS
<1>2. \A i \in 1..Len(t) : t[i] \in R
    BY <1>1, Zenon
<1>3. t \in [1..Len(t) -> R]
    BY <1>1, <1>2, Zenon
<1>. HIDE DEF R
<1>4. t \in Seq(R)
    BY <1>1, <1>3
<1>. QED
    BY <1>4, Zenon DEF IsSeq, R

\* What list_add_tail does to the frames waiting in a queue.
LEMMA AppendFacts ==
    ASSUME NEW s, IsSeq(s), NEW e
    PROVE  IsSeq(Append(s, e)) /\ Append(s, e) # <<>>
<1>. DEFINE S == {s[i] : i \in DOMAIN s}
            t == Append(s, e)
<1>1. s \in Seq(S \cup {e})
    BY DEF IsSeq
<1>2. t \in Seq(S \cup {e}) /\ Len(t) = Len(s) + 1 /\ t # <<>>
    BY <1>1
<1>. QED
    BY <1>2, SeqIsSeq, Zenon

\* A queue is empty when its length is 0.
LEMMA EmptyLen ==
    ASSUME NEW T, NEW t \in Seq(T)
    PROVE  t = <<>> <=> Len(t) = 0
    OBVIOUS

\* What two lists hold when they are joined.
LEMMA JoinFacts ==
    ASSUME NEW T, NEW l \in Seq(T), NEW r \in Seq(T)
    PROVE  /\ l \o r \in Seq(T) /\ Len(l \o r) = Len(l) + Len(r)
           /\ \A i \in 1..(Len(l) + Len(r)) :
                 (l \o r)[i] = IF i <= Len(l) THEN l[i] ELSE r[i - Len(l)]
    OBVIOUS

\* What taking the first frame off a queue leaves.
LEMMA TailFacts ==
    ASSUME NEW s, IsSeq(s), s # <<>>
    PROVE  /\ IsSeq(Tail(s))
           /\ Tail(s) = <<>> <=> Len(s) = 1
<1>. DEFINE S == {s[i] : i \in DOMAIN s}
            t == Tail(s)
<1>1. t \in Seq(S) /\ Len(t) = Len(s) - 1 /\ Len(s) \in Nat \ {0}
    BY DEF IsSeq
<1>2. IsSeq(t)
    BY <1>1, SeqIsSeq, Zenon
<1>3. t = <<>> <=> Len(t) = 0
    BY <1>1, EmptyLen, Zenon
<1>. QED
    BY <1>1, <1>2, <1>3, SMTT(20)

\* No station is linked twice.
Distinct(sq) == \A i, j \in DOMAIN sq : sq[i] = sq[j] => i = j

\* Linking a station keeps every other one, and links none twice.
LEMMA LinkFacts ==
    ASSUME NEW sq \in Seq(Stas), NEW s \in Stas, Distinct(sq)
    PROVE  /\ Link(sq, s) \in Seq(Stas) /\ Distinct(Link(sq, s))
           /\ \A t \in Stas : Linked(Link(sq, s), t) <=> Linked(sq, t) \/ t = s
<1>1. CASE Linked(sq, s)
    BY <1>1, Zenon DEF Link
<1>2. CASE ~Linked(sq, s)
  <2>1. Link(sq, s) = Append(sq, s)
    BY <1>2, Zenon DEF Link
  <2>2. /\ Append(sq, s) \in Seq(Stas) /\ Len(Append(sq, s)) = Len(sq) + 1
        /\ \A i \in 1..Len(sq) : Append(sq, s)[i] = sq[i]
        /\ Append(sq, s)[Len(sq) + 1] = s
    OBVIOUS
  <2>. QED
    BY <1>2, <2>1, <2>2 DEF Linked, Distinct
<1>. QED
    BY <1>1, <1>2, Zenon

\* Unlinking a station from a list that holds it at most once removes it
\* and nothing else.
LEMMA UnlinkFacts ==
    ASSUME NEW sq \in Seq(Stas), NEW s \in Stas, Distinct(sq)
    PROVE  /\ Unlink(sq, s) \in Seq(Stas) /\ Distinct(Unlink(sq, s))
           /\ \A t \in Stas : Linked(Unlink(sq, s), t) <=> Linked(sq, t) /\ t # s
<1>1. CASE ~Linked(sq, s)
    BY <1>1, Zenon DEF Unlink
<1>2. CASE Linked(sq, s)
  <2>. DEFINE n == CHOOSE i \in DOMAIN sq : sq[i] = s
              u == SubSeq(sq, 1, n - 1) \o SubSeq(sq, n + 1, Len(sq))
  <2>1. n \in 1..Len(sq) /\ sq[n] = s
    BY <1>2 DEF Linked
  <2>2. Unlink(sq, s) = u
    BY <1>2, Zenon DEF Unlink
  <2>. HIDE DEF n
  <2>. DEFINE l == SubSeq(sq, 1, n - 1)
              r == SubSeq(sq, n + 1, Len(sq))
  <2>3. /\ l \in Seq(Stas) /\ Len(l) = n - 1
        /\ \A i \in 1..(n - 1) : l[i] = sq[i]
    BY <2>1
  <2>4. /\ r \in Seq(Stas) /\ Len(r) = Len(sq) - n
        /\ \A i \in 1..(Len(sq) - n) : r[i] = sq[n + i]
    BY <2>1
  <2>5. u = l \o r
    BY Zenon
  <2>. HIDE DEF l, r, u
  <2>6. /\ u \in Seq(Stas) /\ Len(u) = Len(sq) - 1
        /\ \A i \in 1..(Len(sq) - 1) :
              u[i] = IF i < n THEN l[i] ELSE r[i - n + 1]
    <3>1. /\ u \in Seq(Stas) /\ Len(u) = Len(l) + Len(r)
          /\ \A i \in 1..(Len(l) + Len(r)) :
                u[i] = IF i <= Len(l) THEN l[i] ELSE r[i - Len(l)]
      BY <2>3, <2>4, <2>5, JoinFacts, Zenon
    <3>2. Len(l) + Len(r) = Len(sq) - 1
      BY <2>1, <2>3, <2>4
    <3>3. \A i \in 1..(Len(sq) - 1) : (i <= Len(l) <=> i < n) /\ i - Len(l) = i - n + 1
      BY <2>1, <2>3
    <3>. QED
      BY <3>1, <3>2, <3>3, Zenon
  <2>7. \A i \in 1..(Len(sq) - 1) : u[i] = IF i < n THEN sq[i] ELSE sq[i + 1]
    <3>. SUFFICES ASSUME NEW i \in 1..(Len(sq) - 1)
                  PROVE  u[i] = IF i < n THEN sq[i] ELSE sq[i + 1]
      BY Zenon
    <3>1. CASE i < n
      BY <2>1, <2>3, <2>6, <3>1
    <3>2. CASE ~(i < n)
      <4>1. i - n + 1 \in 1..(Len(sq) - n) /\ n + (i - n + 1) = i + 1
        BY <2>1, <3>2
      <4>. QED
        BY <2>1, <2>4, <2>6, <3>2, <4>1, Zenon
    <3>. QED
      BY <3>1, <3>2, Zenon
  <2>8. Distinct(u)
    <3>. SUFFICES ASSUME NEW i \in 1..(Len(sq) - 1), NEW j \in 1..(Len(sq) - 1),
                         u[i] = u[j]
                  PROVE  i = j
      BY <2>6 DEF Distinct
    <3>. DEFINE at(k) == IF k < n THEN k ELSE k + 1
    <3>1. sq[at(i)] = sq[at(j)] /\ at(i) \in 1..Len(sq) /\ at(j) \in 1..Len(sq)
      BY <2>1, <2>7
    <3>2. at(i) = at(j)
      BY <3>1 DEF Distinct
    <3>. QED
      BY <2>1, <3>2
  <2>9. ASSUME NEW t \in Stas, Linked(u, t) PROVE Linked(sq, t) /\ t # s
    <3>1. PICK i \in 1..(Len(sq) - 1) : u[i] = t
      BY <2>6, <2>9 DEF Linked
    <3>2. PICK k \in 1..Len(sq) : sq[k] = t /\ k # n
      BY <2>1, <2>7, <3>1
    <3>. QED
      BY <2>1, <3>2 DEF Linked, Distinct
  <2>10. ASSUME NEW t \in Stas, Linked(sq, t), t # s PROVE Linked(u, t)
    <3>1. PICK i \in 1..Len(sq) : sq[i] = t
      BY <2>10 DEF Linked
    <3>2. PICK k \in 1..(Len(sq) - 1) : u[k] = t
      <4>1. CASE i < n
        BY <2>1, <2>7, <3>1, <4>1
      <4>2. CASE i > n
        <5>1. i - 1 \in 1..(Len(sq) - 1) /\ ~(i - 1 < n) /\ (i - 1) + 1 = i
          BY <2>1, <3>1, <4>2
        <5>. QED
          BY <2>7, <3>1, <5>1, Zenon
      <4>. QED
        BY <2>1, <2>10, <3>1, <4>1, <4>2
    <3>. QED
      BY <2>6, <3>2 DEF Linked
  <2>. QED
    BY <2>2, <2>6, <2>8, <2>9, <2>10, Zenon
<1>. QED
    BY <1>1, <1>2, Zenon

-----------------------------------------------------------------------------
(* The inductive invariant                                                 *)

Shape ==
    /\ pc \in [Holders -> Steps] /\ lock \in Holders \cup {None}
    /\ dest \in [Holders -> Servqs]

\* Who holds xmitpriv.lock between two steps: a sender that is about to
\* queue its frame, or the tasklet while it aggregates.
LockInv ==
    /\ \A x \in Senders : pc[x] = "enqueue" <=> lock = x
    /\ pc[Tasklet] = "agg" => lock = Tasklet
    /\ lock = Tasklet => pc[Tasklet] \in {"agg", "free", "wake"}

\* Who holds a transmit buffer.
BufInv ==
    /\ xbuf \in [Holders -> Bufs \cup {None}]
    /\ BufConserved
    /\ \A x \in Senders : xbuf[x] # None <=> pc[x] = "direct"
    /\ pc[Tasklet] \in {"idle", "check"} => xbuf[Tasklet] = None
    /\ pc[Tasklet] \in {"pick", "lock", "agg", "submit", "release"}
         => xbuf[Tasklet] # None
    /\ lock = Tasklet => xbuf[Tasklet] # None

\* The lists, also while the tasklet holds the lock: then the station it
\* serves may be linked without a frame.
Served(q) == lock = Tasklet /\ q = dest[Tasklet]

ListInv ==
    /\ sta_queue \in [Acs -> Seq(Stas)]
    /\ sta_pending = [q \in Servqs |-> sta_pending[q]]
    /\ \A ac \in Acs : Distinct(sta_queue[ac])
    /\ \A q \in Servqs :
          /\ IsSeq(sta_pending[q])
          /\ sta_pending[q] # <<>> => Linked(sta_queue[q.ac], q.sta)
          /\ Linked(sta_queue[q.ac], q.sta) => sta_pending[q] # <<>> \/ Served(q)

\* The frame a context answers for: none once it has given it back.
Hand == [h \in Holders |-> IF pc[h] = "wake" THEN None ELSE frame[h]]

Waiting == {f \in Frames : Waits(f)}

\* No frame is in two places of the queues W.
Once(W) ==
    \A q, r \in Servqs : \A i \in DOMAIN W[q], j \in DOMAIN W[r] :
        W[q][i] = W[r][j] => q = r /\ i = j

\* Every frame is in the pool P, in one of the hands H, the first frame F, or
\* one of the waiting ones S, and nowhere else.
Partition(P, H, F, S) ==
    /\ \A f \in Frames : f \in P \/ f \in S \/ f = F \/ \E h \in Holders : H[h] = f
    /\ P \cap S = {} /\ F \notin P \cup S
    /\ \A h \in Holders : H[h] # None =>
          /\ H[h] \notin P \cup S /\ H[h] # F
          /\ \A g \in Holders : H[g] = H[h] => g = h

FrameType ==
    /\ free_xmit_queue \subseteq Frames /\ os_qid \in [Frames -> Acs]
    /\ frame \in [Holders -> Frames \cup {None}] /\ first \in Frames \cup {None}
    /\ sta_pending \in [Servqs -> Seq(Frames)]

\* When a context has a frame, and the tasklet a first one.
HandInv ==
    /\ \A x \in Senders :
          /\ pc[x] \in {"idle", "stop", "pre", "enqueue", "direct", "free", "wake"}
          /\ frame[x] = None <=> pc[x] = "idle"
    /\ frame[Tasklet] # None <=> pc[Tasklet] \in {"lock", "free", "wake"}
    /\ first # None <=> lock = Tasklet \/ pc[Tasklet] = "submit"

PlaceInv ==
    /\ Partition(free_xmit_queue, Hand, first, Waiting)
    /\ Once(sta_pending)

\* os_qid of a frame that is not in the pool is the AC it was sent to.
OwnInv ==
    /\ \A h \in Holders : Hand[h] # None => os_qid[Hand[h]] = dest[h].ac
    /\ first # None => os_qid[first] = dest[Tasklet].ac
    /\ \A q \in Servqs : \A i \in DOMAIN sta_pending[q] :
          os_qid[sta_pending[q][i]] = q.ac

FrameInv == FrameType /\ HandInv /\ PlaceInv /\ OwnInv

\* The types of what no other part speaks of.
EnvInv ==
    /\ giveback \in BOOLEAN /\ scheduled \in BOOLEAN
    /\ blocked \in BOOLEAN /\ backing \in BOOLEAN /\ cannot_tx \in BOOLEAN
    /\ sta \in [Stas -> {"asoc", "leaving", "free"}]
    /\ stopped \subseteq Acs /\ agg \in 0..MaxAgg

IInv ==
    /\ Shape /\ LockInv /\ BufInv /\ ListInv /\ NoStranded
    /\ FrameInv /\ EnvInv

-----------------------------------------------------------------------------
(* What the steps leave alone                                              *)

\* The tasklet and the senders are different contexts, and None is neither a
\* context nor a buffer.
LEMMA SenderFacts ==
    /\ Tasklet \in Holders /\ Senders \subseteq Holders /\ Tasklet \notin Senders
    /\ None \notin Holders /\ None \notin Bufs
    BY ConstAssumption, Zenon DEF Holders, Senders

\* The destination that stands for none is a queue as any other to the types.
LEMMA NoDestType == NoDest \in Servqs
<1>1. \E q \in Servqs : TRUE
  <2>1. PICK s \in Stas, ac \in Acs : TRUE
    BY ConstAssumption, Zenon
  <2>2. [sta |-> s, ac |-> ac] \in Servqs
    BY Zenon DEF Servqs
  <2>. QED
    BY <2>2, Zenon
<1>. QED
    BY <1>1, Zenon DEF NoDest

\* Completions, the command thread and stations that come and go touch no
\* context's state.
LEMMA OthersFrame ==
    ASSUME (\E b \in Bufs : Complete(b)) \/ CompleteSchedule \/ Environment
    PROVE  UNCHANGED <<pc, lock, dest, xbuf>>
<1>1. CASE \E b \in Bufs : Complete(b)
    BY <1>1, Zenon DEF Complete
<1>2. CASE CompleteSchedule
    BY <1>2, Zenon DEF CompleteSchedule, bufVars
<1>3. CASE Environment
    BY <1>3, Zenon DEF Environment, rtw_leave_opch, rtw_back_opch, XmitSchedule,
        SetCannotTx, Unhash, FlushXmit, Associate, bufVars
<1>. QED
    BY <1>1, <1>2, <1>3, Zenon

\* A sender schedules nobody, and only pre_xmitframe decides to queue.
LEMMA SenderFrame ==
    ASSUME Shape, NEW x \in Senders, Sender(x)
    PROVE  /\ UNCHANGED <<scheduled, giveback, envVars>>
           /\ pc'[Tasklet] = pc[Tasklet] /\ urb \subseteq urb'
           /\ XmitEnqueue(x) \/ UNCHANGED sta_pending
           /\ PreXmit(x) \/ \A y \in Senders : pc'[y] = "enqueue" => pc[y] = "enqueue"
<1>. USE SenderFacts DEF Shape, Goto, bufVars, queueVars
<1>1. CASE \E q \in Servqs : Send(x, q)
    BY <1>1, Zenon DEF Send
<1>2. CASE CheckStop(x)
    BY <1>2, Zenon DEF CheckStop
<1>3. CASE PreXmit(x)
    BY <1>3, Zenon DEF PreXmit
<1>4. CASE XmitEnqueue(x)
    BY <1>4, Zenon DEF XmitEnqueue
<1>5. CASE Direct(x)
    BY <1>5, Zenon DEF Direct, WritePort, FreeBuf
<1>6. CASE FreeFrame(x)
    BY <1>6, Zenon DEF FreeFrame
<1>7. CASE WakeQueue(x)
    BY <1>7, Zenon DEF WakeQueue, AfterFree
<1>. QED
    BY <1>1, <1>2, <1>3, <1>4, <1>5, <1>6, <1>7, Zenon DEF Sender

\* The tasklet's steps neither clear a completion nor change what forbids
\* sending.
LEMMA TaskletFrame ==
    ASSUME TaskletStep
    PROVE  UNCHANGED <<giveback, envVars>> /\ urb \subseteq urb'
<1>. USE DEF bufVars
<1>1. CASE Start
    BY <1>1, Zenon DEF Start
<1>2. CASE Check
    BY <1>2, Zenon DEF Check
<1>3. CASE Pick
    BY <1>3, Zenon DEF Pick
<1>4. CASE Release
    BY <1>4, Zenon DEF Release, FreeBuf
<1>5. CASE Lock
    BY <1>5, Zenon DEF Lock
<1>6. CASE Aggregate
    BY <1>6, Zenon DEF Aggregate
<1>7. CASE AggEnd
    BY <1>7, Zenon DEF AggEnd
<1>8. CASE SubmitAgg
    BY <1>8, Zenon DEF SubmitAgg, WritePort, FreeBuf
<1>9. CASE FreeFrame(Tasklet) \/ WakeQueue(Tasklet)
    BY <1>9, Zenon DEF FreeFrame, WakeQueue
<1>. QED
    BY <1>1, <1>2, <1>3, <1>4, <1>5, <1>6, <1>7, <1>8, <1>9, Zenon DEF TaskletStep

\* Every step of rtw_xmit, the tasklet and the completion keeps the pools,
\* queues and program counters well formed.
LEMMA ShapeNext == Shape /\ [Next]_vars => Shape'
<1>. SUFFICES ASSUME Shape, [Next]_vars PROVE Shape'
    BY Zenon
<1>. USE SenderFacts, NoDestType DEF Shape, Steps, Goto
<1>1. ASSUME NEW x \in Senders, Sender(x) PROVE Shape'
  <2>1. CASE \E q \in Servqs : Send(x, q)
    BY <1>1, <2>1 DEF Send
  <2>2. CASE CheckStop(x)
    BY <1>1, <2>2, Zenon DEF CheckStop
  <2>3. CASE PreXmit(x)
    BY <1>1, <2>3, Zenon DEF PreXmit
  <2>4. CASE XmitEnqueue(x)
    BY <1>1, <2>4 DEF XmitEnqueue
  <2>5. CASE Direct(x)
    BY <1>1, <2>5, Zenon DEF Direct
  <2>6. CASE FreeFrame(x)
    BY <1>1, <2>6, Zenon DEF FreeFrame
  <2>7. CASE WakeQueue(x)
    BY <1>1, <2>7, Zenon DEF WakeQueue, AfterFree
  <2>. QED
    BY <1>1, <2>1, <2>2, <2>3, <2>4, <2>5, <2>6, <2>7, Zenon DEF Sender
<1>2. CASE TaskletStep
  <2>1. CASE Start
    BY <2>1, Zenon DEF Start
  <2>2. CASE Check
    BY <2>2, ZenonT(30) DEF Check
  <2>3. CASE Pick
    BY <2>3 DEF Pick
  <2>4. CASE Release
    BY <2>4, Zenon DEF Release
  <2>5. CASE Lock
    BY <2>5, Zenon DEF Lock
  <2>6. CASE Aggregate
    BY <2>6, Zenon DEF Aggregate
  <2>7. CASE AggEnd
    BY <2>7, Zenon DEF AggEnd
  <2>8. CASE SubmitAgg
    BY <2>8, Zenon DEF SubmitAgg
  <2>9. CASE FreeFrame(Tasklet)
    BY <2>9, Zenon DEF FreeFrame
  <2>10. CASE WakeQueue(Tasklet)
    BY <2>10, Zenon DEF WakeQueue, AfterFree
  <2>. QED
    BY <1>2, <2>1, <2>2, <2>3, <2>4, <2>5, <2>6, <2>7, <2>8, <2>9, <2>10, Zenon
    DEF TaskletStep
<1>3. CASE (\E b \in Bufs : Complete(b)) \/ CompleteSchedule \/ Environment
    BY <1>3, OthersFrame, Zenon
<1>4. CASE UNCHANGED vars
    BY <1>4, Zenon DEF vars
<1>. QED
    BY <1>1, <1>2, <1>3, <1>4, Zenon DEF Next

\* Every step keeps who holds xmitpriv.lock across steps: a sender about to
\* queue its frame, or the tasklet while it aggregates.
LEMMA LockInvNext == Shape /\ LockInv /\ [Next]_vars => LockInv'
<1>. SUFFICES ASSUME Shape, LockInv, [Next]_vars PROVE LockInv'
    BY Zenon
<1>. USE SenderFacts DEF Shape, LockInv, Goto
<1>1. ASSUME NEW x \in Senders, Sender(x) PROVE LockInv'
  <2>1. CASE \E q \in Servqs : Send(x, q)
    BY <1>1, <2>1 DEF Send
  <2>2. CASE CheckStop(x)
    BY <1>1, <2>2, Zenon DEF CheckStop
  <2>3. CASE PreXmit(x)
    BY <1>1, <2>3 DEF PreXmit
  <2>4. CASE XmitEnqueue(x)
    BY <1>1, <2>4, Zenon DEF XmitEnqueue
  <2>5. CASE Direct(x)
    BY <1>1, <2>5, Zenon DEF Direct
  <2>6. CASE FreeFrame(x)
    BY <1>1, <2>6, Zenon DEF FreeFrame
  <2>7. CASE WakeQueue(x)
    BY <1>1, <2>7, Zenon DEF WakeQueue, AfterFree
  <2>. HIDE DEF LockInv
  <2>. QED
    BY <1>1, <2>1, <2>2, <2>3, <2>4, <2>5, <2>6, <2>7, Zenon DEF Sender
<1>2. CASE TaskletStep
  <2>1. CASE Start
    BY <2>1, Zenon DEF Start
  <2>2. CASE Check
    BY <2>2, ZenonT(30) DEF Check
  <2>3. CASE Pick
    BY <2>3, Zenon DEF Pick
  <2>4. CASE Release
    BY <2>4, Zenon DEF Release
  <2>5. CASE Lock
    BY <2>5, Zenon DEF Lock
  <2>6. CASE Aggregate
    BY <2>6, Zenon DEF Aggregate
  <2>7. CASE AggEnd
    BY <2>7, Zenon DEF AggEnd
  <2>8. CASE SubmitAgg
    BY <2>8, Zenon DEF SubmitAgg
  <2>9. CASE FreeFrame(Tasklet)
    BY <2>9, Zenon DEF FreeFrame
  <2>10. CASE WakeQueue(Tasklet)
    BY <2>10, Zenon DEF WakeQueue, AfterFree
  <2>. HIDE DEF LockInv
  <2>. QED
    BY <1>2, <2>1, <2>2, <2>3, <2>4, <2>5, <2>6, <2>7, <2>8, <2>9, <2>10, Zenon
    DEF TaskletStep
<1>3. CASE (\E b \in Bufs : Complete(b)) \/ CompleteSchedule \/ Environment
    BY <1>3, OthersFrame, Zenon
<1>4. CASE UNCHANGED vars
    BY <1>4, Zenon DEF vars
<1>. HIDE DEF LockInv
<1>. QED
    BY <1>1, <1>2, <1>3, <1>4, Zenon DEF Next

\* A context that holds no buffer takes a free one.
LEMMA AllocKeeps ==
    ASSUME BufInv, NEW h \in Holders, xbuf[h] = None, AllocBuf(h), UNCHANGED urb
    PROVE  /\ xbuf' \in [Holders -> Bufs \cup {None}] /\ BufConserved'
           /\ xbuf'[h] # None /\ \A g \in Holders \ {h} : xbuf'[g] = xbuf[g]
<1>1. PICK b \in free_xmitbuf : /\ free_xmitbuf' = free_xmitbuf \ {b}
                               /\ xbuf' = [xbuf EXCEPT ![h] = b]
    BY Zenon DEF AllocBuf
<1>2. b \in Bufs /\ b # None
    BY SenderFacts, Zenon DEF BufInv, BufConserved
<1>. QED
    BY <1>1, <1>2, SenderFacts DEF BufInv, BufConserved

\* Whether the URB is submitted or not, the context lets go of its buffer.
LEMMA WriteKeeps ==
    ASSUME BufInv, NEW h \in Holders, xbuf[h] # None,
           FreeBuf(h) \/ \E ok \in BOOLEAN : WritePort(h, ok)
    PROVE  /\ xbuf' \in [Holders -> Bufs \cup {None}] /\ BufConserved'
           /\ xbuf'[h] = None /\ \A g \in Holders \ {h} : xbuf'[g] = xbuf[g]
<1>1. CASE FreeBuf(h)
    BY <1>1, SenderFacts DEF FreeBuf, BufInv, BufConserved
<1>2. CASE \E ok \in BOOLEAN : WritePort(h, ok)
  <2>1. CASE FreeBuf(h)
    BY <1>1, <2>1, Zenon
  <2>2. CASE /\ urb' = urb \cup {xbuf[h]}
             /\ xbuf' = [xbuf EXCEPT ![h] = None]
             /\ free_xmitbuf' = free_xmitbuf
    BY <2>2, SenderFacts DEF BufInv, BufConserved
  <2>. QED
    BY <1>2, <2>1, <2>2, Zenon DEF WritePort
<1>. QED
    BY <1>1, <1>2, Zenon

\* Every step keeps each buffer in one place and in the hands of a context
\* only between rtw_alloc_xmitbuf and usb_write_port.
LEMMA BufInvNext == Shape /\ LockInv /\ BufInv /\ [Next]_vars => BufInv'
<1>. SUFFICES ASSUME Shape, LockInv, BufInv, [Next]_vars PROVE BufInv'
    BY Zenon
<1>. USE SenderFacts DEF Shape, Goto
<1>0. ASSUME UNCHANGED bufVars PROVE UNCHANGED xbuf /\ (BufConserved <=> BufConserved')
    BY <1>0 DEF bufVars, BufConserved
<1>1. ASSUME NEW x \in Senders, Sender(x) PROVE BufInv'
  <2>1. CASE \E q \in Servqs : Send(x, q)
    BY <1>0, <1>1, <2>1 DEF Send, BufInv
  <2>2. CASE CheckStop(x)
    BY <1>0, <1>1, <2>2, Zenon DEF CheckStop, BufInv
  <2>3. CASE PreXmit(x)
    <3>1. CASE AllocBuf(x) /\ pc' = [pc EXCEPT ![x] = "direct"] /\ UNCHANGED lock
      <4>1. xbuf[x] = None
        BY <2>3, Zenon DEF PreXmit, BufInv
      <4>2. UNCHANGED urb
        BY <2>3, Zenon DEF PreXmit
      <4>3. /\ xbuf' \in [Holders -> Bufs \cup {None}] /\ BufConserved'
            /\ xbuf'[x] # None /\ \A g \in Holders \ {x} : xbuf'[g] = xbuf[g]
        BY <3>1, <4>1, <4>2, AllocKeeps, Zenon
      <4>4. /\ pc'[x] = "direct" /\ pc'[Tasklet] = pc[Tasklet]
            /\ xbuf'[Tasklet] = xbuf[Tasklet] /\ lock' = lock
            /\ \A y \in Senders \ {x} : pc'[y] = pc[y] /\ xbuf'[y] = xbuf[y]
        BY <3>1, <4>3, Zenon
      <4>5. \A y \in Senders : xbuf'[y] # None <=> pc'[y] = "direct"
        BY <4>3, <4>4, Zenon DEF BufInv
      <4>. QED
        BY <4>3, <4>4, <4>5, Zenon DEF BufInv
    <3>2. CASE /\ lock' = x /\ pc' = [pc EXCEPT ![x] = "enqueue"]
               /\ UNCHANGED bufVars
      BY <1>0, <2>3, <3>2, Zenon DEF PreXmit, BufInv
    <3>. QED
      BY <2>3, <3>1, <3>2, Zenon DEF PreXmit, bufVars
  <2>4. CASE XmitEnqueue(x)
    BY <1>0, <1>1, <2>4, Zenon DEF XmitEnqueue, BufInv
  <2>5. CASE Direct(x)
    <3>1. xbuf[x] # None
      BY <2>5, Zenon DEF Direct, BufInv
    <3>2. FreeBuf(x) \/ \E ok \in BOOLEAN : WritePort(x, ok)
      BY <2>5, Zenon DEF Direct
    <3>3. /\ xbuf' \in [Holders -> Bufs \cup {None}] /\ BufConserved'
          /\ xbuf'[x] = None /\ \A g \in Holders \ {x} : xbuf'[g] = xbuf[g]
      BY <3>1, <3>2, WriteKeeps, Zenon
    <3>4. pc' = [pc EXCEPT ![x] = "free"] /\ UNCHANGED lock
      BY <2>5, Zenon DEF Direct
    <3>. QED
      BY <3>3, <3>4, Zenon DEF BufInv
  <2>6. CASE FreeFrame(x)
    BY <1>0, <1>1, <2>6, Zenon DEF FreeFrame, BufInv
  <2>7. CASE WakeQueue(x)
    BY <1>0, <1>1, <2>7, Zenon DEF WakeQueue, AfterFree, BufInv
  <2>. QED
    BY <1>1, <2>1, <2>2, <2>3, <2>4, <2>5, <2>6, <2>7, Zenon DEF Sender
<1>2. CASE TaskletStep
  <2>1. CASE Start
    BY <1>0, <2>1, Zenon DEF Start, BufInv
  <2>2. CASE Check
    <3>1. CASE AllocBuf(Tasklet) /\ pc' = [pc EXCEPT ![Tasklet] = "pick"]
      <4>1. xbuf[Tasklet] = None /\ UNCHANGED <<urb, lock>>
        BY <2>2, Zenon DEF Check, BufInv
      <4>2. /\ xbuf' \in [Holders -> Bufs \cup {None}] /\ BufConserved'
            /\ xbuf'[Tasklet] # None
            /\ \A g \in Holders \ {Tasklet} : xbuf'[g] = xbuf[g]
        BY <3>1, <4>1, AllocKeeps, Zenon
      <4>. QED
        BY <3>1, <4>1, <4>2, Zenon DEF BufInv
    <3>2. CASE pc' = [pc EXCEPT ![Tasklet] = "idle"] /\ UNCHANGED bufVars
      BY <1>0, <2>2, <3>2, Zenon DEF Check, BufInv, LockInv
    <3>. QED
      BY <2>2, <3>1, <3>2, Zenon DEF Check, bufVars
  <2>3. CASE Pick
    BY <1>0, <2>3, Zenon DEF Pick, BufInv
  <2>4. CASE Release
    <3>1. xbuf[Tasklet] # None /\ FreeBuf(Tasklet)
      BY <2>4, Zenon DEF Release, BufInv
    <3>2. /\ xbuf' \in [Holders -> Bufs \cup {None}] /\ BufConserved'
          /\ xbuf'[Tasklet] = None
          /\ \A g \in Holders \ {Tasklet} : xbuf'[g] = xbuf[g]
      BY <3>1, WriteKeeps, Zenon
    <3>3. lock # Tasklet /\ UNCHANGED lock /\ pc' = [pc EXCEPT ![Tasklet] = "idle"]
      BY <2>4, Zenon DEF Release, LockInv
    <3>. QED
      BY <3>2, <3>3, Zenon DEF BufInv
  <2>5. CASE Lock
    BY <1>0, <2>5, Zenon DEF Lock, BufInv
  <2>6. CASE Aggregate
    BY <1>0, <2>6, Zenon DEF Aggregate, BufInv
  <2>7. CASE AggEnd
    BY <1>0, <2>7, Zenon DEF AggEnd, BufInv
  <2>8. CASE SubmitAgg
    <3>1. xbuf[Tasklet] # None /\ \E ok \in BOOLEAN : WritePort(Tasklet, ok)
      BY <2>8, Zenon DEF SubmitAgg, BufInv
    <3>2. /\ xbuf' \in [Holders -> Bufs \cup {None}] /\ BufConserved'
          /\ xbuf'[Tasklet] = None
          /\ \A g \in Holders \ {Tasklet} : xbuf'[g] = xbuf[g]
      BY <3>1, WriteKeeps, Zenon
    <3>3. lock # Tasklet /\ UNCHANGED lock /\ pc' = [pc EXCEPT ![Tasklet] = "free"]
      BY <2>8, Zenon DEF SubmitAgg, LockInv
    <3>. QED
      BY <3>2, <3>3, Zenon DEF BufInv
  <2>9. CASE FreeFrame(Tasklet)
    BY <1>0, <2>9, Zenon DEF FreeFrame, BufInv
  <2>10. CASE WakeQueue(Tasklet)
    BY <1>0, <2>10, Zenon DEF WakeQueue, AfterFree, BufInv
  <2>. QED
    BY <1>2, <2>1, <2>2, <2>3, <2>4, <2>5, <2>6, <2>7, <2>8, <2>9, <2>10, Zenon
    DEF TaskletStep
<1>3. CASE \E b \in Bufs : Complete(b)
  <2>1. BufConserved'
    <3>1. PICK b \in Bufs : /\ b \in urb /\ UNCHANGED xbuf
                           /\ urb' = urb \ {b}
                           /\ free_xmitbuf' = free_xmitbuf \cup {b}
      BY <1>3, Zenon DEF Complete
    <3>. QED
      BY <3>1 DEF BufInv, BufConserved
  <2>. QED
    BY <1>3, <2>1, OthersFrame, Zenon DEF BufInv
<1>4. CASE CompleteSchedule \/ Environment
  <2>1. UNCHANGED bufVars
    BY <1>4, Zenon DEF CompleteSchedule, Environment, rtw_leave_opch, rtw_back_opch,
        XmitSchedule, SetCannotTx, Unhash, FlushXmit, Associate
  <2>. QED
    BY <1>0, <1>4, <2>1, OthersFrame, Zenon DEF BufInv
<1>5. CASE UNCHANGED vars
  <2>1. UNCHANGED <<bufVars, pc, lock>>
    BY <1>5, Zenon DEF vars
  <2>. QED
    BY <1>0, <2>1, Zenon DEF BufInv
<1>. QED
    BY <1>1, <1>2, <1>3, <1>4, <1>5, Zenon DEF Next

-----------------------------------------------------------------------------
(* What a step does to the frames                                          *)

\* A step that moves no frame.
Still ==
    /\ UNCHANGED <<free_xmit_queue, os_qid, sta_pending, frame, first, dest>>
    /\ \A h \in Holders : pc'[h] = "wake" <=> pc[h] = "wake"

\* pre_xmitframe puts the sender's frame at the end of its queue.
Queued(x) ==
    /\ pc[x] = "enqueue" /\ pc' = [pc EXCEPT ![x] = "idle"]
    /\ sta_pending' = [sta_pending EXCEPT
                         ![dest[x]] = Append(sta_pending[dest[x]], frame[x])]
    /\ frame' = [frame EXCEPT ![x] = None]
    /\ dest' = [dest EXCEPT ![x] = NoDest]
    /\ UNCHANGED <<free_xmit_queue, os_qid, first, stopped>>

\* The tasklet takes the first frame of a queue: of any, or of the one it
\* aggregates.
Taken(q) ==
    /\ sta_pending[q] # <<>>
    /\ pc[Tasklet] \in {"pick", "agg"}
    /\ pc[Tasklet] = "pick" => lock = None
    /\ pc[Tasklet] = "agg" => q = dest[Tasklet]
    /\ \E l \in {"lock", "free"} : pc' = [pc EXCEPT ![Tasklet] = l]
    /\ sta_pending' = [sta_pending EXCEPT ![q] = Tail(sta_pending[q])]
    /\ frame' = [frame EXCEPT ![Tasklet] = Head(sta_pending[q])]
    /\ dest' = [dest EXCEPT ![Tasklet] = q]
    /\ UNCHANGED <<free_xmit_queue, os_qid, first, stopped>>

Moves ==
    \/ \E x \in Senders : (\E q \in Servqs : Send(x, q)) \/ Queued(x)
    \/ \E h \in Holders : FreeFrame(h) \/ WakeQueue(h)
    \/ \E q \in Servqs : Taken(q)
    \/ Lock \/ SubmitAgg
    \/ \E s \in Stas : FlushXmit(s)

\* Every step of the senders, the tasklet and the others is one of these.
\* Only rtw_os_check_stop_queue stops a queue.
LEMMA StepKinds ==
    ASSUME Shape, LockInv, ListInv, HandInv, [Next]_vars
    PROVE  \/ Moves
           \/ Still /\ stopped' = stopped
           \/ Still /\ \E x \in Senders : CheckStop(x)
<1>. USE SenderFacts DEF Shape, Goto, poolVars, queueVars, aggVars
<1>1. ASSUME NEW x \in Senders, Sender(x)
      PROVE  Moves \/ (Still /\ stopped' = stopped) \/ (Still /\ CheckStop(x))
  <2>1. CASE (\E q \in Servqs : Send(x, q)) \/ FreeFrame(x) \/ WakeQueue(x)
    BY <2>1, Zenon DEF Moves
  <2>2. CASE CheckStop(x)
    BY <2>2, Zenon DEF CheckStop, Still
  <2>3. CASE PreXmit(x)
    BY <2>3, Zenon DEF PreXmit, Still
  <2>4. CASE XmitEnqueue(x)
    <3>1. CASE sta[dest[x].sta] = "asoc"
      <4>1. Queued(x)
        BY <2>4, <3>1, Zenon DEF XmitEnqueue, Enqueue, Queued
      <4>. QED
        BY <4>1, Zenon DEF Moves
    <3>2. CASE sta[dest[x].sta] # "asoc"
      BY <2>4, <3>2, Zenon DEF XmitEnqueue, Still
    <3>. QED
      BY <3>1, <3>2, Zenon
  <2>5. CASE Direct(x)
    BY <2>5, Zenon DEF Direct, Still
  <2>. QED
    BY <1>1, <2>1, <2>2, <2>3, <2>4, <2>5, Zenon DEF Sender
<1>2. CASE TaskletStep
  <2>1. CASE Start
    BY <2>1, Zenon DEF Start, Still
  <2>2. CASE Check
    BY <2>2, Zenon DEF Check, Still
  <2>3. CASE Pick
    <3>1. CASE \A ac \in Acs : sta_queue[ac] = <<>>
      BY <2>3, <3>1, Zenon DEF Pick, Still
    <3>2. CASE ~ \A ac \in Acs : sta_queue[ac] = <<>>
      <4>1. PICK q \in Servqs :
              /\ FirstServq(q) /\ Dequeue(q)
              /\ frame' = [frame EXCEPT ![Tasklet] = Head(sta_pending[q])]
              /\ dest' = [dest EXCEPT ![Tasklet] = q]
              /\ \E l \in {"lock", "free"} : pc' = [pc EXCEPT ![Tasklet] = l]
        BY <2>3, <3>2, Zenon DEF Pick
      <4>2. /\ pc[Tasklet] = "pick" /\ lock = None
            /\ UNCHANGED <<free_xmit_queue, os_qid, first, stopped>>
        BY <2>3, Zenon DEF Pick
      <4>3. sta_pending[q] # <<>>
        <5>1. sta_queue[q.ac] \in Seq(Stas) /\ sta_queue[q.ac] # <<>>
          BY <4>1, Zenon DEF FirstServq, ListInv, Servqs
        <5>2. 1 \in DOMAIN sta_queue[q.ac] /\ sta_queue[q.ac][1] = q.sta
          BY <4>1, <5>1 DEF FirstServq
        <5>3. Linked(sta_queue[q.ac], q.sta)
          BY <5>2, Zenon DEF Linked
        <5>. QED
          BY <4>2, <5>3, Zenon DEF ListInv, Served
      <4>4. Taken(q)
        BY <4>1, <4>2, <4>3, Zenon DEF Taken, Dequeue
      <4>. QED
        BY <4>4, Zenon DEF Moves
    <3>. QED
      BY <3>1, <3>2, Zenon
  <2>4. CASE Release
    BY <2>4, Zenon DEF Release, Still
  <2>5. CASE Lock \/ SubmitAgg \/ FreeFrame(Tasklet) \/ WakeQueue(Tasklet)
    BY <2>5, Zenon DEF Moves
  <2>6. CASE Aggregate
    <3>0. PICK q \in Servqs : q = dest[Tasklet]
      BY Zenon
    <3>1. dest' = [dest EXCEPT ![Tasklet] = q]
      BY <2>6, <3>0, Zenon DEF Aggregate
    <3>2. Taken(q)
      BY <2>6, <3>0, <3>1, Zenon DEF Aggregate, Taken
    <3>. QED
      BY <3>2, Zenon DEF Moves
  <2>7. CASE AggEnd
    BY <2>7, Zenon DEF AggEnd, Still
  <2>. QED
    BY <1>2, <2>1, <2>2, <2>3, <2>4, <2>5, <2>6, <2>7, Zenon DEF TaskletStep
<1>3. CASE (\E b \in Bufs : Complete(b)) \/ CompleteSchedule
    BY <1>3, Zenon DEF Complete, CompleteSchedule, Still
<1>4. CASE Environment
  <2>1. CASE \E s \in Leavers : FlushXmit(s)
    BY <2>1, ConstAssumption, Zenon DEF Moves
  <2>2. CASE ~ \E s \in Leavers : FlushXmit(s)
    <3>1. UNCHANGED <<poolVars, queueVars, frame, dest, aggVars, stopped, pc>>
      BY <1>4, <2>2, Zenon DEF Environment, rtw_leave_opch, rtw_back_opch,
          XmitSchedule, SetCannotTx, Unhash, Associate
    <3>. QED
      BY <3>1, Zenon DEF Still
  <2>. QED
    BY <2>1, <2>2, Zenon
<1>5. CASE UNCHANGED vars
    BY <1>5, Zenon DEF vars, Still
<1>. QED
    BY <1>1, <1>2, <1>3, <1>4, <1>5, Zenon DEF Next

-----------------------------------------------------------------------------
(* Frames on the move, as facts about the places alone                     *)

\* What the tail of a queue of frames holds.
LEMMA TailOf ==
    ASSUME NEW t \in Seq(Frames), t # <<>>
    PROVE  /\ Tail(t) \in Seq(Frames) /\ Len(t) \in Nat \ {0}
           /\ DOMAIN t = 1..Len(t) /\ DOMAIN Tail(t) = 1..(Len(t) - 1)
           /\ \A i \in 1..(Len(t) - 1) : Tail(t)[i] = t[i + 1]
           /\ Head(t) = t[1] /\ Head(t) \in Frames
    OBVIOUS

\* What a queue holds after list_add_tail of one more frame.
LEMMA AppendOf ==
    ASSUME NEW t \in Seq(Frames), NEW f \in Frames
    PROVE  /\ Append(t, f) \in Seq(Frames) /\ Len(t) \in Nat
           /\ DOMAIN t = 1..Len(t) /\ DOMAIN Append(t, f) = 1..(Len(t) + 1)
           /\ \A i \in 1..Len(t) : Append(t, f)[i] = t[i]
           /\ Append(t, f)[Len(t) + 1] = f
    OBVIOUS

\* The frames of the queues W.
In(W) == {f \in Frames : \E q \in Servqs : \E i \in DOMAIN W[q] : W[q][i] = f}

\* Taking the first frame of a queue leaves all others where they wait.
LEMMA TailPlaces ==
    ASSUME NEW W \in [Servqs -> Seq(Frames)], Once(W), NEW q \in Servqs, W[q] # <<>>,
           NEW V, V = [W EXCEPT ![q] = Tail(W[q])]
    PROVE  /\ V \in [Servqs -> Seq(Frames)] /\ Once(V)
           /\ Head(W[q]) \in In(W) /\ In(V) = In(W) \ {Head(W[q])}
<1>. DEFINE t == W[q]
            u == Tail(t)
            n == Len(t)
<1>1. /\ t \in Seq(Frames) /\ u \in Seq(Frames) /\ n \in Nat \ {0}
      /\ DOMAIN t = 1..n /\ DOMAIN u = 1..(n - 1)
      /\ \A i \in 1..(n - 1) : u[i] = t[i + 1]
      /\ Head(t) = t[1] /\ Head(t) \in Frames
    BY TailOf, Zenon
<1>2. V[q] = u /\ \A r \in Servqs \ {q} : V[r] = W[r]
    BY Zenon
<1>3. V \in [Servqs -> Seq(Frames)]
    BY <1>1, Zenon
<1>. HIDE DEF u, n
<1>4. ASSUME NEW r \in Servqs, NEW i \in DOMAIN V[r]
      PROVE  \E j \in DOMAIN W[r] : /\ V[r][i] = W[r][j]
                                    /\ j = IF r = q THEN i + 1 ELSE i
  <2>1. CASE r = q
    <3>1. i \in 1..(n - 1) /\ i + 1 \in 1..n
      BY <1>1, <1>2, <1>4, <2>1
    <3>. QED
      BY <1>1, <1>2, <2>1, <3>1, Zenon
  <2>2. CASE r # q
    BY <1>2, <1>4, <2>2, Zenon
  <2>. QED
    BY <2>1, <2>2, Zenon
<1>5. Once(V)
  <2>. SUFFICES ASSUME NEW r \in Servqs, NEW s \in Servqs,
                       NEW i \in DOMAIN V[r], NEW j \in DOMAIN V[s],
                       V[r][i] = V[s][j]
                PROVE  r = s /\ i = j
    BY Zenon DEF Once
  <2>1. PICK k \in DOMAIN W[r] : /\ V[r][i] = W[r][k]
                                 /\ k = IF r = q THEN i + 1 ELSE i
    BY <1>4, Zenon
  <2>2. PICK l \in DOMAIN W[s] : /\ V[s][j] = W[s][l]
                                 /\ l = IF s = q THEN j + 1 ELSE j
    BY <1>4, Zenon
  <2>3. r = s /\ k = l
    BY <2>1, <2>2 DEF Once
  <2>4. i \in Nat /\ j \in Nat
    BY <1>3
  <2>. QED
    BY <2>1, <2>2, <2>3, <2>4
<1>6. Head(t) \in In(W)
  <2>1. 1 \in DOMAIN W[q] /\ W[q][1] = Head(t)
    BY <1>1
  <2>. QED
    BY <1>1, <2>1, Zenon DEF In
<1>7. ASSUME NEW f \in In(V) PROVE f \in In(W) \ {Head(t)}
  <2>1. PICK r \in Servqs : \E i \in DOMAIN V[r] : V[r][i] = f
    BY <1>7, Zenon DEF In
  <2>2. PICK i \in DOMAIN V[r] : V[r][i] = f
    BY <2>1, Zenon
  <2>3. PICK j \in DOMAIN W[r] : /\ V[r][i] = W[r][j]
                                 /\ j = IF r = q THEN i + 1 ELSE i
    BY <1>4, Zenon
  <2>4. i \in Nat \ {0} /\ 1 \in DOMAIN W[q] /\ W[q][1] = Head(t)
    BY <1>1, <1>3
  <2>5. ~(r = q /\ j = 1)
    BY <2>3, <2>4
  <2>6. W[r][j] # W[q][1]
    BY <2>4, <2>5 DEF Once
  <2>. QED
    BY <1>7, <2>2, <2>3, <2>4, <2>6 DEF In
<1>8. ASSUME NEW f \in In(W), f # Head(t) PROVE f \in In(V)
  <2>1. PICK r \in Servqs : \E j \in DOMAIN W[r] : W[r][j] = f
    BY <1>8, Zenon DEF In
  <2>2. PICK j \in DOMAIN W[r] : W[r][j] = f
    BY <2>1, Zenon
  <2>3. CASE r = q
    <3>1. j \in 1..n /\ j # 1
      BY <1>1, <1>8, <2>2, <2>3, Zenon
    <3>2. j - 1 \in 1..(n - 1) /\ (j - 1) + 1 = j
      BY <1>1, <3>1
    <3>3. j - 1 \in DOMAIN V[q] /\ V[q][j - 1] = f
      BY <1>1, <1>2, <2>2, <2>3, <3>2, Zenon
    <3>. QED
      BY <1>8, <3>3, Zenon DEF In
  <2>4. CASE r # q
    BY <1>2, <1>8, <2>2, <2>4, Zenon DEF In
  <2>. QED
    BY <2>3, <2>4, Zenon
<1>. QED
    BY <1>3, <1>5, <1>6, <1>7, <1>8, Zenon

\* Queueing a frame that does not wait yet moves no other.
LEMMA AppendPlaces ==
    ASSUME NEW W \in [Servqs -> Seq(Frames)], Once(W), NEW q \in Servqs,
           NEW f \in Frames, f \notin In(W),
           NEW V, V = [W EXCEPT ![q] = Append(W[q], f)]
    PROVE  /\ V \in [Servqs -> Seq(Frames)] /\ Once(V)
           /\ In(V) = In(W) \cup {f}
<1>. DEFINE t == W[q]
            u == Append(t, f)
            n == Len(t)
<1>1. /\ t \in Seq(Frames) /\ u \in Seq(Frames) /\ n \in Nat
      /\ DOMAIN t = 1..n /\ DOMAIN u = 1..(n + 1)
      /\ \A i \in 1..n : u[i] = t[i]
      /\ u[n + 1] = f
    BY AppendOf, Zenon
<1>2. V[q] = u /\ \A r \in Servqs \ {q} : V[r] = W[r]
    BY Zenon
<1>3. V \in [Servqs -> Seq(Frames)]
    BY <1>1, Zenon
<1>. HIDE DEF u, n
<1>4. ASSUME NEW r \in Servqs, NEW i \in DOMAIN V[r]
      PROVE  \/ i \in DOMAIN W[r] /\ V[r][i] = W[r][i]
             \/ r = q /\ i = n + 1 /\ V[r][i] = f
  <2>1. CASE r = q
    <3>1. i \in 1..n \/ i = n + 1
      BY <1>1, <1>2, <1>4, <2>1
    <3>. QED
      BY <1>1, <1>2, <2>1, <3>1, Zenon
  <2>2. CASE r # q
    BY <1>2, <1>4, <2>2, Zenon
  <2>. QED
    BY <2>1, <2>2, Zenon
<1>5. \A r \in Servqs : \A i \in DOMAIN W[r] : W[r][i] # f
    BY Zenon DEF In
<1>6. Once(V)
  <2>. SUFFICES ASSUME NEW r \in Servqs, NEW s \in Servqs,
                       NEW i \in DOMAIN V[r], NEW j \in DOMAIN V[s],
                       V[r][i] = V[s][j]
                PROVE  r = s /\ i = j
    BY Zenon DEF Once
  <2>1. \/ i \in DOMAIN W[r] /\ V[r][i] = W[r][i]
        \/ r = q /\ i = n + 1 /\ V[r][i] = f
    BY <1>4, Zenon
  <2>2. \/ j \in DOMAIN W[s] /\ V[s][j] = W[s][j]
        \/ s = q /\ j = n + 1 /\ V[s][j] = f
    BY <1>4, Zenon
  <2>. QED
    BY <1>5, <2>1, <2>2 DEF Once
<1>7. ASSUME NEW g \in In(V) PROVE g \in In(W) \cup {f}
  <2>1. PICK r \in Servqs : \E i \in DOMAIN V[r] : V[r][i] = g
    BY <1>7, Zenon DEF In
  <2>2. PICK i \in DOMAIN V[r] : V[r][i] = g
    BY <2>1, Zenon
  <2>3. \/ i \in DOMAIN W[r] /\ V[r][i] = W[r][i]
        \/ r = q /\ i = n + 1 /\ V[r][i] = f
    BY <1>4, Zenon
  <2>. QED
    BY <1>7, <2>2, <2>3, Zenon DEF In
<1>8. ASSUME NEW g \in In(W) PROVE g \in In(V)
  <2>1. PICK r \in Servqs : \E j \in DOMAIN W[r] : W[r][j] = g
    BY <1>8, Zenon DEF In
  <2>2. PICK j \in DOMAIN W[r] : W[r][j] = g
    BY <2>1, Zenon
  <2>3. j \in DOMAIN V[r] /\ V[r][j] = g
    <3>1. CASE r = q
      <4>1. j \in 1..n /\ j \in 1..(n + 1)
        BY <1>1, <2>2, <3>1
      <4>. QED
        BY <1>1, <1>2, <2>2, <3>1, <4>1, Zenon
    <3>2. CASE r # q
      BY <1>2, <2>2, <3>2, Zenon
    <3>. QED
      BY <3>1, <3>2, Zenon
  <2>. QED
    BY <1>8, <2>3, Zenon DEF In
<1>9. f \in In(V)
  <2>1. n + 1 \in DOMAIN V[q] /\ V[q][n + 1] = f
    BY <1>1, <1>2
  <2>. QED
    BY <2>1, Zenon DEF In
<1>. QED
    BY <1>3, <1>6, <1>7, <1>8, <1>9, Zenon

\* The frames of one station's queues.
Of(W, s) == UNION {Range(W[[sta |-> s, ac |-> ac]]) : ac \in Acs}

\* Freeing a station empties its queues and moves no other frame.
LEMMA FlushPlaces ==
    ASSUME NEW W \in [Servqs -> Seq(Frames)], Once(W), NEW s \in Stas,
           NEW V, V = [q \in Servqs |-> IF q.sta = s THEN <<>> ELSE W[q]]
    PROVE  /\ V \in [Servqs -> Seq(Frames)] /\ Once(V)
           /\ Of(W, s) \in SUBSET In(W) /\ In(V) = In(W) \ Of(W, s)
           /\ \A q \in Servqs :
                q.sta = s => \A i \in DOMAIN W[q] : W[q][i] \in Of(W, s)
<1>0. PICK G : G = Of(W, s) /\ G = UNION {Range(W[[sta |-> s, ac |-> ac]]) : ac \in Acs}
    BY Zenon DEF Of
<1>1. \A q \in Servqs : V[q] = IF q.sta = s THEN <<>> ELSE W[q]
    BY Zenon
<1>2. \A q \in Servqs : V[q] \in Seq(Frames)
    BY <1>1
<1>3. V \in [Servqs -> Seq(Frames)]
    BY <1>2, Zenon
<1>4. \A q \in Servqs : \A i \in DOMAIN V[q] : q.sta # s /\ V[q] = W[q]
    BY <1>1
<1>5. Once(V)
    BY <1>4 DEF Once
<1>6. ASSUME NEW q \in Servqs, q.sta = s, NEW i \in DOMAIN W[q] PROVE W[q][i] \in G
  <2>1. q = [sta |-> s, ac |-> q.ac] /\ q.ac \in Acs
    BY <1>6, Zenon DEF Servqs
  <2>2. W[q][i] \in Range(W[q])
    BY Zenon DEF Range
  <2>3. Range(W[q]) \in {Range(W[[sta |-> s, ac |-> ac]]) : ac \in Acs}
    BY <2>1, Zenon
  <2>. QED
    BY <1>0, <2>2, <2>3, Zenon
<1>7. ASSUME NEW f \in G
      PROVE  \E q \in Servqs : q.sta = s /\ \E i \in DOMAIN W[q] : W[q][i] = f
  <2>1. PICK ac \in Acs : f \in Range(W[[sta |-> s, ac |-> ac]])
    BY <1>0, <1>7, Zenon
  <2>2. PICK q \in Servqs : q = [sta |-> s, ac |-> ac]
    BY Zenon DEF Servqs
  <2>. QED
    BY <2>1, <2>2, Zenon DEF Range
<1>8. G \subseteq In(W)
  <2>. SUFFICES ASSUME NEW f \in G PROVE f \in In(W)
    BY Zenon
  <2>1. PICK q \in Servqs : \E i \in DOMAIN W[q] : W[q][i] = f
    BY <1>7, Zenon
  <2>2. PICK i \in DOMAIN W[q] : W[q][i] = f
    BY <2>1, Zenon
  <2>3. W[q] \in Seq(Frames) /\ f \in Frames
    BY <2>2
  <2>. QED
    BY <2>2, <2>3, Zenon DEF In
<1>9. ASSUME NEW f \in In(V) PROVE f \in In(W) \ G
  <2>1. PICK r \in Servqs : \E i \in DOMAIN V[r] : V[r][i] = f
    BY <1>9, Zenon DEF In
  <2>2. PICK i \in DOMAIN V[r] : V[r][i] = f
    BY <2>1, Zenon
  <2>3. r.sta # s /\ i \in DOMAIN W[r] /\ W[r][i] = f
    BY <1>4, <2>2, Zenon
  <2>4. f \notin G
    <3>. SUFFICES ASSUME f \in G PROVE FALSE
      BY Zenon
    <3>1. PICK q \in Servqs : q.sta = s /\ \E j \in DOMAIN W[q] : W[q][j] = f
      BY <1>7, Zenon
    <3>. QED
      BY <2>3, <3>1, Zenon DEF Once
  <2>. QED
    BY <1>9, <2>3, <2>4, Zenon DEF In
<1>10. ASSUME NEW f \in In(W), f \notin G PROVE f \in In(V)
  <2>1. PICK r \in Servqs : \E i \in DOMAIN W[r] : W[r][i] = f
    BY <1>10, Zenon DEF In
  <2>2. PICK i \in DOMAIN W[r] : W[r][i] = f
    BY <2>1, Zenon
  <2>3. V[r] = W[r]
    BY <1>1, <1>6, <1>10, <2>2, Zenon
  <2>. QED
    BY <1>10, <2>2, <2>3, Zenon DEF In
<1>. QED
    BY <1>0, <1>3, <1>5, <1>6, <1>8, <1>9, <1>10, Zenon

\* The frames waiting, by their places.
LEMMA WaitingIn == Waiting = In(sta_pending)
    BY Zenon DEF Waiting, Waits, In, Range

\* The six ways a frame changes its place.
LEMMA Moved ==
    ASSUME NEW P \in SUBSET Frames, NEW H \in [Holders -> Frames \cup {None}],
           NEW F \in Frames \cup {None}, NEW S \in SUBSET Frames, Partition(P, H, F, S),
           NEW h \in Holders
    PROVE  /\ \A f \in P :
                H[h] = None => Partition(P \ {f}, [H EXCEPT ![h] = f], F, S)
           /\ H[h] # None => Partition(P \cup {H[h]}, [H EXCEPT ![h] = None], F, S)
           /\ H[h] # None => Partition(P, [H EXCEPT ![h] = None], F, S \cup {H[h]})
           /\ \A f \in S :
                H[h] = None => Partition(P, [H EXCEPT ![h] = f], F, S \ {f})
           /\ H[h] # None /\ F = None => Partition(P, [H EXCEPT ![h] = None], H[h], S)
           /\ H[h] = None /\ F # None => Partition(P, [H EXCEPT ![h] = F], None, S)
           /\ \A G \in SUBSET S : Partition(P \cup G, H, F, S \ G)
<1>0. None \notin Frames
    BY ConstAssumption, Zenon
<1>1. ASSUME NEW f \in P, H[h] = None
      PROVE  Partition(P \ {f}, [H EXCEPT ![h] = f], F, S)
    BY <1>0, <1>1 DEF Partition
<1>2. ASSUME H[h] # None
      PROVE  Partition(P \cup {H[h]}, [H EXCEPT ![h] = None], F, S)
    BY <1>0, <1>2 DEF Partition
<1>3. ASSUME H[h] # None
      PROVE  Partition(P, [H EXCEPT ![h] = None], F, S \cup {H[h]})
    BY <1>0, <1>3 DEF Partition
<1>4. ASSUME NEW f \in S, H[h] = None
      PROVE  Partition(P, [H EXCEPT ![h] = f], F, S \ {f})
    BY <1>0, <1>4 DEF Partition
<1>5. ASSUME H[h] # None, F = None
      PROVE  Partition(P, [H EXCEPT ![h] = None], H[h], S)
    BY <1>0, <1>5, Zenon DEF Partition
<1>6. ASSUME H[h] = None, F # None
      PROVE  Partition(P, [H EXCEPT ![h] = F], None, S)
    BY <1>0, <1>6 DEF Partition
<1>7. ASSUME NEW G \in SUBSET S PROVE Partition(P \cup G, H, F, S \ G)
    BY <1>0, <1>7, Zenon DEF Partition
<1>. QED
    BY <1>1, <1>2, <1>3, <1>4, <1>5, <1>6, <1>7, Zenon

-----------------------------------------------------------------------------
(* Every step keeps the frames in their places                             *)

\* Every step keeps when a context has a frame: a sender throughout
\* rtw_xmit, the tasklet from rtw_dequeue_xframe to rtw_free_xmitframe, with
\* its first frame set aside while it aggregates.
LEMMA HandInvNext ==
    ASSUME Shape, LockInv, ListInv, FrameType, HandInv, [Next]_vars
    PROVE  HandInv'
<1>0. None \notin Frames
    BY ConstAssumption, Zenon
<1>. USE SenderFacts DEF Shape, LockInv, HandInv, FrameType, Goto, poolVars, aggVars
<1>1. ASSUME NEW x \in Senders, Sender(x) PROVE HandInv'
  <2>1. CASE \E q \in Servqs : Send(x, q)
    BY <1>0, <2>1 DEF Send
  <2>2. CASE CheckStop(x)
    BY <2>2, Zenon DEF CheckStop
  <2>3. CASE PreXmit(x)
    BY <2>3 DEF PreXmit
  <2>4. CASE XmitEnqueue(x)
    <3>1. /\ pc[x] = "enqueue" /\ lock' = None /\ first' = first
          /\ \/ frame' = [frame EXCEPT ![x] = None] /\ pc' = [pc EXCEPT ![x] = "idle"]
             \/ frame' = frame /\ pc' = [pc EXCEPT ![x] = "free"]
      BY <2>4, Zenon DEF XmitEnqueue
    <3>2. lock = x /\ x # Tasklet
      BY <3>1, Zenon
    <3>3. first = None \/ pc[Tasklet] = "submit"
      BY <3>2, Zenon
    <3>4. CASE frame' = [frame EXCEPT ![x] = None] /\ pc' = [pc EXCEPT ![x] = "idle"]
      BY <1>0, <3>1, <3>2, <3>3, <3>4
    <3>5. CASE frame' = frame /\ pc' = [pc EXCEPT ![x] = "free"]
      BY <1>0, <3>1, <3>2, <3>3, <3>5
    <3>. QED
      BY <3>1, <3>4, <3>5, Zenon
  <2>5. CASE Direct(x)
    BY <2>5, Zenon DEF Direct
  <2>6. CASE FreeFrame(x)
    BY <2>6, Zenon DEF FreeFrame
  <2>7. CASE WakeQueue(x)
    BY <2>7, Zenon DEF WakeQueue, AfterFree
  <2>. HIDE DEF HandInv
  <2>. QED
    BY <1>1, <2>1, <2>2, <2>3, <2>4, <2>5, <2>6, <2>7, Zenon DEF Sender
<1>2. CASE TaskletStep
  <2>1. CASE Start
    BY <2>1, Zenon DEF Start
  <2>2. CASE Check
    BY <2>2, ZenonT(30) DEF Check
  <2>3. CASE Pick
    <3>1. CASE \A ac \in Acs : sta_queue[ac] = <<>>
      BY <2>3, <3>1, Zenon DEF Pick
    <3>2. CASE ~ \A ac \in Acs : sta_queue[ac] = <<>>
      <4>1. PICK q \in Servqs :
              /\ FirstServq(q)
              /\ frame' = [frame EXCEPT ![Tasklet] = Head(sta_pending[q])]
              /\ \E l \in {"lock", "free"} : pc' = [pc EXCEPT ![Tasklet] = l]
        BY <2>3, <3>2, Zenon DEF Pick
      <4>2. pc[Tasklet] = "pick" /\ lock = None /\ UNCHANGED <<lock, first>>
        BY <2>3, Zenon DEF Pick
      <4>3. Head(sta_pending[q]) \in Frames
        <5>1. Linked(sta_queue[q.ac], q.sta)
          <6>1. sta_queue[q.ac] \in Seq(Stas) /\ sta_queue[q.ac] # <<>>
            BY <4>1, Zenon DEF FirstServq, ListInv, Servqs
          <6>2. 1 \in DOMAIN sta_queue[q.ac] /\ sta_queue[q.ac][1] = q.sta
            BY <4>1, <6>1 DEF FirstServq
          <6>. QED
            BY <6>2, Zenon DEF Linked
        <5>2. sta_pending[q] # <<>> /\ sta_pending[q] \in Seq(Frames)
          BY <4>2, <5>1, Zenon DEF ListInv, Served
        <5>. QED
          BY <5>2
      <4>. QED
        BY <1>0, <4>1, <4>2, <4>3, Zenon
    <3>. QED
      BY <3>1, <3>2, Zenon
  <2>4. CASE Release
    BY <2>4, Zenon DEF Release
  <2>5. CASE Lock
    BY <2>5, Zenon DEF Lock
  <2>6. CASE Aggregate
    <3>0. PICK q \in Servqs : q = dest[Tasklet]
      BY Zenon
    <3>1. Head(sta_pending[q]) \in Frames
      <4>1. sta_pending[q] # <<>> /\ sta_pending[q] \in Seq(Frames)
        BY <2>6, <3>0, Zenon DEF Aggregate
      <4>. QED
        BY <4>1
    <3>2. /\ pc[Tasklet] = "agg" /\ pc' = [pc EXCEPT ![Tasklet] = "free"]
          /\ frame' = [frame EXCEPT ![Tasklet] = Head(sta_pending[q])]
          /\ UNCHANGED <<lock, first>>
      BY <2>6, <3>0, Zenon DEF Aggregate
    <3>. QED
      BY <1>0, <3>1, <3>2, Zenon
  <2>7. CASE AggEnd
    BY <2>7, Zenon DEF AggEnd
  <2>8. CASE SubmitAgg
    BY <2>8, Zenon DEF SubmitAgg
  <2>9. CASE FreeFrame(Tasklet)
    BY <2>9, Zenon DEF FreeFrame
  <2>10. CASE WakeQueue(Tasklet)
    BY <2>10, Zenon DEF WakeQueue, AfterFree
  <2>. HIDE DEF HandInv
  <2>. QED
    BY <1>2, <2>1, <2>2, <2>3, <2>4, <2>5, <2>6, <2>7, <2>8, <2>9, <2>10, Zenon
    DEF TaskletStep
<1>3. ASSUME UNCHANGED <<pc, lock, frame, first>> PROVE HandInv'
    BY <1>3, Zenon
<1>4. CASE (\E b \in Bufs : Complete(b)) \/ CompleteSchedule \/ Environment
  <2>1. UNCHANGED <<pc, lock, frame, first>>
    BY <1>4, Zenon DEF Complete, CompleteSchedule, Environment, rtw_leave_opch,
        rtw_back_opch, XmitSchedule, SetCannotTx, Unhash, FlushXmit, Associate
  <2>. QED
    BY <1>3, <2>1, Zenon
<1>5. CASE UNCHANGED vars
    BY <1>3, <1>5, Zenon DEF vars
<1>. HIDE DEF HandInv
<1>. QED
    BY <1>1, <1>2, <1>4, <1>5, Zenon DEF Next

\* The frame of a context is the one it answers for, unless it has given it
\* back.
LEMMA HandType ==
    ASSUME FrameType
    PROVE  /\ Hand \in [Holders -> Frames \cup {None}] /\ Waiting \in SUBSET Frames
           /\ \A h \in Holders : Hand[h] = IF pc[h] = "wake" THEN None ELSE frame[h]
    BY Zenon DEF FrameType, Hand, Waiting

\* The invariant of the frames, in one place.
LEMMA FrameFacts ==
    ASSUME Shape, FrameInv
    PROVE  /\ None \notin Frames
           /\ FrameType /\ HandInv /\ OwnInv
           /\ Partition(free_xmit_queue, Hand, first, Waiting) /\ Once(sta_pending)
           /\ free_xmit_queue \in SUBSET Frames /\ first \in Frames \cup {None}
           /\ sta_pending \in [Servqs -> Seq(Frames)]
           /\ frame \in [Holders -> Frames \cup {None}] /\ os_qid \in [Frames -> Acs]
           /\ pc \in [Holders -> Steps] /\ dest \in [Holders -> Servqs]
           /\ Hand \in [Holders -> Frames \cup {None}] /\ Waiting \in SUBSET Frames
           /\ \A h \in Holders : Hand[h] = IF pc[h] = "wake" THEN None ELSE frame[h]
           /\ Waiting = In(sta_pending)
    BY ConstAssumption, HandType, WaitingIn, Zenon
    DEF FrameInv, FrameType, PlaceInv, Shape

\* The same of the next state.
LEMMA NextFacts ==
    /\ Hand' = [h \in Holders |-> IF pc'[h] = "wake" THEN None ELSE frame'[h]]
    /\ Waiting' = In(sta_pending')
    /\ PlaceInv' <=> /\ Partition(free_xmit_queue', Hand', first', Waiting')
                    /\ Once(sta_pending')
    BY Zenon DEF Hand, Waiting, Waits, In, Range, PlaceInv

\* A step that moves no frame.
LEMMA StillKeeps ==
    ASSUME Shape, FrameInv, Still
    PROVE  FrameType' /\ PlaceInv' /\ OwnInv'
<1>1. UNCHANGED <<free_xmit_queue, os_qid, sta_pending, frame, first, dest>>
    BY Zenon DEF Still
<1>2. Hand' = Hand
    BY NextFacts, Zenon DEF Still, Hand
<1>3. PlaceInv'
    BY <1>1, <1>2, FrameFacts, NextFacts, Zenon
<1>4. FrameType'
    BY <1>1, FrameFacts, Zenon DEF FrameType
<1>5. OwnInv'
    BY <1>1, <1>2, FrameFacts, Zenon DEF OwnInv
<1>. QED
    BY <1>3, <1>4, <1>5, Zenon

\* rtw_alloc_xmitframe takes a frame that nobody else has, and writes its os_qid.
LEMMA SendKeeps ==
    ASSUME Shape, FrameInv, NEW x \in Senders, NEW q \in Servqs, Send(x, q)
    PROVE  FrameType' /\ PlaceInv' /\ OwnInv'
<1>1. PICK f \in free_xmit_queue :
        /\ free_xmit_queue' = free_xmit_queue \ {f}
        /\ os_qid' = [os_qid EXCEPT ![f] = q.ac]
        /\ frame' = [frame EXCEPT ![x] = f]
    BY Zenon DEF Send
<1>2. /\ pc[x] = "idle" /\ pc' = [pc EXCEPT ![x] = "stop"]
      /\ dest' = [dest EXCEPT ![x] = q]
      /\ sta_pending' = sta_pending /\ first' = first
    BY Zenon DEF Send, Goto, queueVars, aggVars
<1>3. x \in Holders /\ x # Tasklet /\ frame[x] = None /\ f \in Frames /\ q.ac \in Acs
    BY <1>2, FrameFacts, SenderFacts, Zenon DEF HandInv, Servqs
<1>4. Hand[x] = None /\ Hand' = [Hand EXCEPT ![x] = f]
    BY <1>1, <1>2, <1>3, FrameFacts, NextFacts, Zenon
<1>5. PlaceInv'
  <2>1. Partition(free_xmit_queue \ {f}, [Hand EXCEPT ![x] = f], first, Waiting)
    BY <1>3, <1>4, FrameFacts, Moved, Zenon
  <2>. QED
    BY <1>1, <1>2, <1>4, <2>1, FrameFacts, NextFacts, Zenon
<1>6. FrameType'
    BY <1>1, <1>2, <1>3, FrameFacts, Zenon DEF FrameType
<1>7. OwnInv'
  <2>1. \A h \in Holders : Hand'[h] # None => os_qid'[Hand'[h]] = dest'[h].ac
    <3>. SUFFICES ASSUME NEW h \in Holders, Hand'[h] # None
                  PROVE  os_qid'[Hand'[h]] = dest'[h].ac
      BY Zenon
    <3>1. CASE h = x
      BY <1>1, <1>2, <1>3, <1>4, <3>1, FrameFacts, Zenon
    <3>2. CASE h # x
      <4>1. Hand'[h] = Hand[h] /\ Hand[h] # None /\ Hand[h] # f /\ dest'[h] = dest[h]
        BY <1>2, <1>4, <3>2, FrameFacts DEF Partition
      <4>2. os_qid[Hand[h]] = dest[h].ac
        BY <4>1, FrameFacts, Zenon DEF OwnInv
      <4>. QED
        BY <1>1, <4>1, <4>2, FrameFacts, Zenon
    <3>. QED
      BY <3>1, <3>2, Zenon
  <2>2. first' # None => os_qid'[first'] = dest'[Tasklet].ac
    <3>1. first # f /\ dest'[Tasklet] = dest[Tasklet]
      BY <1>2, <1>3, FrameFacts DEF Partition
    <3>2. first # None => os_qid[first] = dest[Tasklet].ac
      BY FrameFacts, Zenon DEF OwnInv
    <3>. QED
      BY <1>1, <1>2, <3>1, <3>2, FrameFacts, Zenon
  <2>3. ASSUME NEW r \in Servqs, NEW i \in DOMAIN sta_pending[r]
        PROVE  os_qid'[sta_pending[r][i]] = r.ac
    <3>1. sta_pending[r] \in Seq(Frames) /\ sta_pending[r][i] \in Frames
      BY FrameFacts
    <3>2. sta_pending[r][i] \in Waiting
      BY <3>1, FrameFacts, NextFacts, Zenon DEF In
    <3>3. sta_pending[r][i] # f
      BY <3>2, FrameFacts, Zenon DEF Partition
    <3>4. os_qid[sta_pending[r][i]] = r.ac
      BY FrameFacts, Zenon DEF OwnInv
    <3>. QED
      BY <1>1, <3>1, <3>3, <3>4, FrameFacts, Zenon
  <2>. QED
    BY <1>2, <2>1, <2>2, <2>3, Zenon DEF OwnInv
<1>. QED
    BY <1>5, <1>6, <1>7, Zenon

\* pre_xmitframe's queue takes the frame over from the sender.
LEMMA QueuedKeeps ==
    ASSUME Shape, FrameInv, NEW x \in Senders, Queued(x)
    PROVE  FrameType' /\ PlaceInv' /\ OwnInv'
<1>0. PICK q \in Servqs : q = dest[x]
    BY FrameFacts, SenderFacts, Zenon
<1>1. /\ pc[x] = "enqueue" /\ pc' = [pc EXCEPT ![x] = "idle"]
      /\ sta_pending' = [sta_pending EXCEPT ![q] = Append(sta_pending[q], frame[x])]
      /\ frame' = [frame EXCEPT ![x] = None]
      /\ dest' = [dest EXCEPT ![x] = NoDest]
      /\ free_xmit_queue' = free_xmit_queue /\ first' = first /\ os_qid' = os_qid
    BY <1>0, Zenon DEF Queued
<1>2. x \in Holders /\ x # Tasklet /\ frame[x] # None /\ frame[x] \in Frames
    BY <1>1, FrameFacts, SenderFacts, Zenon DEF HandInv
<1>3. Hand[x] = frame[x] /\ Hand' = [Hand EXCEPT ![x] = None]
    BY <1>1, <1>2, FrameFacts, NextFacts, Zenon
<1>4. PICK f \in Frames : f = frame[x]
    BY <1>2, Zenon
<1>5. f \notin In(sta_pending)
    BY <1>2, <1>3, <1>4, FrameFacts, NextFacts, Zenon DEF Partition
<1>6. sta_pending' = [sta_pending EXCEPT ![q] = Append(sta_pending[q], f)]
    BY <1>1, <1>4, Zenon
<1>7. /\ sta_pending' \in [Servqs -> Seq(Frames)] /\ Once(sta_pending')
      /\ In(sta_pending') = In(sta_pending) \cup {f}
  <2>1. Once(sta_pending) /\ sta_pending \in [Servqs -> Seq(Frames)]
    BY FrameFacts, Zenon
  <2>. QED
    BY <1>5, <1>6, <2>1, AppendPlaces, Zenon
<1>8. PlaceInv'
  <2>1. Partition(free_xmit_queue, [Hand EXCEPT ![x] = None], first,
                  Waiting \cup {Hand[x]})
    BY <1>2, <1>3, FrameFacts, Moved, Zenon
  <2>. QED
    BY <1>1, <1>3, <1>4, <1>7, <2>1, FrameFacts, NextFacts, Zenon
<1>9. FrameType'
    BY <1>1, <1>2, <1>7, FrameFacts, Zenon DEF FrameType
<1>10. OwnInv'
  <2>1. \A h \in Holders : Hand'[h] # None => os_qid'[Hand'[h]] = dest'[h].ac
    BY <1>1, <1>2, <1>3, FrameFacts, Zenon DEF OwnInv
  <2>2. first' # None => os_qid'[first'] = dest'[Tasklet].ac
    BY <1>1, <1>2, FrameFacts DEF OwnInv
  <2>3. os_qid[f] = q.ac
    BY <1>0, <1>2, <1>3, <1>4, FrameFacts, Zenon DEF OwnInv
  <2>4. ASSUME NEW r \in Servqs, NEW i \in DOMAIN sta_pending'[r]
        PROVE  os_qid'[sta_pending'[r][i]] = r.ac
    <3>1. CASE r = q
      <4>1. sta_pending'[q] = Append(sta_pending[q], f) /\ sta_pending[q] \in Seq(Frames)
        BY <1>6, FrameFacts, Zenon
      <4>2. /\ Len(sta_pending[q]) \in Nat
            /\ DOMAIN sta_pending[q] = 1..Len(sta_pending[q])
            /\ i \in 1..(Len(sta_pending[q]) + 1)
            /\ \A k \in 1..Len(sta_pending[q]) : sta_pending'[q][k] = sta_pending[q][k]
            /\ sta_pending'[q][Len(sta_pending[q]) + 1] = f
        BY <2>4, <3>1, <4>1, AppendOf
      <4>3. CASE i = Len(sta_pending[q]) + 1
        BY <1>1, <2>3, <3>1, <4>2, <4>3, Zenon
      <4>4. CASE i # Len(sta_pending[q]) + 1
        <5>1. i \in DOMAIN sta_pending[q] /\ sta_pending'[q][i] = sta_pending[q][i]
          BY <4>2, <4>4
        <5>. QED
          BY <1>1, <3>1, <5>1, FrameFacts DEF OwnInv
      <4>. QED
        BY <4>3, <4>4, Zenon
    <3>2. CASE r # q
      <4>1. sta_pending'[r] = sta_pending[r]
        BY <1>6, <3>2, FrameFacts, Zenon
      <4>. QED
        BY <1>1, <2>4, <4>1, FrameFacts DEF OwnInv
    <3>. QED
      BY <3>1, <3>2, Zenon
  <2>. QED
    BY <2>1, <2>2, <2>4, Zenon DEF OwnInv
<1>. QED
    BY <1>8, <1>9, <1>10, Zenon

\* The first half of rtw_free_xmitframe: the frame is in the pool, and the
\* context no longer answers for it.
LEMMA FreeKeeps ==
    ASSUME Shape, FrameInv, NEW h \in Holders, FreeFrame(h)
    PROVE  FrameType' /\ PlaceInv' /\ OwnInv'
<1>1. /\ pc[h] = "free" /\ pc' = [pc EXCEPT ![h] = "wake"]
      /\ free_xmit_queue' = free_xmit_queue \cup {frame[h]}
      /\ sta_pending' = sta_pending /\ first' = first
      /\ UNCHANGED <<os_qid, frame, dest>>
    BY Zenon DEF FreeFrame, Goto, queueVars, aggVars
<1>2. frame[h] # None /\ frame[h] \in Frames
    BY <1>1, FrameFacts, SenderFacts, Zenon DEF HandInv, Holders
<1>3. Hand[h] = frame[h] /\ Hand' = [Hand EXCEPT ![h] = None]
    BY <1>1, FrameFacts, NextFacts, Zenon
<1>4. PlaceInv'
  <2>1. Partition(free_xmit_queue \cup {Hand[h]}, [Hand EXCEPT ![h] = None], first,
                  Waiting)
    BY <1>2, <1>3, FrameFacts, Moved, Zenon
  <2>. QED
    BY <1>1, <1>3, <2>1, FrameFacts, NextFacts, Zenon
<1>5. FrameType'
    BY <1>1, <1>2, FrameFacts, Zenon DEF FrameType
<1>6. OwnInv'
    BY <1>1, <1>3, FrameFacts, Zenon DEF OwnInv
<1>. QED
    BY <1>4, <1>5, <1>6, Zenon

\* The second half moves no frame.
LEMMA WakeKeeps ==
    ASSUME Shape, FrameInv, NEW h \in Holders, WakeQueue(h)
    PROVE  FrameType' /\ PlaceInv' /\ OwnInv'
<1>1. /\ pc[h] = "wake" /\ pc' = [pc EXCEPT ![h] = AfterFree(h)]
      /\ frame' = [frame EXCEPT ![h] = None]
      /\ \A g \in Holders \ {h} : dest'[g] = dest[g]
      /\ lock = h => dest'[h] = dest[h]
      /\ free_xmit_queue' = free_xmit_queue
      /\ UNCHANGED <<sta_pending, first, os_qid>>
    BY FrameFacts, Zenon DEF WakeQueue, Goto, poolVars, queueVars, aggVars
<1>2. Hand' = Hand /\ Hand[h] = None
    BY <1>1, FrameFacts, NextFacts, Zenon DEF AfterFree
<1>3. first # None => dest'[Tasklet] = dest[Tasklet]
    BY <1>1, FrameFacts, SenderFacts, Zenon DEF HandInv
<1>4. PlaceInv'
    BY <1>1, <1>2, FrameFacts, NextFacts, Zenon
<1>5. FrameType'
    BY <1>1, FrameFacts, Zenon DEF FrameType
<1>6. OwnInv'
  <2>1. \A g \in Holders : Hand[g] # None => dest'[g] = dest[g]
    BY <1>1, <1>2, Zenon
  <2>2. /\ \A g \in Holders : Hand[g] # None => os_qid[Hand[g]] = dest[g].ac
        /\ first # None => os_qid[first] = dest[Tasklet].ac
        /\ \A q \in Servqs : \A i \in DOMAIN sta_pending[q] :
              os_qid[sta_pending[q][i]] = q.ac
    BY FrameFacts, Zenon DEF OwnInv
  <2>. QED
    BY <1>1, <1>2, <1>3, <2>1, <2>2, Zenon DEF OwnInv
<1>. QED
    BY <1>4, <1>5, <1>6, Zenon

\* The tasklet takes a frame over from its queue.
LEMMA TakenKeeps ==
    ASSUME Shape, FrameInv, NEW q \in Servqs, Taken(q)
    PROVE  FrameType' /\ PlaceInv' /\ OwnInv'
<1>1. /\ sta_pending[q] # <<>> /\ pc[Tasklet] \in {"pick", "agg"}
      /\ pc[Tasklet] = "pick" => lock = None
      /\ pc[Tasklet] = "agg" => q = dest[Tasklet]
      /\ \E l \in {"lock", "free"} : pc' = [pc EXCEPT ![Tasklet] = l]
      /\ sta_pending' = [sta_pending EXCEPT ![q] = Tail(sta_pending[q])]
      /\ frame' = [frame EXCEPT ![Tasklet] = Head(sta_pending[q])]
      /\ dest' = [dest EXCEPT ![Tasklet] = q]
      /\ free_xmit_queue' = free_xmit_queue /\ first' = first /\ os_qid' = os_qid
    BY Zenon DEF Taken
<1>2. PICK f \in Frames : /\ f = Head(sta_pending[q])
                        /\ f = sta_pending[q][1] /\ 1 \in DOMAIN sta_pending[q]
  <2>1. sta_pending[q] \in Seq(Frames)
    BY FrameFacts, Zenon
  <2>2. /\ Len(sta_pending[q]) \in Nat \ {0}
        /\ DOMAIN sta_pending[q] = 1..Len(sta_pending[q])
        /\ Head(sta_pending[q]) = sta_pending[q][1] /\ Head(sta_pending[q]) \in Frames
    BY <1>1, <2>1, TailOf, Zenon
  <2>3. 1 \in DOMAIN sta_pending[q]
    BY <2>2
  <2>. QED
    BY <2>2, <2>3, Zenon
<1>3. Tasklet \in Holders /\ frame[Tasklet] = None
    BY <1>1, FrameFacts, SenderFacts, Zenon DEF HandInv
<1>4. Hand[Tasklet] = None /\ Hand' = [Hand EXCEPT ![Tasklet] = f]
  <2>1. PICK l \in {"lock", "free"} : pc' = [pc EXCEPT ![Tasklet] = l]
    BY <1>1, Zenon
  <2>2. frame' = [frame EXCEPT ![Tasklet] = f]
    BY <1>1, <1>2, Zenon
  <2>3. \A h \in Holders : (IF pc'[h] = "wake" THEN None ELSE frame'[h])
                             = IF h = Tasklet THEN f ELSE Hand[h]
    BY <1>3, <2>1, <2>2, FrameFacts, Zenon
  <2>. QED
    BY <1>1, <1>3, <2>3, FrameFacts, NextFacts, Zenon
<1>5. /\ sta_pending' \in [Servqs -> Seq(Frames)] /\ Once(sta_pending')
      /\ f \in In(sta_pending) /\ In(sta_pending') = In(sta_pending) \ {f}
  <2>1. /\ Once(sta_pending) /\ sta_pending \in [Servqs -> Seq(Frames)]
        /\ sta_pending[q] # <<>>
        /\ sta_pending' = [sta_pending EXCEPT ![q] = Tail(sta_pending[q])]
    BY <1>1, FrameFacts, Zenon
  <2>2. /\ sta_pending' \in [Servqs -> Seq(Frames)] /\ Once(sta_pending')
        /\ Head(sta_pending[q]) \in In(sta_pending)
        /\ In(sta_pending') = In(sta_pending) \ {Head(sta_pending[q])}
    BY <2>1, TailPlaces, Zenon
  <2>. QED
    BY <1>2, <2>2, Zenon
<1>6. PlaceInv'
  <2>1. Partition(free_xmit_queue, [Hand EXCEPT ![Tasklet] = f], first, Waiting \ {f})
    BY <1>3, <1>4, <1>5, FrameFacts, NextFacts, Moved, Zenon
  <2>. QED
    BY <1>1, <1>4, <1>5, <2>1, FrameFacts, NextFacts, Zenon
<1>7. FrameType'
    BY <1>1, <1>2, <1>5, FrameFacts, ZenonT(30) DEF FrameType
<1>8. OwnInv'
  <2>1. os_qid[f] = q.ac
    BY <1>2, FrameFacts DEF OwnInv
  <2>2. \A h \in Holders : Hand'[h] # None => os_qid'[Hand'[h]] = dest'[h].ac
    BY <1>1, <1>3, <1>4, <2>1, FrameFacts, Zenon DEF OwnInv
  <2>3. first' # None => os_qid'[first'] = dest'[Tasklet].ac
    <3>0. first # None <=> lock = Tasklet \/ pc[Tasklet] = "submit"
      BY FrameFacts, Zenon DEF HandInv
    <3>1. first # None => pc[Tasklet] = "agg"
      BY <1>1, <3>0, SenderFacts, Zenon
    <3>2. first # None => dest'[Tasklet] = dest[Tasklet]
      BY <1>1, <1>3, <3>1, FrameFacts, Zenon
    <3>. QED
      BY <1>1, <3>2, FrameFacts, Zenon DEF OwnInv
  <2>4. ASSUME NEW r \in Servqs, NEW i \in DOMAIN sta_pending'[r]
        PROVE  os_qid'[sta_pending'[r][i]] = r.ac
    <3>1. CASE r = q
      <4>1. sta_pending'[q] = Tail(sta_pending[q]) /\ sta_pending[q] \in Seq(Frames)
        BY <1>1, FrameFacts, Zenon
      <4>2. /\ Len(sta_pending[q]) \in Nat \ {0}
            /\ DOMAIN sta_pending[q] = 1..Len(sta_pending[q])
            /\ i \in 1..(Len(sta_pending[q]) - 1)
            /\ \A k \in 1..(Len(sta_pending[q]) - 1) :
                  sta_pending'[q][k] = sta_pending[q][k + 1]
        BY <1>1, <2>4, <3>1, <4>1, TailOf, ZenonT(30)
      <4>3. i + 1 \in DOMAIN sta_pending[q] /\ sta_pending'[q][i] = sta_pending[q][i + 1]
        BY <4>2
      <4>. QED
        BY <1>1, <3>1, <4>3, FrameFacts DEF OwnInv
    <3>2. CASE r # q
      <4>1. sta_pending'[r] = sta_pending[r]
        BY <1>1, <3>2, FrameFacts, Zenon
      <4>. QED
        BY <1>1, <2>4, <4>1, FrameFacts DEF OwnInv
    <3>. QED
      BY <3>1, <3>2, Zenon
  <2>. QED
    BY <2>2, <2>3, <2>4, Zenon DEF OwnInv
<1>. QED
    BY <1>6, <1>7, <1>8, Zenon

\* The tasklet sets its first frame aside.
LEMMA LockKeeps ==
    ASSUME Shape, FrameInv, Lock
    PROVE  FrameType' /\ PlaceInv' /\ OwnInv'
<1>1. /\ pc[Tasklet] = "lock" /\ pc' = [pc EXCEPT ![Tasklet] = "agg"] /\ lock = None
      /\ first' = frame[Tasklet] /\ frame' = [frame EXCEPT ![Tasklet] = None]
      /\ free_xmit_queue' = free_xmit_queue
      /\ UNCHANGED <<sta_pending, os_qid, dest>>
    BY Zenon DEF Lock, Goto, poolVars, queueVars
<1>2. /\ Tasklet \in Holders /\ frame[Tasklet] # None /\ frame[Tasklet] \in Frames
      /\ first = None
    BY <1>1, FrameFacts, SenderFacts, Zenon DEF HandInv
<1>3. Hand[Tasklet] = frame[Tasklet] /\ Hand' = [Hand EXCEPT ![Tasklet] = None]
    BY <1>1, <1>2, FrameFacts, NextFacts, Zenon
<1>4. PlaceInv'
  <2>1. Partition(free_xmit_queue, [Hand EXCEPT ![Tasklet] = None], Hand[Tasklet],
                  Waiting)
    BY <1>2, <1>3, FrameFacts, Moved, Zenon
  <2>. QED
    BY <1>1, <1>3, <2>1, FrameFacts, NextFacts, Zenon
<1>5. FrameType'
    BY <1>1, <1>2, FrameFacts, Zenon DEF FrameType
<1>6. OwnInv'
    BY <1>1, <1>2, <1>3, FrameFacts DEF OwnInv
<1>. QED
    BY <1>4, <1>5, <1>6, Zenon

\* It takes it back once the buffer is submitted.
LEMMA SubmitKeeps ==
    ASSUME Shape, FrameInv, SubmitAgg
    PROVE  FrameType' /\ PlaceInv' /\ OwnInv'
<1>1. /\ pc[Tasklet] = "submit" /\ pc' = [pc EXCEPT ![Tasklet] = "free"]
      /\ first' = None /\ frame' = [frame EXCEPT ![Tasklet] = first]
      /\ free_xmit_queue' = free_xmit_queue
      /\ UNCHANGED <<sta_pending, os_qid, dest>>
    BY Zenon DEF SubmitAgg, Goto, poolVars, queueVars
<1>2. Tasklet \in Holders /\ frame[Tasklet] = None /\ first # None /\ first \in Frames
    BY <1>1, FrameFacts, SenderFacts, Zenon DEF HandInv
<1>3. Hand[Tasklet] = None /\ Hand' = [Hand EXCEPT ![Tasklet] = first]
    BY <1>1, <1>2, FrameFacts, NextFacts, Zenon
<1>4. PlaceInv'
  <2>1. Partition(free_xmit_queue, [Hand EXCEPT ![Tasklet] = first], None, Waiting)
    BY <1>2, <1>3, FrameFacts, Moved, Zenon
  <2>. QED
    BY <1>1, <1>3, <2>1, FrameFacts, NextFacts, Zenon
<1>5. FrameType'
    BY <1>1, <1>2, FrameFacts, Zenon DEF FrameType
<1>6. OwnInv'
    BY <1>1, <1>2, <1>3, FrameFacts, Zenon DEF OwnInv
<1>. QED
    BY <1>4, <1>5, <1>6, Zenon

\* rtw_free_stainfo returns the frames of the station, and no others.
LEMMA FlushKeeps ==
    ASSUME Shape, FrameInv, NEW s \in Stas, FlushXmit(s)
    PROVE  FrameType' /\ PlaceInv' /\ OwnInv'
<1>1. PICK G : G = Of(sta_pending, s)
    BY Zenon
<1>2. /\ free_xmit_queue' = free_xmit_queue \cup G
      /\ sta_pending' = [q \in Servqs |-> IF q.sta = s THEN <<>> ELSE sta_pending[q]]
      /\ first' = first /\ UNCHANGED <<os_qid, pc, frame, dest>>
    BY <1>1, Zenon DEF FlushXmit, PendingOf, Of, aggVars
<1>3. /\ sta_pending' \in [Servqs -> Seq(Frames)] /\ Once(sta_pending')
      /\ G \in SUBSET In(sta_pending) /\ In(sta_pending') = In(sta_pending) \ G
  <2>1. Once(sta_pending) /\ sta_pending \in [Servqs -> Seq(Frames)]
    BY FrameFacts, Zenon
  <2>. QED
    BY <1>1, <1>2, <2>1, FlushPlaces, Zenon
<1>4. Hand' = Hand
    BY <1>2, NextFacts, Zenon DEF Hand
<1>5. PlaceInv'
  <2>1. Partition(free_xmit_queue \cup G, Hand, first, Waiting \ G)
    BY <1>3, FrameFacts, NextFacts, SenderFacts, Moved, Zenon
  <2>. QED
    BY <1>2, <1>3, <1>4, <2>1, FrameFacts, NextFacts, Zenon
<1>6. FrameType'
    BY <1>2, <1>3, FrameFacts, NextFacts, Zenon DEF FrameType
<1>7. OwnInv'
  <2>1. ASSUME NEW r \in Servqs, NEW i \in DOMAIN sta_pending'[r]
        PROVE  os_qid'[sta_pending'[r][i]] = r.ac
    <3>1. sta_pending'[r] = IF r.sta = s THEN <<>> ELSE sta_pending[r]
      BY <1>2, Zenon
    <3>2. DOMAIN <<>> = {}
      OBVIOUS
    <3>3. sta_pending'[r] = sta_pending[r]
      BY <2>1, <3>1, <3>2, Zenon
    <3>. QED
      BY <1>2, <2>1, <3>3, FrameFacts DEF OwnInv
  <2>. QED
    BY <1>2, <1>4, <2>1, FrameFacts, Zenon DEF OwnInv
<1>. QED
    BY <1>5, <1>6, <1>7, Zenon

\* Every step keeps each frame in one place, and os_qid of those not in the
\* pool what rtw_alloc_xmitframe was called with.
LEMMA PlaceNext ==
    ASSUME Shape, LockInv, ListInv, FrameInv, [Next]_vars
    PROVE  FrameType' /\ PlaceInv' /\ OwnInv'
<1>1. HandInv
    BY Zenon DEF FrameInv
<1>2. CASE Moves
    BY <1>2, SendKeeps, QueuedKeeps, FreeKeeps, WakeKeeps, TakenKeeps, LockKeeps,
        SubmitKeeps, FlushKeeps, Zenon DEF Moves
<1>. QED
    BY <1>1, <1>2, StillKeeps, StepKinds, Zenon

====
