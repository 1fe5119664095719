--------------------------- MODULE MgntXmit_proofs ---------------------------
(***************************************************************************)
(* The submit_ctx of dump_mgntframe_and_wait and the extension buffers,    *)
(* for every number of buffers and contexts, provided one context at most  *)
(* calls dump_mgntframe_and_wait (KindsAssumption).                        *)
(***************************************************************************)
EXTENDS MgntXmit, TLAPS

-----------------------------------------------------------------------------
(* The inductive invariant                                                 *)

\* What the steps of a context say about its variables.
Shape ==
    /\ pc \in [Ctxs \cup {Tasklet} -> Steps] /\ pc[Tasklet] \in {"idle", "write"}
    /\ kind \in [Ctxs -> {"plain", "wait", "ack"}]
    /\ id \in [Ctxs -> Calls \cup {NoCall}]
    /\ buf \in [Ctxs \cup {Tasklet} -> Bufs \cup {None}]
    /\ \A c \in InHand : buf[c] \in Bufs
    /\ \A c \in Ctxs :
         /\ kind[c] = "wait" => "wait" \in Kinds[c]
         /\ pc[c] \in {"mutex", "init", "unlock"} => kind[c] = "ack"
         /\ pc[c] = "clear" => kind[c] = "wait" /\ buf[c] \in Bufs
         /\ pc[c] = "wait" => kind[c] # "plain"
         /\ pc[c] = "wait" /\ kind[c] = "wait" => buf[c] \in Bufs
         /\ pc[c] # "idle" => id[c] \in Calls

\* The pool and the queues hold buffers, each in one place.
Pool ==
    /\ free_xmit_extbuf \subseteq Bufs /\ urb \subseteq Bufs
    /\ mgmt_sleep_q \subseteq Bufs /\ mgmt_q \subseteq Bufs
    /\ ExtOnce

\* Where usb_write_port_complete is with a buffer, and that it holds
\* lock_sctx between its look at pxmitbuf->sctx and its last use of it.
CompInv ==
    /\ comp \in [Bufs -> {"none", "ok", "err", "null", "free"}]
    /\ \A b \in Bufs :
         /\ comp[b] # "none" => b \in urb
         /\ comp[b] \in {"ok", "err", "null"} => lock_sctx = b
         /\ comp[b] \in {"ok", "err"} => sctx[b] # NoCall
         /\ comp[b] = "free" => sctx[b] = NoCall

\* The caller whose stack buffer b points to is in its call, and the buffer
\* with it or with the USB core.
Owner(c, b) ==
    /\ kind[c] = "wait" /\ id[c] = sctx[b] /\ buf[c] = b
    /\ \/ pc[c] \in {"xmit", "write"}
       \/ pc[c] \in {"wait", "clear"} /\ b \in urb

\* A pointer in a buffer is to the stack of its owner, which is also the one
\* whose frame the buffer carries, as it does from the allocation on.
SctxInv ==
    /\ sctx \in [Bufs -> Calls \cup {NoCall}]
    /\ call \in [Bufs -> Calls \cup {NoCall}]
    /\ \A b \in Bufs : sctx[b] # NoCall =>
         /\ sctx[b] = own.call /\ call[b] = sctx[b]
         /\ \E c \in Ctxs : Owner(c, b)
    /\ \A c \in Ctxs : pc[c] = "dump" => call[buf[c]] = id[c]

\* Who was told that the URB went through can rely on it, and so can who
\* is about to be told.
TruthInv ==
    /\ own \in [call : Calls \cup {NoCall}, status : Status, done : BOOLEAN]
    /\ good \in BOOLEAN
    /\ WaitHonest
    /\ \A b \in Bufs : comp[b] = "ok" => good

\* While no station is freed no buffer is lost.
LossInv ==
    ~CanLeave => sta \in {"awake", "asleep"} /\ ExtConserved

IInv == Shape /\ Pool /\ CompInv /\ SctxInv /\ TruthInv /\ LossInv

\* The tasklet is not one of the callers.
LEMMA Constants ==
    /\ Tasklet \notin Ctxs /\ None \notin Bufs /\ NoCall \notin Calls
    /\ Tasklet \in Ctxs \cup {Tasklet}
    BY ConstAssumption, Zenon

\* issue_beacon is called by one context only.
LEMMA OneWaiter ==
    ASSUME Shape, NEW c \in Ctxs, NEW d \in Ctxs, kind[c] = "wait", kind[d] = "wait"
    PROVE  c = d
    BY KindsAssumption, Zenon DEF Shape

-----------------------------------------------------------------------------
(* The contexts                                                            *)

\* What alloc_mgtxmitframe takes, and for which call.
LEMMA AllocTakes ==
    ASSUME NEW c \in Ctxs, Alloc(c)
    PROVE  \E b \in free_xmit_extbuf, k \in Kinds[c], n \in Unused :
             /\ free_xmit_extbuf' = free_xmit_extbuf \ {b}
             /\ Answer(b, "fail")
             /\ sctx' = [sctx EXCEPT ![b] = NoCall]
             /\ buf' = [buf EXCEPT ![c] = b]
             /\ kind' = [kind EXCEPT ![c] = k]
             /\ id' = [id EXCEPT ![c] = n]
             /\ call' = [call EXCEPT ![b] = n]
    BY Zenon DEF Alloc

\* Every step of a caller leaves the contexts in order.
LEMMA ShapeCaller ==
    ASSUME Shape, Pool, NEW c \in Ctxs, Caller(c) PROVE Shape'
<1>. USE Constants DEF Shape, Goto, InHand, Steps
<1>1. CASE Alloc(c)
  <2>1. PICK b \in free_xmit_extbuf, k \in Kinds[c], n \in Unused :
           /\ buf' = [buf EXCEPT ![c] = b] /\ call' = [call EXCEPT ![b] = n]
           /\ kind' = [kind EXCEPT ![c] = k] /\ id' = [id EXCEPT ![c] = n]
    BY <1>1, AllocTakes
  <2>2. b \in Bufs /\ k \in {"plain", "wait", "ack"} /\ n \in Calls
    BY KindsAssumption, Zenon DEF Pool, Unused
  <2>3. pc' = [pc EXCEPT ![c] = "dump"]
    BY <1>1, Zenon DEF Alloc
  <2>. QED
    BY <2>1, <2>2, <2>3, Zenon
<1>2. CASE DumpStopped(c)
    BY <1>2, Zenon DEF DumpStopped, Return
<1>3. CASE Dump(c)
    BY <1>3 DEF Dump
<1>4. CASE AckLock(c)
    BY <1>4, Zenon DEF AckLock
<1>5. CASE AckInit(c)
    BY <1>5, Zenon DEF AckInit
<1>6. CASE MgntXmit(c)
    BY <1>6 DEF MgntXmit, Sent, Return
<1>7. CASE DumpXframe(c)
    BY <1>7 DEF DumpXframe, Sent, Return
<1>8. CASE SctxWait(c)
    BY <1>8, Zenon DEF SctxWait
<1>9. CASE Clear(c)
    BY <1>9, Zenon DEF Clear, Clear_NoLock, Return
<1>10. CASE AckUnlock(c)
    BY <1>10, Zenon DEF AckUnlock, Return
<1>. QED
    BY <1>1, <1>2, <1>3, <1>4, <1>5, <1>6, <1>7, <1>8, <1>9, <1>10, Zenon DEF Caller

\* Only callers and the tasklet change what Shape is about.
LEMMA ShapeNext ==
    ASSUME Shape, Pool, [Next]_vars PROVE Shape'
<1>. USE Constants DEF Shape, Goto, InHand, Steps
<1>1. CASE UNCHANGED ctxVars
    BY <1>1, Zenon DEF ctxVars
<1>2. CASE \E c \in Ctxs : Caller(c)
    BY <1>2, ShapeCaller, Zenon DEF Shape
<1>3. CASE \E b \in Bufs : Completion(b)
    BY <1>1, <1>3, Zenon DEF Completion, CompLock, CompDone, CompNull, CompFree
<1>4. CASE (\E n \in Calls : CcxRpt(n)) \/ AckTxDone
    BY <1>1, <1>4, Zenon DEF CcxRpt, AckTxDone
<1>5. CASE Nap \/ Wakeup \/ Leave \/ FlushXmit \/ Associate \/ Stop
    BY <1>1, <1>5, Zenon DEF Nap, Wakeup, Leave, FlushXmit, Associate, Stop
<1>6. CASE TaskletTake
    BY <1>6 DEF TaskletTake, Pool
<1>7. CASE TaskletDump
    BY <1>7, Zenon DEF TaskletDump
<1>8. CASE UNCHANGED vars
    BY <1>1, <1>8, Zenon DEF vars
<1>. QED
    BY <1>2, <1>3, <1>4, <1>5, <1>6, <1>7, <1>8, Zenon DEF Next

-----------------------------------------------------------------------------
(* The buffers                                                             *)

\* A buffer moves from hand to hand; it is never copied.
LEMMA PoolCaller ==
    ASSUME Shape, Pool, NEW c \in Ctxs, Caller(c) PROVE Pool'
<1>. USE Constants DEF Shape, Pool, ExtOnce, Goto, InHand, Held
<1>1. CASE Alloc(c)
  <2>1. PICK b \in free_xmit_extbuf :
           /\ free_xmit_extbuf' = free_xmit_extbuf \ {b}
           /\ buf' = [buf EXCEPT ![c] = b]
    BY <1>1, Zenon DEF Alloc
  <2>2. /\ pc[c] = "idle" /\ pc' = [pc EXCEPT ![c] = "dump"]
        /\ UNCHANGED <<urb, mgmt_sleep_q, mgmt_q>>
    BY <1>1, Zenon DEF Alloc, staVars
  <2>. QED
    BY <2>1, <2>2
<1>2. CASE DumpStopped(c)
    BY <1>2 DEF DumpStopped, Return, Free, staVars
<1>3. CASE Dump(c)
    BY <1>3 DEF Dump, staVars
<1>4. CASE AckLock(c)
    BY <1>4 DEF AckLock, poolVars, staVars
<1>5. CASE AckInit(c)
    BY <1>5 DEF AckInit, staVars
<1>6. CASE MgntXmit(c)
    BY <1>6 DEF MgntXmit, Sent, Return, poolVars
<1>7. CASE DumpXframe(c)
    BY <1>7 DEF DumpXframe, Sent, Return, WritePort, Free, staVars
<1>8. CASE SctxWait(c)
    BY <1>8 DEF SctxWait, poolVars, staVars
<1>9. CASE Clear(c)
    BY <1>9 DEF Clear, Clear_NoLock, Return, staVars
<1>10. CASE AckUnlock(c)
    BY <1>10 DEF AckUnlock, Return, poolVars, staVars
<1>. QED
    BY <1>1, <1>2, <1>3, <1>4, <1>5, <1>6, <1>7, <1>8, <1>9, <1>10, Zenon DEF Caller

\* The other steps do not copy one either.
LEMMA PoolNext ==
    ASSUME Shape, Pool, CompInv, [Next]_vars PROVE Pool'
<1>. USE Constants DEF Shape, Pool, ExtOnce, Goto, InHand, Held
<1>1. CASE UNCHANGED <<free_xmit_extbuf, urb, mgmt_sleep_q, mgmt_q, pc, buf>>
    BY <1>1
<1>2. CASE \E c \in Ctxs : Caller(c)
    BY <1>2, PoolCaller, Zenon DEF Shape, Pool
<1>3. ASSUME NEW b \in Bufs, Completion(b) PROVE Pool'
  <2>1. CASE CompFree(b)
    BY <2>1 DEF CompFree, Free, CompInv, staVars, ctxVars
  <2>2. CASE CompLock(b) \/ CompDone(b) \/ CompNull(b)
    BY <1>1, <2>2, Zenon DEF CompLock, CompDone, CompNull, poolVars, staVars, ctxVars
  <2>. QED
    BY <1>3, <2>1, <2>2, Zenon DEF Completion
<1>4. CASE (\E n \in Calls : CcxRpt(n)) \/ AckTxDone
    BY <1>1, <1>4, Zenon DEF CcxRpt, AckTxDone, poolVars, staVars, ctxVars
<1>5. CASE Nap \/ Wakeup \/ FlushXmit
    BY <1>5 DEF Nap, Wakeup, FlushXmit, poolVars, ctxVars
<1>6. CASE Leave \/ Associate \/ Stop
    BY <1>1, <1>6, Zenon DEF Leave, Associate, Stop, poolVars, staVars, ctxVars
<1>7. CASE TaskletTake
    BY <1>7 DEF TaskletTake, poolVars
<1>8. CASE TaskletDump
    BY <1>8 DEF TaskletDump, WritePort, Free, staVars
<1>9. CASE UNCHANGED vars
    BY <1>1, <1>9, Zenon DEF vars, poolVars, staVars, ctxVars
<1>. QED
    BY <1>2, <1>3, <1>4, <1>5, <1>6, <1>7, <1>8, <1>9, Zenon DEF Next

-----------------------------------------------------------------------------
(* lock_sctx and the completion                                            *)

\* A caller does not disturb a completion: what points to its stack it
\* clears under lock_sctx, and what it frees the USB core does not have.
LEMMA CompCaller ==
    ASSUME Shape, Pool, CompInv, SctxInv, NEW c \in Ctxs, Caller(c)
    PROVE  CompInv'
<1>. USE Constants DEF Shape, Pool, ExtOnce, InHand, Held, CompInv
<1>. sctx \in [Bufs -> Calls \cup {NoCall}]
    BY Zenon DEF SctxInv
<1>1. CASE UNCHANGED <<comp, lock_sctx, sctx, urb>>
    BY <1>1, Zenon
<1>2. CASE Alloc(c)
  <2>1. PICK b \in free_xmit_extbuf : sctx' = [sctx EXCEPT ![b] = NoCall]
    BY <1>2, Zenon DEF Alloc
  <2>2. comp[b] = "none" /\ UNCHANGED <<comp, lock_sctx, urb>>
    BY <1>2, Zenon DEF Alloc
  <2>. QED
    BY <2>1, <2>2
<1>3. CASE DumpStopped(c)
    BY <1>3 DEF DumpStopped, Free
<1>4. CASE Dump(c)
    BY <1>4 DEF Dump
<1>5. CASE DumpXframe(c)
    BY <1>5 DEF DumpXframe, WritePort, Free
<1>6. CASE Clear(c)
  <2>1. \A b \in Bufs : comp[b] \in {"none", "free"}
    BY <1>6 DEF Clear
  <2>. QED
    BY <1>6, <2>1 DEF Clear, Clear_NoLock
<1>7. CASE AckLock(c) \/ AckInit(c) \/ MgntXmit(c) \/ SctxWait(c) \/ AckUnlock(c)
    BY <1>1, <1>7, Zenon DEF AckLock, AckInit, MgntXmit, SctxWait, AckUnlock, poolVars
<1>. QED
    BY <1>2, <1>3, <1>4, <1>5, <1>6, <1>7, Zenon DEF Caller

\* The completions of two URBs exclude each other where it matters.
LEMMA CompNext ==
    ASSUME Shape, Pool, CompInv, SctxInv, [Next]_vars PROVE CompInv'
<1>. USE Constants DEF Shape, Pool, ExtOnce, InHand, Held, CompInv
<1>. sctx \in [Bufs -> Calls \cup {NoCall}]
    BY Zenon DEF SctxInv
<1>1. CASE UNCHANGED <<comp, lock_sctx, sctx, urb>>
    BY <1>1, Zenon
<1>2. CASE \E c \in Ctxs : Caller(c)
    BY <1>2, CompCaller, Zenon DEF Shape, Pool, CompInv
<1>3. ASSUME NEW b \in Bufs, Completion(b) PROVE CompInv'
  <2>1. CASE CompLock(b)
    BY <2>1 DEF CompLock
  <2>2. CASE CompDone(b)
    BY <2>2 DEF CompDone, poolVars
  <2>3. CASE CompNull(b)
    BY <2>3 DEF CompNull
  <2>4. CASE CompFree(b)
    BY <2>4 DEF CompFree, Free
  <2>. QED
    BY <1>3, <2>1, <2>2, <2>3, <2>4, Zenon DEF Completion
<1>4. CASE (\E n \in Calls : CcxRpt(n)) \/ AckTxDone
    BY <1>1, <1>4, Zenon DEF CcxRpt, AckTxDone, poolVars
<1>5. CASE Nap \/ Wakeup \/ Leave \/ FlushXmit \/ Associate \/ Stop \/ TaskletTake
    BY <1>1, <1>5, Zenon DEF Nap, Wakeup, Leave, FlushXmit, Associate, Stop,
                         TaskletTake, poolVars
<1>6. CASE TaskletDump
    BY <1>6 DEF TaskletDump, WritePort, Free
<1>7. CASE UNCHANGED vars
    BY <1>1, <1>7, Zenon DEF vars, poolVars
<1>. QED
    BY <1>2, <1>3, <1>4, <1>5, <1>6, <1>7, Zenon DEF Next

-----------------------------------------------------------------------------
(* Pointers to a caller's stack                                            *)

\* A caller outlives the pointers to its stack.
LEMMA SctxCaller ==
    ASSUME Shape, Pool, CompInv, SctxInv, NEW c \in Ctxs, Caller(c)
    PROVE  SctxInv'
<1>. USE Constants DEF Shape, Pool, ExtOnce, InHand, Held, SctxInv, Goto
<1>1. CASE Alloc(c)
  <2>1. PICK b \in free_xmit_extbuf, k \in Kinds[c], n \in Unused :
           /\ sctx' = [sctx EXCEPT ![b] = NoCall]
           /\ buf' = [buf EXCEPT ![c] = b] /\ call' = [call EXCEPT ![b] = n]
           /\ kind' = [kind EXCEPT ![c] = k] /\ id' = [id EXCEPT ![c] = n]
           /\ Answer(b, "fail")
    BY <1>1, AllocTakes
  <2>2. b \in Bufs /\ n \in Calls
    BY Zenon DEF Unused
  <2>3. pc[c] = "idle" /\ pc' = [pc EXCEPT ![c] = "dump"] /\ UNCHANGED urb
    BY <1>1, Zenon DEF Alloc
  <2>4. sctx[b] = NoCall
    BY <2>2 DEF Owner
  <2>5. own' = own
    BY <2>1, <2>4, Zenon DEF Answer
  <2>6. ASSUME NEW a \in Bufs, sctx'[a] # NoCall
        PROVE  /\ sctx'[a] = own'.call /\ call'[a] = sctx'[a]
               /\ \E d \in Ctxs : Owner(d, a)'
    <3>1. a # b /\ sctx'[a] = sctx[a] /\ call'[a] = call[a]
      BY <2>1, <2>2, <2>6, Zenon
    <3>2. PICK d \in Ctxs : Owner(d, a)
      BY <2>6, <3>1, Zenon
    <3>3. Owner(d, a)'
      BY <2>1, <2>3, <3>1, <3>2 DEF Owner
    <3>. QED
      BY <2>5, <2>6, <3>1, <3>3, Zenon
  <2>7. \A d \in Ctxs : pc'[d] = "dump" => call'[buf'[d]] = id'[d]
    BY <2>1, <2>2, <2>3
  <2>. QED
    BY <2>1, <2>2, <2>6, <2>7, Zenon
<1>2. CASE DumpStopped(c)
  <2>1. own' = own
    BY <1>2, OneWaiter DEF DumpStopped, Answer, Owner
  <2>2. ASSUME NEW a \in Bufs, sctx'[a] # NoCall
        PROVE  /\ sctx'[a] = own'.call /\ call'[a] = sctx'[a]
               /\ \E d \in Ctxs : Owner(d, a)'
    <3>1. a # buf[c] /\ sctx'[a] = sctx[a] /\ call'[a] = call[a]
      BY <1>2, <2>2, Zenon DEF DumpStopped, Free
    <3>2. PICK d \in Ctxs : Owner(d, a)
      BY <2>2, <3>1, Zenon
    <3>3. Owner(d, a)'
      BY <1>2, <3>1, <3>2 DEF Owner, DumpStopped, Return
    <3>. QED
      BY <2>1, <2>2, <3>1, <3>3, Zenon
  <2>3. \A d \in Ctxs : pc'[d] = "dump" => call'[buf'[d]] = id'[d]
    BY <1>2 DEF DumpStopped, Return, Free
  <2>. QED
    BY <1>2, <2>2, <2>3, Zenon DEF DumpStopped, Free
<1>3. CASE Dump(c)
  <2>1. CASE kind[c] # "wait"
    <3>1. UNCHANGED <<sctx, call, own, kind, id, buf, urb>>
      BY <1>3, <2>1, Zenon DEF Dump
    <3>2. \A a \in Bufs, d \in Ctxs : Owner(d, a) => Owner(d, a)'
      BY <1>3, <2>1, <3>1 DEF Dump, Owner
    <3>. QED
      BY <1>3, <3>1, <3>2 DEF Dump
  <2>2. CASE kind[c] = "wait"
    <3>1. \A a \in Bufs : sctx[a] = NoCall
      BY <1>3, <2>2, OneWaiter DEF Dump, Owner
    <3>2. /\ own'.call = id[c] /\ sctx' = [sctx EXCEPT ![buf[c]] = id[c]]
          /\ pc' = [pc EXCEPT ![c] = "xmit"] /\ UNCHANGED <<call, kind, id, buf, urb>>
      BY <1>3, <2>2 DEF Dump, Fresh
    <3>3. pc[c] = "dump" /\ buf[c] \in Bufs /\ id[c] \in Calls
      BY <1>3, Zenon DEF Dump
    <3>4. Owner(c, buf[c])'
      BY <2>2, <3>2, <3>3 DEF Owner
    <3>. QED
      BY <3>1, <3>2, <3>3, <3>4
  <2>. QED
    BY <2>1, <2>2, Zenon
<1>4. CASE AckLock(c) \/ AckInit(c) \/ SctxWait(c)
  <2>1. UNCHANGED <<sctx, call, own, kind, id, buf, urb>>
    BY <1>4, Zenon DEF AckLock, AckInit, SctxWait, poolVars
  <2>2. \A a \in Bufs, d \in Ctxs : Owner(d, a) => Owner(d, a)'
    BY <1>4, <2>1 DEF AckLock, AckInit, SctxWait, Owner
  <2>3. \A d \in Ctxs : pc'[d] = "dump" => pc[d] = "dump"
    BY <1>4, Zenon DEF AckLock, AckInit, SctxWait
  <2>. QED
    BY <2>1, <2>2, <2>3, Zenon
<1>5. CASE MgntXmit(c)
  <2>1. UNCHANGED <<sctx, call, own, urb>>
    BY <1>5, Zenon DEF MgntXmit, poolVars
  <2>2. \A a \in Bufs, d \in Ctxs : Owner(d, a) => Owner(d, a)'
    BY <1>5, <2>1 DEF MgntXmit, Sent, Return, Owner
  <2>3. \A d \in Ctxs : pc'[d] = "dump" =>
            pc[d] = "dump" /\ buf'[d] = buf[d] /\ id'[d] = id[d]
    BY <1>5 DEF MgntXmit, Sent, Return
  <2>. QED
    BY <2>1, <2>2, <2>3
<1>6. CASE DumpXframe(c)
  <2>1. \A d \in Ctxs : pc'[d] = "dump" =>
            d # c /\ pc[d] = "dump" /\ buf'[d] = buf[d] /\ id'[d] = id[d]
    BY <1>6 DEF DumpXframe, Sent, Return
  <2>2. CASE UNCHANGED <<sctx, call, own>> /\ urb' = urb \cup {buf[c]}
    <3>1. \A a \in Bufs, d \in Ctxs : Owner(d, a) => Owner(d, a)'
      BY <1>6, <2>2 DEF DumpXframe, Sent, Return, Owner
    <3>. QED
      BY <2>1, <2>2, <3>1
  <2>3. CASE Answer(buf[c], "fail") /\ Free(buf[c]) /\ UNCHANGED urb
    <3>1. own'.call = own.call
      BY <2>3 DEF Answer
    <3>2. ASSUME NEW a \in Bufs, sctx'[a] # NoCall
          PROVE  /\ sctx'[a] = own'.call /\ call'[a] = sctx'[a]
                 /\ \E d \in Ctxs : Owner(d, a)'
      <4>1. a # buf[c] /\ sctx'[a] = sctx[a] /\ call'[a] = call[a]
        BY <2>3, <3>2, Zenon DEF Free
      <4>2. PICK d \in Ctxs : Owner(d, a)
        BY <3>2, <4>1, Zenon
      <4>3. Owner(d, a)'
        BY <1>6, <2>3, <4>1, <4>2 DEF Owner, DumpXframe, Sent, Return
      <4>. QED
        BY <3>1, <3>2, <4>1, <4>3, Zenon
    <3>3. \A d \in Ctxs : pc'[d] = "dump" => call'[buf'[d]] = id'[d]
      BY <1>6, <2>1, <2>3 DEF DumpXframe, Free
    <3>. QED
      BY <2>3, <3>2, <3>3, Zenon DEF Free
  <2>. QED
    BY <1>6, <2>2, <2>3, Zenon DEF DumpXframe, WritePort
<1>7. CASE Clear(c)
  <2>1. pc[c] = "clear" /\ kind[c] = "wait" /\ buf[c] \in Bufs
    BY <1>7, Zenon DEF Clear, Clear_NoLock
  <2>2. /\ sctx' = [sctx EXCEPT ![buf[c]] = NoCall] /\ UNCHANGED call
        /\ pc' = [pc EXCEPT ![c] = "idle"] /\ buf' = [buf EXCEPT ![c] = None]
        /\ id' = [id EXCEPT ![c] = NoCall]
    BY <1>7, Zenon DEF Clear, Clear_NoLock, Return
  <2>3. \A a \in Bufs : a # buf[c] => sctx[a] = NoCall
    BY <2>1, OneWaiter DEF Owner
  <2>. QED
    BY <2>1, <2>2, <2>3, Zenon
<1>8. CASE AckUnlock(c)
  <2>1. UNCHANGED <<sctx, call, own, urb>> /\ pc[c] = "unlock"
    BY <1>8, Zenon DEF AckUnlock, poolVars
  <2>2. \A a \in Bufs, d \in Ctxs : Owner(d, a) => Owner(d, a)'
    BY <1>8, <2>1 DEF AckUnlock, Return, Owner
  <2>3. \A d \in Ctxs : pc'[d] = "dump" =>
            pc[d] = "dump" /\ buf'[d] = buf[d] /\ id'[d] = id[d]
    BY <1>8, Zenon DEF AckUnlock, Return
  <2>. QED
    BY <2>1, <2>2, <2>3
<1>. QED
    BY <1>1, <1>2, <1>3, <1>4, <1>5, <1>6, <1>7, <1>8, Zenon DEF Caller

\* Completions, the station and the tasklet keep the pointers right.
LEMMA SctxNext ==
    ASSUME Shape, Pool, CompInv, SctxInv, [Next]_vars PROVE SctxInv'
<1>. USE Constants DEF Shape, Pool, ExtOnce, InHand, Held, SctxInv
<1>1. ASSUME UNCHANGED <<sctx, call, ctxVars>>, own'.call = own.call, urb' = urb
      PROVE  SctxInv'
  <2>1. \A a \in Bufs, d \in Ctxs : Owner(d, a) => Owner(d, a)'
    BY <1>1, Zenon DEF Owner, ctxVars
  <2>. QED
    BY <1>1, <2>1, Zenon DEF ctxVars
<1>2. CASE \E c \in Ctxs : Caller(c)
    BY <1>2, SctxCaller, Zenon DEF Shape, Pool, SctxInv
<1>3. ASSUME NEW b \in Bufs, Completion(b) PROVE SctxInv'
  <2>1. CASE CompLock(b)
    BY <1>1, <2>1, Zenon DEF CompLock
  <2>2. CASE CompDone(b)
    BY <1>1, <2>2 DEF CompDone, Answer, poolVars
  <2>3. CASE CompNull(b)
    <3>1. \A a \in Bufs, d \in Ctxs : a # b /\ Owner(d, a) => Owner(d, a)'
      BY <2>3 DEF CompNull, Owner, ctxVars
    <3>. QED
      BY <2>3, <3>1, Zenon DEF CompNull, ctxVars
  <2>4. CASE CompFree(b)
    <3>1. b \in urb /\ sctx[b] = NoCall
      BY <2>4, Zenon DEF CompFree, CompInv
    <3>2. own' = own
      BY <2>4, <3>1, Zenon DEF CompFree, Answer
    <3>3. \A a \in Bufs, d \in Ctxs : a # b /\ Owner(d, a) => Owner(d, a)'
      BY <2>4 DEF CompFree, Free, Owner, ctxVars
    <3>4. \A d \in Ctxs : pc'[d] = "dump" => call'[buf'[d]] = id'[d]
      BY <2>4, <3>1 DEF CompFree, Free, ctxVars
    <3>. QED
      BY <2>4, <3>2, <3>3, <3>4 DEF CompFree, Free
  <2>. QED
    BY <1>3, <2>1, <2>2, <2>3, <2>4, Zenon DEF Completion
<1>4. CASE (\E n \in Calls : CcxRpt(n)) \/ AckTxDone
    BY <1>1, <1>4, Zenon DEF CcxRpt, AckTxDone, poolVars
<1>5. CASE Nap \/ Wakeup \/ Leave \/ Associate \/ Stop
    BY <1>1, <1>5, Zenon DEF Nap, Wakeup, Leave, Associate, Stop, poolVars
<1>6. CASE FlushXmit
  <2>1. UNCHANGED <<sctx, own, pc, kind, id, buf, urb>>
    BY <1>6, Zenon DEF FlushXmit, ctxVars
  <2>2. call' \in [Bufs -> Calls \cup {NoCall}]
        /\ \A a \in Bufs \ mgmt_sleep_q : call'[a] = call[a]
    BY <1>6, Zenon DEF FlushXmit
  <2>3. \A a \in Bufs, d \in Ctxs :
           Owner(d, a) => Owner(d, a)' /\ a \notin mgmt_sleep_q
    BY <2>1 DEF Owner
  <2>. QED
    BY <2>1, <2>2, <2>3
<1>7. CASE TaskletTake
  <2>1. \A d \in Ctxs : buf'[d] = buf[d] /\ pc'[d] = pc[d]
    BY <1>7, Zenon DEF TaskletTake, Goto
  <2>2. UNCHANGED <<sctx, call, own, kind, id, urb>>
    BY <1>7, Zenon DEF TaskletTake, poolVars
  <2>3. \A a \in Bufs, d \in Ctxs : Owner(d, a) => Owner(d, a)'
    BY <2>1, <2>2, Zenon DEF Owner
  <2>. QED
    BY <2>1, <2>2, <2>3, Zenon
<1>8. CASE TaskletDump
  <2>1. \A d \in Ctxs : buf'[d] = buf[d] /\ pc'[d] = pc[d]
    BY <1>8, Zenon DEF TaskletDump, Goto
  <2>2. UNCHANGED <<kind, id>> /\ own'.call = own.call /\ urb \subseteq urb'
    <3>1. CASE UNCHANGED own
      BY <1>8, <3>1, Zenon DEF TaskletDump, WritePort
    <3>2. CASE Answer(buf[Tasklet], "fail")
      <4>1. own'.call = own.call
        BY <3>2 DEF Answer
      <4>. QED
        BY <1>8, <4>1, Zenon DEF TaskletDump, WritePort
    <3>. QED
      BY <1>8, <3>1, <3>2, Zenon DEF TaskletDump, WritePort
  <2>3. /\ sctx' \in [Bufs -> Calls \cup {NoCall}] /\ call' \in [Bufs -> Calls \cup {NoCall}]
        /\ \A a \in Bufs : \/ sctx'[a] = sctx[a] /\ call'[a] = call[a]
                           \/ sctx'[a] = NoCall /\ a = buf[Tasklet]
    BY <1>8 DEF TaskletDump, WritePort, Free
  <2>4. \A a \in Bufs, d \in Ctxs : sctx'[a] = sctx[a] /\ Owner(d, a) => Owner(d, a)'
    BY <2>1, <2>2, Zenon DEF Owner
  <2>5. \A d \in Ctxs : pc[d] = "dump" => buf[d] # buf[Tasklet]
    BY <1>8, Zenon DEF TaskletDump
  <2>. QED
    BY <2>1, <2>2, <2>3, <2>4, <2>5
<1>9. CASE UNCHANGED vars
    BY <1>1, <1>9, Zenon DEF vars, poolVars
<1>. QED
    BY <1>2, <1>3, <1>4, <1>5, <1>6, <1>7, <1>8, <1>9, Zenon DEF Next

-----------------------------------------------------------------------------
(* What the waiter is told                                                 *)

\* Only the completion of its own URB tells a waiter of success.
LEMMA TruthNext ==
    ASSUME Shape, Pool, CompInv, SctxInv, TruthInv, [Next]_vars PROVE TruthInv'
<1>. USE Constants DEF TruthInv, WaitHonest, Status
<1>. comp \in [Bufs -> {"none", "ok", "err", "null", "free"}]
    BY Zenon DEF CompInv
<1>1. CASE UNCHANGED <<own, good, comp>>
    BY <1>1, Zenon
<1>2. ASSUME NEW b \in Bufs, Answer(b, "fail"), UNCHANGED <<good, comp>>
      PROVE  TruthInv'
    BY <1>2, Zenon DEF Answer
<1>3. ASSUME NEW c \in Ctxs, Caller(c) PROVE TruthInv'
  <2>1. CASE Alloc(c)
    <3>1. PICK b \in free_xmit_extbuf : Answer(b, "fail")
      BY <2>1, Zenon DEF Alloc
    <3>. QED
      BY <1>2, <2>1, <3>1, Zenon DEF Alloc, histVars, Pool
  <2>2. CASE DumpStopped(c)
    BY <1>2, <2>2, Zenon DEF DumpStopped, Shape, InHand
  <2>3. CASE Dump(c)
    <3>1. CASE kind[c] # "wait"
      BY <1>1, <2>3, <3>1, Zenon DEF Dump
    <3>2. CASE kind[c] = "wait"
      <4>1. \A a \in Bufs : comp[a] # "ok"
        BY <2>3, <3>2, OneWaiter DEF Dump, SctxInv, Owner, CompInv
      <4>2. id[c] \in Calls /\ own' = Fresh(id[c]) /\ UNCHANGED comp
        BY <2>3, <3>2, Zenon DEF Dump, Shape
      <4>3. own' \in [call : Calls \cup {NoCall}, status : Status, done : BOOLEAN]
            /\ own'.done = FALSE
        BY <4>2, Zenon DEF Fresh
      <4>. QED
        BY <2>3, <3>2, <4>1, <4>2, <4>3, Zenon DEF Dump
    <3>. QED
      BY <3>1, <3>2, Zenon
  <2>4. CASE DumpXframe(c)
    BY <1>1, <1>2, <2>4, Zenon DEF DumpXframe, WritePort, Shape, InHand
  <2>5. CASE Clear(c)
    <3>1. \A a \in Bufs : comp[a] # "ok"
      BY <2>5, Zenon DEF Clear, CompInv
    <3>. QED
      BY <2>5, <3>1, Zenon DEF Clear, Clear_NoLock, Fresh
  <2>6. CASE AckLock(c) \/ AckInit(c) \/ MgntXmit(c) \/ SctxWait(c) \/ AckUnlock(c)
    BY <1>1, <2>6, Zenon DEF AckLock, AckInit, MgntXmit, SctxWait, AckUnlock, histVars
  <2>. QED
    BY <1>3, <2>1, <2>2, <2>3, <2>4, <2>5, <2>6, Zenon DEF Caller
<1>4. ASSUME NEW b \in Bufs, Completion(b) PROVE TruthInv'
  <2>1. CASE CompLock(b)
    BY <2>1 DEF CompLock, SctxInv
  <2>2. CASE CompDone(b)
    BY <2>2, Zenon DEF CompDone, Answer, histVars
  <2>3. CASE CompNull(b)
    BY <2>3, Zenon DEF CompNull, histVars
  <2>4. CASE CompFree(b)
    BY <2>4, Zenon DEF CompFree, Answer, histVars
  <2>. QED
    BY <1>4, <2>1, <2>2, <2>3, <2>4, Zenon DEF Completion
<1>5. CASE (\E n \in Calls : CcxRpt(n)) \/ AckTxDone
    BY <1>1, <1>5, Zenon DEF CcxRpt, AckTxDone, histVars
<1>6. CASE Nap \/ Wakeup \/ Leave \/ FlushXmit \/ Associate \/ Stop \/ TaskletTake
    BY <1>1, <1>6, Zenon DEF Nap, Wakeup, Leave, FlushXmit, Associate, Stop,
                         TaskletTake, histVars
<1>7. CASE TaskletDump
    BY <1>1, <1>2, <1>7, Zenon DEF TaskletDump, WritePort, Shape, InHand, histVars
<1>8. CASE UNCHANGED vars
    BY <1>1, <1>8, Zenon DEF vars, histVars
<1>. QED
    BY <1>3, <1>4, <1>5, <1>6, <1>7, <1>8, Zenon DEF Next

-----------------------------------------------------------------------------
(* No buffer is lost                                                       *)

\* A caller hands its buffer on or frees it.
LEMMA LossCaller ==
    ASSUME Shape, Pool, ExtConserved, NEW c \in Ctxs, Caller(c)
    PROVE  ExtConserved' /\ UNCHANGED sta
<1>. USE Constants DEF Shape, Pool, ExtOnce, ExtConserved, Goto, InHand, Held
<1>1. CASE Alloc(c)
  <2>1. PICK b \in free_xmit_extbuf :
           /\ free_xmit_extbuf' = free_xmit_extbuf \ {b}
           /\ buf' = [buf EXCEPT ![c] = b]
    BY <1>1, Zenon DEF Alloc
  <2>2. /\ pc[c] = "idle" /\ pc' = [pc EXCEPT ![c] = "dump"]
        /\ UNCHANGED <<urb, mgmt_sleep_q, mgmt_q, sta>>
    BY <1>1, Zenon DEF Alloc, staVars
  <2>. QED
    BY <2>1, <2>2
<1>2. CASE DumpStopped(c)
    BY <1>2 DEF DumpStopped, Return, Free, staVars
<1>3. CASE Dump(c)
    BY <1>3 DEF Dump, staVars
<1>4. CASE AckLock(c)
    BY <1>4, Zenon DEF AckLock, poolVars, staVars
<1>5. CASE AckInit(c)
    BY <1>5, Zenon DEF AckInit, staVars
<1>6. CASE MgntXmit(c)
    BY <1>6 DEF MgntXmit, Sent, Return, poolVars
<1>7. CASE DumpXframe(c)
    BY <1>7 DEF DumpXframe, Sent, Return, WritePort, Free, staVars
<1>8. CASE SctxWait(c)
    BY <1>8, Zenon DEF SctxWait, poolVars, staVars
<1>9. CASE Clear(c)
    BY <1>9, Zenon DEF Clear, Clear_NoLock, Return, staVars
<1>10. CASE AckUnlock(c)
    BY <1>10, Zenon DEF AckUnlock, Return, poolVars, staVars
<1>. QED
    BY <1>1, <1>2, <1>3, <1>4, <1>5, <1>6, <1>7, <1>8, <1>9, <1>10, Zenon DEF Caller

\* So does every other step while no station is freed.
LEMMA LossNext ==
    ASSUME Shape, Pool, CompInv, LossInv, [Next]_vars PROVE LossInv'
<1>. SUFFICES ASSUME ~CanLeave PROVE ExtConserved' /\ sta' \in {"awake", "asleep"}
    BY Zenon DEF LossInv
<1>. ExtConserved /\ sta \in {"awake", "asleep"}
    BY Zenon DEF LossInv
<1>1. CASE \E c \in Ctxs : Caller(c)
    BY <1>1, LossCaller, Zenon
<1>. USE Constants DEF Shape, Pool, ExtOnce, ExtConserved, Goto, InHand, Held
<1>2. CASE UNCHANGED <<free_xmit_extbuf, urb, mgmt_sleep_q, mgmt_q, pc, buf, sta>>
    BY <1>2, Zenon
<1>3. ASSUME NEW b \in Bufs, Completion(b)
      PROVE  ExtConserved' /\ sta' \in {"awake", "asleep"}
  <2>1. CASE CompFree(b)
    BY <2>1 DEF CompFree, Free, CompInv, staVars, ctxVars
  <2>2. CASE CompLock(b) \/ CompDone(b) \/ CompNull(b)
    BY <1>2, <2>2, Zenon DEF CompLock, CompDone, CompNull, poolVars, staVars, ctxVars
  <2>. QED
    BY <1>3, <2>1, <2>2, Zenon DEF Completion
<1>4. CASE (\E n \in Calls : CcxRpt(n)) \/ AckTxDone
    BY <1>2, <1>4, Zenon DEF CcxRpt, AckTxDone, poolVars, staVars, ctxVars
<1>5. CASE Nap \/ Wakeup \/ Leave \/ FlushXmit \/ Associate
    BY <1>5 DEF Nap, Wakeup, Leave, FlushXmit, Associate, poolVars, ctxVars
<1>6. CASE Stop
    BY <1>2, <1>6, Zenon DEF Stop, poolVars, staVars, ctxVars
<1>7. CASE TaskletTake
    BY <1>7 DEF TaskletTake, poolVars
<1>8. CASE TaskletDump
    BY <1>8 DEF TaskletDump, WritePort, Free, staVars
<1>9. CASE UNCHANGED vars
    BY <1>2, <1>9, Zenon DEF vars, poolVars, staVars, ctxVars
<1>. QED
    BY <1>1, <1>3, <1>4, <1>5, <1>6, <1>7, <1>8, <1>9, Zenon DEF Next

-----------------------------------------------------------------------------
(* The theorems                                                            *)

\* After _rtw_init_xmit_priv the pool is full and nobody waits.
LEMMA InitIInv == Init => IInv
<1>. SUFFICES ASSUME Init PROVE IInv
    BY Zenon
<1>. USE Constants DEF Init
<1>1. Shape
    BY Zenon DEF Shape, InHand, Steps
<1>2. Pool
    BY Zenon DEF Pool, ExtOnce, InHand, Held
<1>3. CompInv
    BY Zenon DEF CompInv
<1>4. SctxInv
    BY Zenon DEF SctxInv
<1>5. TruthInv
    BY Zenon DEF TruthInv, WaitHonest, Status, Fresh
<1>6. LossInv
    BY Zenon DEF LossInv, ExtConserved, InHand, Held
<1>. QED
    BY <1>1, <1>2, <1>3, <1>4, <1>5, <1>6, Zenon DEF IInv

\* The inductive invariant holds in every reachable state.
LEMMA IInvAlways == Spec => []IInv
<1>1. IInv /\ [Next]_vars => IInv'
    BY ShapeNext, PoolNext, CompNext, SctxNext, TruthNext, LossNext, Zenon DEF IInv
<1>. QED
    BY <1>1, InitIInv, PTL DEF Spec

\* A dump_mgntframe_and_wait that times out while its URB is being completed
\* is safe: when it returns no buffer points to its stack.
THEOREM NoStackOutlived == Spec => []SctxLive
<1>1. IInv => SctxLive
    BY DEF IInv, SctxInv, CompInv, Owner, SctxLive, Live
<1>. QED
    BY <1>1, IInvAlways, PTL

\* The rtw_sctx_done_err of rtw_free_xmitbuf and rtw_alloc_xmitbuf_ext, which
\* take no lock, never find anybody to tell.
THEOREM UnlockedDoneIsIdle == Spec => []FreeSctxNull
<1>1. IInv => FreeSctxNull
    BY DEF IInv, SctxInv, CompInv, Pool, ExtOnce, Shape, InHand, Held, Owner, FreeSctxNull
<1>. QED
    BY <1>1, IInvAlways, PTL

\* No extension buffer is in two places, whoever leaves or stops.
THEOREM NoBufferTwice == Spec => []ExtOnce
<1>1. IInv => ExtOnce
    BY Zenon DEF IInv, Pool
<1>. QED
    BY <1>1, IInvAlways, PTL

\* No extension buffer is lost as long as no station is freed.
THEOREM NoBufferLost == ~CanLeave => (Spec => []ExtConserved)
<1>. SUFFICES ASSUME ~CanLeave PROVE Spec => []ExtConserved
    BY Zenon
<1>1. IInv => ExtConserved
    BY Zenon DEF IInv, LossInv
<1>. QED
    BY <1>1, IInvAlways, PTL

\* dump_mgntframe_and_wait reports success only for a frame whose URB went
\* through.
THEOREM SuccessIsTrue == Spec => []WaitHonest
<1>1. IInv => WaitHonest
    BY Zenon DEF IInv, TruthInv
<1>. QED
    BY <1>1, IInvAlways, PTL
=============================================================================
