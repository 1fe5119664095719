---------------------------- MODULE CmdThreadInv ----------------------------
(***************************************************************************)
(* The inductive invariant of CmdThread, what each actor leaves alone, and *)
(* the preservation of the types.  The rest is in CmdThread_proofs.        *)
(***************************************************************************)
EXTENDS CmdThread, TLAPS

-----------------------------------------------------------------------------
(* The inductive invariant.                                                *)

\* No signal ends a wait for sctx_mutex.
NoSignal == Signalled = {}

\* The call has not put its object on the queue yet.
Early == {"idle", "filter", "enqueue"}

\* Queued objects are allocated, queued once, and not in the thread's hand.
QueueInv ==
    /\ \A i \in 1..Len(cmd_queue) :
          /\ obj[cmd_queue[i]] = "live"
          /\ pc[cmd_queue[i]] \notin Early
          /\ cmd_queue[i] # pcmd
    /\ \A i, j \in 1..Len(cmd_queue) : cmd_queue[i] = cmd_queue[j] => i = j

\* The thread has an object in hand in exactly the middle of the loops; that
\* object is allocated, and answered in the order status, completion, NULL.
HandInv ==
    /\ pcmd # NoCmd <=> (InHand \/ Answering)
    /\ pcmd # NoCmd => obj[pcmd] = "live" /\ pc[pcmd] \notin Early
    /\ tpc \in {"complete", "null"} => status[pcmd] # "SUBMITTED"
    /\ tpc \in {"unlock", "free"} => ~obj_sctx[pcmd]
    /\ NoSignal /\ tpc \in {"status", "complete", "null"} => obj_sctx[pcmd]

\* Where the thread is between taking and releasing sctx_mutex.
Critical == {"check", "status", "complete", "null", "unlock"}

\* The thread holds sctx_mutex in its critical section at most; without
\* signals the mutex is held in the critical sections and nowhere else.
MutexInv ==
    /\ sctx_mutex = "thread" => tpc \in Critical
    /\ NoSignal =>
          /\ tpc \in Critical => sctx_mutex = "thread"
          /\ \A c \in Cmds : sctx_mutex = c <=> pc[c] \in {"check", "clear", "unlock"}

\* How the call, its submit_ctx and the pointer in its object agree.
SctxOk(c) ==
    /\ pc[c] = "idle" => obj[c] = "none"
    /\ pc[c] \in Early => status[c] = "SUBMITTED"
    /\ pc[c] \in {"filter", "enqueue"} =>
          obj[c] = "live" /\ (obj_sctx[c] <=> c \in SyncCmds)
    /\ c \notin SyncCmds =>
          ~obj_sctx[c] /\ pc[c] \notin {"wait", "lock", "check", "clear",
                                       "unlock"}
    /\ /\ c \in SyncCmds
       /\ pc[c] \in {"up", "wait", "lock", "check"}
       /\ status[c] = "SUBMITTED"
       => obj[c] = "live" /\ obj_sctx[c]
    /\ NoSignal /\ pc[c] = "clear" =>
          obj[c] = "live" /\ obj_sctx[c] /\ status[c] = "SUBMITTED"
    /\ NoSignal /\ pc[c] \in {"unlock", "returned"} =>
          ~obj_sctx[c] \/ obj[c] = "freed"

SctxInv == \A c \in Cmds : SctxOk(c)

\* An answered call is pointed at by the object in hand only, between the
\* status and the NULL.
AnswerInv ==
    \A c \in Cmds :
        status[c] # "SUBMITTED" /\ obj_sctx[c] =>
            tpc \in {"complete", "null"} /\ pcmd = c

\* cmdthd_running, the thread pointer and the stop path agree.
RunInv ==
    /\ ~cmdThread <=> tpc = "none"
    /\ draining \/ tpc \in {"none", "start", "exited"} => ~cmdthd_running
    /\ tpc \in {"drain", "wait_stop"} => draining
    /\ tpc = "start" => ~draining
    /\ ctl = "unload" => tpc = "none"

\* NoLostWakeup, for every place from which the thread comes to its sleep
\* without looking at the queue again.
WakeInv ==
    /\ tpc \in {"none", "start", "down", "idle", "wait_stop", "exited"}
    /\ cmd_queue_sema = 0
    /\ cmd_queue # <<>>
    => \/ \E c \in Cmds : pc[c] = "up"
       \/ res[Head(cmd_queue)] = "ENQ_HEAD"

IInv ==
    /\ TypeOK
    /\ QueueInv
    /\ HandInv
    /\ MutexInv
    /\ SctxInv
    /\ AnswerInv
    /\ RunInv
    /\ WakeInv

-----------------------------------------------------------------------------
(* Facts about the three ways in which the queue changes.                  *)

\* _rtw_enqueue_cmd at the tail.
LEMMA AppendFacts ==
    ASSUME NEW S, NEW s \in Seq(S), NEW e \in S
    PROVE  /\ Append(s, e) \in Seq(S)
           /\ Len(Append(s, e)) = Len(s) + 1
           /\ \A i \in 1..Len(s) : Append(s, e)[i] = s[i]
           /\ Append(s, e)[Len(s) + 1] = e
           /\ s # <<>> => Head(Append(s, e)) = Head(s)
    OBVIOUS

\* _rtw_enqueue_cmd at the head.
LEMMA ConsFacts ==
    ASSUME NEW S, NEW s \in Seq(S), NEW e \in S
    PROVE  /\ <<e>> \o s \in Seq(S)
           /\ Len(<<e>> \o s) = Len(s) + 1
           /\ (<<e>> \o s)[1] = e
           /\ \A i \in 2..Len(s) + 1 : (<<e>> \o s)[i] = s[i - 1]
           /\ Head(<<e>> \o s) = e
    OBVIOUS

\* _rtw_dequeue_cmd.
LEMMA TailFacts ==
    ASSUME NEW S, NEW s \in Seq(S), s # <<>>
    PROVE  /\ Tail(s) \in Seq(S)
           /\ Len(s) \in Nat \ {0}
           /\ Len(Tail(s)) = Len(s) - 1
           /\ \A i \in 1..Len(s) - 1 : Tail(s)[i] = s[i + 1]
           /\ Head(s) = s[1]
           /\ Head(s) \in S
    OBVIOUS

-----------------------------------------------------------------------------
(* Who may change what: the parts of the state that a step leaves alone.   *)

\* A call changes its own state, its object, the queue and sctx_mutex, and
\* the object and the queue in few of its steps.
LEMMA CallerFrame ==
    ASSUME NEW c \in Cmds, Caller(c)
    PROVE  /\ UNCHANGED <<threadVars, runVars, kthreadVars, devVars, ctlVars>>
           /\ EnqueueInsert(c) \/ EnqueueUp(c) \/ UNCHANGED queueVars
           /\ \/ Issue(c) \/ EnqueueRefuse(c) \/ WaiterClear(c)
              \/ UNCHANGED objVars
           /\ Issue(c) \/ WaiterClear(c) \/ UNCHANGED obj_sctx
           /\ UNCHANGED <<status, done>>
           /\ WaiterLock(c) \/ WaiterReturn(c) \/ UNCHANGED sctx_mutex
<1>. USE DEF objVars, queueVars
<1>1. CASE Issue(c)
    BY <1>1, Zenon DEF Issue
<1>2. CASE EnqueueRefuse(c)
    BY <1>2, Zenon DEF EnqueueRefuse
<1>3. CASE EnqueueAccept(c)
    BY <1>3, Zenon DEF EnqueueAccept
<1>4. CASE EnqueueInsert(c)
    BY <1>4, Zenon DEF EnqueueInsert
<1>5. CASE EnqueueUp(c)
    BY <1>5, Zenon DEF EnqueueUp
<1>6. CASE WaitDone(c)
    BY <1>6, Zenon DEF WaitDone
<1>7. CASE WaitTimeout(c)
    BY <1>7, Zenon DEF WaitTimeout
<1>8. CASE WaiterLock(c)
    BY <1>8, Zenon DEF WaiterLock
<1>9. CASE WaiterCheck(c)
    BY <1>9, Zenon DEF WaiterCheck
<1>10. CASE WaiterReturn(c)
    BY <1>10, Zenon DEF WaiterReturn
<1>11. CASE WaiterInterrupted(c)
    BY <1>11, Zenon DEF WaiterInterrupted
<1>12. CASE WaiterClear(c)
    BY <1>12, Zenon DEF WaiterClear
<1>. QED
    BY <1>1, <1>2, <1>3, <1>4, <1>5, <1>6, <1>7, <1>8, <1>9, <1>10, <1>11,
       <1>12, Zenon
    DEF Caller

\* The thread answers a call in two steps, changes its object in five and the
\* queue in four; it never changes the device flags or the stop path.
LEMMA ThreadFrame ==
    ASSUME Thread
    PROVE  /\ UNCHANGED <<pc, ret, kthreadVars, devVars, ctlVars>>
           /\ ThreadStatus \/ UNCHANGED status
           /\ ThreadComplete \/ UNCHANGED done
           /\ \/ ThreadFilter \/ ThreadEnqHead \/ ThreadNull \/ ThreadFree
              \/ \E r \in {"SUCCESS", "REJECTED"} : ThreadExec(r)
              \/ UNCHANGED objVars
           /\ ThreadFree \/ UNCHANGED obj
           /\ ThreadNull \/ UNCHANGED obj_sctx
           /\ ThreadDown \/ UNCHANGED cmd_queue_sema
           /\ \/ ThreadDequeue \/ ThreadEnqHead \/ ThreadDrain
              \/ UNCHANGED cmd_queue
           /\ \/ ThreadDequeue \/ ThreadEnqHead \/ ThreadDrain \/ ThreadFree
              \/ UNCHANGED pcmd
           /\ ThreadComplete \/ ThreadNull \/ tpc \notin {"complete", "null"}
<1>. USE DEF callerVars, objVars, queueVars
<1>1. CASE ThreadNeverRuns
    BY <1>1, Zenon DEF ThreadNeverRuns
<1>2. CASE ThreadStart
    BY <1>2, Zenon DEF ThreadStart
<1>3. CASE ThreadDown
    BY <1>3, Zenon DEF ThreadDown
<1>4. CASE ThreadEvent
    BY <1>4, Zenon DEF ThreadEvent
<1>5. CASE ThreadOnce
    BY <1>5, Zenon DEF ThreadOnce
<1>6. CASE ThreadDequeue
    BY <1>6, Zenon DEF ThreadDequeue
<1>7. CASE ThreadIdle
    BY <1>7, Zenon DEF ThreadIdle
<1>8. CASE ThreadFilter
    BY <1>8, Zenon DEF ThreadFilter
<1>9. CASE \E ok \in BOOLEAN : ThreadAlive(ok)
    BY <1>9, Zenon DEF ThreadAlive
<1>10. CASE ThreadEnqHead
    BY <1>10, Zenon DEF ThreadEnqHead
<1>11. CASE \E r \in {"SUCCESS", "REJECTED"} : ThreadExec(r)
    BY <1>11, Zenon DEF ThreadExec
<1>12. CASE ThreadLock
    BY <1>12, Zenon DEF ThreadLock
<1>13. CASE ThreadInterrupted
    BY <1>13, Zenon DEF ThreadInterrupted
<1>14. CASE ThreadCheck
    BY <1>14, Zenon DEF ThreadCheck
<1>15. CASE ThreadStatus
    BY <1>15, Zenon DEF ThreadStatus
<1>16. CASE ThreadComplete
    BY <1>16, Zenon DEF ThreadComplete
<1>17. CASE ThreadNull
    BY <1>17, Zenon DEF ThreadNull
<1>18. CASE ThreadUnlock
    BY <1>18, Zenon DEF ThreadUnlock
<1>19. CASE ThreadFree
    BY <1>19, Zenon DEF ThreadFree
<1>20. CASE ThreadStop
    BY <1>20, Zenon DEF ThreadStop
<1>21. CASE ThreadStopFlag
    BY <1>21, Zenon DEF ThreadStopFlag
<1>22. CASE ThreadDrain
    BY <1>22, Zenon DEF ThreadDrain
<1>23. CASE ThreadWaitStop
    BY <1>23, Zenon DEF ThreadWaitStop
<1>. QED
    BY <1>1, <1>2, <1>3, <1>4, <1>5, <1>6, <1>7, <1>8, <1>9, <1>10, <1>11,
       <1>12, <1>13, <1>14, <1>15, <1>16, <1>17, <1>18, <1>19, <1>20, <1>21,
       <1>22, <1>23, Zenon
    DEF Thread

\* The open and stop paths change the thread when they create and join it,
\* and of the queue only the semaphore, which rtw_stop_cmd_thread signals.
LEMMA ControlFrame ==
    ASSUME Control
    PROVE  /\ UNCHANGED <<callerVars, objVars, cmd_queue, pcmd, sctx_mutex>>
           /\ StopUp \/ UNCHANGED queueVars
           /\ StartThread \/ Join \/ UNCHANGED threadVars
           /\ WaitStart \/ UNCHANGED runVars
<1>. USE DEF Control, Open, StartThread, WaitStart, WaitStartInterrupted,
        HalInit, Unload, Remove, RemoveStop, StopUp, KthreadStop, Join,
        UnloadRest
<1>1. UNCHANGED <<callerVars, objVars, sctx_mutex>>
    BY Zenon
<1>2. StopUp \/ UNCHANGED queueVars
    BY Zenon
<1>3. StartThread \/ Join \/ UNCHANGED threadVars
    BY Zenon
<1>4. WaitStart \/ UNCHANGED runVars
    BY Zenon
<1>5. UNCHANGED <<cmd_queue, pcmd>>
    BY Zenon DEF queueVars, threadVars
<1>. QED
    BY <1>1, <1>2, <1>3, <1>4, <1>5, Zenon

\* A signal moves the thread; nothing in the environment touches more of the
\* command path than that.
LEMMA EnvironmentFrame ==
    ASSUME Environment
    PROVE  /\ UNCHANGED <<callerVars, objVars, queueVars, runVars, sctx_mutex>>
           /\ ThreadSignal \/ UNCHANGED threadVars
           /\ UNCHANGED pcmd
    BY Zenon DEF Environment, ThreadSignal, SurpriseRemove, IpsDown, IpsUp,
           threadVars

-----------------------------------------------------------------------------
(* Each part of TypeOK is preserved by every step.                         *)

\* Inserting at either end and dequeuing keep a queue of command objects.
LEMMA QueueTypeNext == IInv /\ [Next]_vars => QueueType'
<1>. SUFFICES ASSUME IInv, [Next]_vars PROVE QueueType'
    BY Zenon
<1>0. QueueType /\ ThreadType /\ HandInv
    BY Zenon DEF IInv, TypeOK
<1>. USE <1>0 DEF QueueType, queueVars
<1>1. ASSUME NEW c \in Cmds, Caller(c) PROVE QueueType'
  <2>1. CASE EnqueueInsert(c)
    BY <1>1, <2>1, AppendFacts, Zenon DEF EnqueueInsert
  <2>2. CASE EnqueueUp(c)
    BY <2>2 DEF EnqueueUp
  <2>. QED
    BY <1>1, <2>1, <2>2, CallerFrame, Zenon
<1>2. CASE Thread
  <2>1. CASE ThreadDown
    BY <2>1 DEF ThreadDown
  <2>2. CASE ThreadDequeue \/ ThreadDrain
    BY <2>2, TailFacts, Zenon DEF ThreadDequeue, ThreadDrain
  <2>3. CASE ThreadEnqHead
    <3>1. pcmd \in Cmds
      BY <2>3, Zenon DEF ThreadEnqHead, HandInv, InHand, ThreadType
    <3>. QED
      BY <2>3, <3>1, ConsFacts, Zenon DEF ThreadEnqHead
  <2>. QED
    BY <1>2, <2>1, <2>2, <2>3, ThreadFrame, Zenon
<1>3. CASE Control
  <2>1. CASE StopUp
    BY <2>1 DEF StopUp
  <2>. QED
    BY <1>3, <2>1, ControlFrame, Zenon
<1>4. CASE Environment
    BY <1>4, EnvironmentFrame, Zenon
<1>5. CASE UNCHANGED vars
    BY <1>5, Zenon DEF vars
<1>. HIDE DEF QueueType
<1>. QED
    BY <1>1, <1>2, <1>3, <1>4, <1>5, Zenon DEF Next

\* The fields of the command objects keep their types.
LEMMA ObjTypeNext == IInv /\ [Next]_vars => ObjType'
<1>. SUFFICES ASSUME IInv, [Next]_vars PROVE ObjType'
    BY Zenon
<1>0. ObjType /\ ThreadType /\ HandInv
    BY Zenon DEF IInv, TypeOK
<1>. USE <1>0 DEF ObjType, objVars
<1>1. ASSUME NEW c \in Cmds, Caller(c) PROVE ObjType'
  <2>1. CASE Issue(c)
    BY <1>1, <2>1 DEF Issue
  <2>2. CASE EnqueueRefuse(c)
    BY <1>1, <2>2, Zenon DEF EnqueueRefuse
  <2>3. CASE WaiterClear(c)
    BY <1>1, <2>3, Zenon DEF WaiterClear
  <2>. QED
    BY <1>1, <2>1, <2>2, <2>3, CallerFrame, Zenon
<1>2. CASE Thread
  <2>1. CASE ThreadFilter
    BY <2>1, Zenon DEF ThreadFilter
  <2>2. CASE ThreadEnqHead
    BY <2>2, Zenon DEF ThreadEnqHead
  <2>3. CASE \E r \in {"SUCCESS", "REJECTED"} : ThreadExec(r)
    <3>1. pcmd \in Cmds
      BY <2>3, Zenon DEF ThreadExec, HandInv, InHand, ThreadType
    <3>2. runs' \in [Cmds -> Nat]
      BY <2>3, <3>1 DEF ThreadExec
    <3>. QED
      BY <2>3, <3>2 DEF ThreadExec
  <2>4. CASE ThreadNull
    BY <2>4, Zenon DEF ThreadNull
  <2>5. CASE ThreadFree
    BY <2>5, Zenon DEF ThreadFree
  <2>. QED
    BY <1>2, <2>1, <2>2, <2>3, <2>4, <2>5, ThreadFrame, Zenon
<1>3. CASE Control
    BY <1>3, ControlFrame, Zenon
<1>4. CASE Environment
    BY <1>4, EnvironmentFrame, Zenon
<1>5. CASE UNCHANGED vars
    BY <1>5, Zenon DEF vars
<1>. HIDE DEF ObjType
<1>. QED
    BY <1>1, <1>2, <1>3, <1>4, <1>5, Zenon DEF Next

\* The calls and their submit_ctx keep their types.
LEMMA CallerTypeNext == IInv /\ [Next]_vars => CallerType'
<1>. SUFFICES ASSUME IInv, [Next]_vars PROVE CallerType'
    BY Zenon
<1>0. CallerType
    BY Zenon DEF IInv, TypeOK
<1>. USE <1>0 DEF CallerType, CallerPC, callerVars
<1>1. ASSUME NEW c \in Cmds, Caller(c) PROVE CallerType'
  <2>1. CASE Issue(c)
    BY <1>1, <2>1, Zenon DEF Issue
  <2>2. CASE EnqueueRefuse(c)
    BY <1>1, <2>2, Zenon DEF EnqueueRefuse
  <2>3. CASE EnqueueAccept(c)
    BY <1>1, <2>3, Zenon DEF EnqueueAccept
  <2>4. CASE EnqueueInsert(c)
    BY <1>1, <2>4, Zenon DEF EnqueueInsert
  <2>5. CASE EnqueueUp(c)
    BY <1>1, <2>5, Zenon DEF EnqueueUp
  <2>6. CASE WaitDone(c)
    BY <1>1, <2>6, Zenon DEF WaitDone
  <2>7. CASE WaitTimeout(c)
    BY <1>1, <2>7, Zenon DEF WaitTimeout
  <2>8. CASE WaiterLock(c)
    BY <1>1, <2>8, Zenon DEF WaiterLock
  <2>9. CASE WaiterCheck(c)
    BY <1>1, <2>9, Zenon DEF WaiterCheck
  <2>10. CASE WaiterReturn(c)
    BY <1>1, <2>10, Zenon DEF WaiterReturn
  <2>11. CASE WaiterInterrupted(c)
    BY <1>1, <2>11, Zenon DEF WaiterInterrupted
  <2>12. CASE WaiterClear(c)
    BY <1>1, <2>12, Zenon DEF WaiterClear
  <2>. HIDE DEF CallerType
  <2>. QED
    BY <1>1, <2>1, <2>2, <2>3, <2>4, <2>5, <2>6, <2>7, <2>8, <2>9, <2>10,
       <2>11, <2>12, Zenon
    DEF Caller
<1>2. CASE Thread
  <2>1. CASE ThreadStatus
    BY <2>1, Zenon DEF ThreadStatus, DoneStatus
  <2>2. CASE ThreadComplete
    BY <2>2, Zenon DEF ThreadComplete
  <2>. QED
    BY <1>2, <2>1, <2>2, ThreadFrame, Zenon
<1>3. CASE Control
    BY <1>3, ControlFrame, Zenon
<1>4. CASE Environment
    BY <1>4, EnvironmentFrame, Zenon
<1>5. CASE UNCHANGED vars
    BY <1>5, Zenon DEF vars
<1>. HIDE DEF CallerType
<1>. QED
    BY <1>1, <1>2, <1>3, <1>4, <1>5, Zenon DEF Next

\* The thread, its flag and its locks keep their types.
LEMMA ThreadTypeNext == IInv /\ [Next]_vars => ThreadType'
<1>. SUFFICES ASSUME IInv, [Next]_vars PROVE ThreadType'
    BY Zenon
<1>0. ThreadType /\ QueueType
    BY Zenon DEF IInv, TypeOK
<1>. USE <1>0 DEF ThreadType, ThreadPC, threadVars, runVars, Goto
<1>1. ASSUME NEW c \in Cmds, Caller(c) PROVE ThreadType'
  <2>1. CASE WaiterLock(c)
    BY <1>1, <2>1, Zenon DEF WaiterLock
  <2>2. CASE WaiterReturn(c)
    BY <2>2 DEF WaiterReturn
  <2>. QED
    BY <1>1, <2>1, <2>2, CallerFrame
<1>2. CASE Thread
  <2>1. CASE ThreadStart
    BY <2>1 DEF ThreadStart
  <2>2. CASE ThreadDown
    BY <2>2, Zenon DEF ThreadDown
  <2>3. CASE ThreadEvent
    BY <2>3, Zenon DEF ThreadEvent
  <2>4. CASE ThreadOnce
    BY <2>4, Zenon DEF ThreadOnce
  <2>5. CASE ThreadIdle
    BY <2>5, Zenon DEF ThreadIdle
  <2>6. CASE ThreadFilter
    BY <2>6, Zenon DEF ThreadFilter
  <2>7. CASE ThreadEnqHead
    BY <2>7, Zenon DEF ThreadEnqHead
  <2>8. CASE ThreadLock
    BY <2>8, Zenon DEF ThreadLock
  <2>9. CASE ThreadCheck
    BY <2>9, Zenon DEF ThreadCheck
  <2>10. CASE ThreadComplete
    BY <2>10, Zenon DEF ThreadComplete
  <2>11. CASE ThreadNull
    BY <2>11, Zenon DEF ThreadNull
  <2>12. CASE ThreadUnlock
    BY <2>12, Zenon DEF ThreadUnlock
  <2>13. CASE ThreadFree
    BY <2>13, Zenon DEF ThreadFree
  <2>14. CASE ThreadStop
    BY <2>14, Zenon DEF ThreadStop
  <2>15. CASE ThreadStopFlag
    BY <2>15, Zenon DEF ThreadStopFlag
  <2>16. CASE ThreadWaitStop
    BY <2>16, Zenon DEF ThreadWaitStop
  <2>17. CASE \E ok \in BOOLEAN : ThreadAlive(ok)
    BY <2>17, Zenon DEF ThreadAlive
  <2>18. CASE \E r \in {"SUCCESS", "REJECTED"} : ThreadExec(r)
    BY <2>18, Zenon DEF ThreadExec
  <2>19. CASE ThreadDequeue \/ ThreadDrain
    BY <2>19, TailFacts DEF ThreadDequeue, ThreadDrain, QueueType
  <2>20. CASE ThreadNeverRuns
    BY <2>20, Zenon DEF ThreadNeverRuns
  <2>21. CASE ThreadInterrupted
    BY <2>21, Zenon DEF ThreadInterrupted
  <2>22. CASE ThreadStatus
    BY <2>22, Zenon DEF ThreadStatus
  <2>. HIDE DEF ThreadType
  <2>. QED
    BY <1>2, <2>1, <2>2, <2>3, <2>4, <2>5, <2>6, <2>7, <2>8, <2>9, <2>10,
       <2>11, <2>12, <2>13, <2>14, <2>15, <2>16, <2>17, <2>18, <2>19, <2>20,
       <2>21, <2>22, Zenon
    DEF Thread
<1>3. CASE Control
  <2>1. CASE StartThread
    BY <2>1, Zenon DEF StartThread
  <2>2. CASE WaitStart
    BY <2>2 DEF WaitStart
  <2>3. CASE Join
    BY <2>3, Zenon DEF Join
  <2>. QED
    BY <1>3, <2>1, <2>2, <2>3, ControlFrame, Zenon
<1>4. CASE Environment
  <2>1. CASE ThreadSignal
    BY <2>1, Zenon DEF ThreadSignal
  <2>. QED
    BY <1>4, <2>1, EnvironmentFrame, Zenon
<1>5. CASE UNCHANGED vars
    BY <1>5, Zenon DEF vars
<1>. HIDE DEF ThreadType
<1>. QED
    BY <1>1, <1>2, <1>3, <1>4, <1>5, Zenon DEF Next

\* The device flags and the open and stop paths keep their types.
LEMMA CtlTypeNext == IInv /\ [Next]_vars => CtlType'
<1>. SUFFICES ASSUME IInv, [Next]_vars PROVE CtlType'
    BY Zenon
<1>0. CtlType
    BY Zenon DEF IInv, TypeOK
<1>. USE <1>0, MaxOpenAssumption DEF CtlType, CtlPC, kthreadVars, devVars,
        ctlVars
<1>1. ASSUME NEW c \in Cmds, Caller(c) PROVE CtlType'
    BY <1>1, CallerFrame
<1>2. CASE Thread
  <2>1. UNCHANGED <<kthreadVars, devVars, ctlVars>>
    BY <1>2, ThreadFrame, Zenon
  <2>. QED
    BY <2>1
<1>3. CASE Control
  <2>1. CASE Open
    <3>1. opens' \in 0..MaxOpen
      BY <2>1 DEF Open
    <3>. QED
      BY <2>1, <3>1, Zenon DEF Open
  <2>2. CASE StartThread
    BY <2>2, Zenon DEF StartThread
  <2>3. CASE WaitStart
    BY <2>3, Zenon DEF WaitStart
  <2>4. CASE HalInit
    BY <2>4, Zenon DEF HalInit
  <2>5. CASE Unload
    BY <2>5, Zenon DEF Unload
  <2>6. CASE Remove
    BY <2>6, Zenon DEF Remove
  <2>7. CASE RemoveStop
    BY <2>7, Zenon DEF RemoveStop
  <2>8. CASE StopUp
    BY <2>8, Zenon DEF StopUp
  <2>9. CASE KthreadStop
    BY <2>9, Zenon DEF KthreadStop
  <2>10. CASE Join
    BY <2>10, Zenon DEF Join
  <2>11. CASE UnloadRest
    BY <2>11, Zenon DEF UnloadRest
  <2>12. CASE WaitStartInterrupted
    BY <2>12, Zenon DEF WaitStartInterrupted
  <2>. HIDE DEF CtlType
  <2>. QED
    BY <1>3, <2>1, <2>2, <2>3, <2>4, <2>5, <2>6, <2>7, <2>8, <2>9, <2>10,
       <2>11, <2>12, Zenon
    DEF Control
<1>4. CASE Environment
  <2>1. CASE ThreadSignal
    BY <2>1 DEF ThreadSignal
  <2>2. CASE SurpriseRemove
    BY <2>2, Zenon DEF SurpriseRemove
  <2>3. CASE IpsDown
    BY <2>3, Zenon DEF IpsDown
  <2>4. CASE IpsUp
    BY <2>4, Zenon DEF IpsUp
  <2>. HIDE DEF CtlType
  <2>. QED
    BY <1>4, <2>1, <2>2, <2>3, <2>4, Zenon
    DEF Environment
<1>5. CASE UNCHANGED vars
    BY <1>5 DEF vars
<1>. HIDE DEF CtlType
<1>. QED
    BY <1>1, <1>2, <1>3, <1>4, <1>5, Zenon DEF Next

=============================================================================
