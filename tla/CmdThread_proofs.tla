-------------------------- MODULE CmdThread_proofs --------------------------
(***************************************************************************)
(* The safety invariants of CmdThread for every set of commands, every     *)
(* number of thread restarts and every interleaving.                       *)
(*                                                                         *)
(* sctx_mutex is taken with mutex_lock_interruptible and the result is     *)
(* ignored, so what rests on mutual exclusion holds when no signal is      *)
(* pending in a call or in the thread (NoSignal); the rest holds always.   *)
(* So does the refinement of CmdService, at the end.                       *)
(***************************************************************************)
EXTENDS CmdThreadInv

-----------------------------------------------------------------------------
(* Each part of IInv is preserved by every step; TypeOK in CmdThreadInv.   *)

\* A queued object is live and queued once: insertion comes after the
\* allocation, and only the thread, which has dequeued it, frees it.
LEMMA QueueInvNext == IInv /\ [Next]_vars => QueueInv'
<1>. SUFFICES ASSUME IInv, [Next]_vars PROVE QueueInv'
    BY Zenon
<1>0. /\ QueueInv /\ HandInv /\ SctxInv
      /\ QueueType /\ ObjType /\ CallerType /\ ThreadType
    BY Zenon DEF IInv, TypeOK
<1>. USE <1>0 DEF QueueType, ObjType, CallerType, ThreadType, QueueInv, Early,
        callerVars, objVars, queueVars, threadVars
<1>1. ASSUME NEW c \in Cmds, Caller(c) PROVE QueueInv'
  <2>1. CASE Issue(c)
    BY <1>1, <2>1 DEF Issue
  <2>2. CASE EnqueueRefuse(c)
    BY <1>1, <2>2 DEF EnqueueRefuse
  <2>3. CASE EnqueueAccept(c)
    BY <1>1, <2>3 DEF EnqueueAccept
  <2>4. CASE EnqueueInsert(c)
    <3>1. obj[c] = "live"
      BY <1>1, <2>4, Zenon DEF EnqueueInsert, SctxInv, SctxOk
    <3>2. c # pcmd
      BY <1>1, <2>4, CmdsAssumption DEF EnqueueInsert, HandInv
    <3>3. \A i \in 1..Len(cmd_queue) : cmd_queue[i] # c
      BY <1>1, <2>4, Zenon DEF EnqueueInsert
    <3>. QED
      BY <1>1, <2>4, <3>1, <3>2, <3>3, AppendFacts DEF EnqueueInsert
  <2>5. CASE EnqueueUp(c)
    BY <1>1, <2>5 DEF EnqueueUp
  <2>6. CASE WaitDone(c)
    BY <1>1, <2>6 DEF WaitDone
  <2>7. CASE WaitTimeout(c)
    BY <1>1, <2>7 DEF WaitTimeout
  <2>8. CASE WaiterLock(c)
    BY <1>1, <2>8 DEF WaiterLock
  <2>9. CASE WaiterReturn(c)
    BY <1>1, <2>9 DEF WaiterReturn
  <2>10. CASE WaiterCheck(c)
    BY <1>1, <2>10 DEF WaiterCheck
  <2>11. CASE WaiterInterrupted(c)
    BY <1>1, <2>11 DEF WaiterInterrupted
  <2>12. CASE WaiterClear(c)
    BY <1>1, <2>12 DEF WaiterClear
  <2>. HIDE DEF QueueInv
  <2>. QED
    BY <1>1, <2>1, <2>2, <2>3, <2>4, <2>5, <2>6, <2>7, <2>8, <2>9, <2>10,
       <2>11, <2>12, Zenon
    DEF Caller
<1>2. CASE Thread
  <2>1. CASE ThreadDequeue \/ ThreadDrain
    <3>1. CASE cmd_queue = <<>>
      BY <2>1, <3>1 DEF ThreadDequeue, ThreadDrain
    <3>2. CASE cmd_queue # <<>>
      <4>1. /\ cmd_queue' = Tail(cmd_queue)
            /\ pcmd' = cmd_queue[1]
            /\ UNCHANGED <<obj, pc>>
        BY <2>1, <3>2, TailFacts, Zenon DEF ThreadDequeue, ThreadDrain
      <4>2. /\ Len(cmd_queue) \in Nat \ {0}
            /\ Len(Tail(cmd_queue)) = Len(cmd_queue) - 1
            /\ \A i \in 1..Len(cmd_queue) - 1 :
                  Tail(cmd_queue)[i] = cmd_queue[i + 1]
        BY <3>2, TailFacts
      <4>. QED
        BY <4>1, <4>2
    <3>. QED
      BY <3>1, <3>2, Zenon
  <2>2. CASE ThreadEnqHead
    <3>1. pcmd \in Cmds /\ obj[pcmd] = "live" /\ pc[pcmd] \notin Early
      BY <2>2, Zenon DEF ThreadEnqHead, HandInv, InHand
    <3>2. /\ cmd_queue' = <<pcmd>> \o cmd_queue
          /\ pcmd' = NoCmd
          /\ UNCHANGED <<obj, pc>>
      BY <2>2, Zenon DEF ThreadEnqHead
    <3>3. /\ Len(<<pcmd>> \o cmd_queue) = Len(cmd_queue) + 1
          /\ (<<pcmd>> \o cmd_queue)[1] = pcmd
          /\ \A i \in 2..Len(cmd_queue) + 1 :
                (<<pcmd>> \o cmd_queue)[i] = cmd_queue[i - 1]
      BY <3>1, ConsFacts
    <3>4. \A i \in 1..Len(cmd_queue) + 1 :
             (<<pcmd>> \o cmd_queue)[i] \in Cmds
             /\ (i = 1 \/ (<<pcmd>> \o cmd_queue)[i] # pcmd)
      BY <3>1, <3>3
    <3>5. \A i \in 1..Len(cmd_queue') :
             /\ obj'[cmd_queue'[i]] = "live"
             /\ pc'[cmd_queue'[i]] \notin Early
             /\ cmd_queue'[i] # pcmd'
      BY <3>1, <3>2, <3>3, <3>4, CmdsAssumption
    <3>6. ASSUME NEW i \in 1..Len(cmd_queue) + 1,
                 NEW j \in 1..Len(cmd_queue) + 1,
                 (<<pcmd>> \o cmd_queue)[i] = (<<pcmd>> \o cmd_queue)[j]
          PROVE  i = j
      <4>1. CASE i = 1 \/ j = 1
        BY <3>3, <3>4, <3>6, <4>1
      <4>2. CASE i # 1 /\ j # 1
        <5>1. /\ i - 1 \in 1..Len(cmd_queue) /\ j - 1 \in 1..Len(cmd_queue)
              /\ cmd_queue[i - 1] = cmd_queue[j - 1]
          BY <3>3, <3>6, <4>2
        <5>2. i - 1 = j - 1
          BY <5>1, Zenon
        <5>. QED
          BY <5>2
      <4>. QED
        BY <4>1, <4>2, Zenon
    <3>. QED
      BY <3>2, <3>3, <3>5, <3>6, Zenon
  <2>3. CASE ThreadFree
    BY <2>3, CmdsAssumption DEF ThreadFree, HandInv
  <2>. QED
    BY <1>2, <2>1, <2>2, <2>3, ThreadFrame, Zenon
<1>3. CASE Control
    BY <1>3, ControlFrame, Zenon
<1>4. CASE Environment
    BY <1>4, EnvironmentFrame, Zenon
<1>5. CASE UNCHANGED vars
    BY <1>5 DEF vars
<1>. HIDE DEF QueueInv
<1>. QED
    BY <1>1, <1>2, <1>3, <1>4, <1>5, Zenon DEF Next

\* The object in hand stays live, and is answered in order.
LEMMA HandInvNext == IInv /\ [Next]_vars => HandInv'
<1>. SUFFICES ASSUME IInv, [Next]_vars PROVE HandInv'
    BY Zenon
<1>0. /\ QueueInv /\ HandInv /\ MutexInv /\ RunInv
      /\ QueueType /\ ObjType /\ CallerType /\ pcmd \in Cmds \cup {NoCmd}
    BY Zenon DEF IInv, TypeOK, ThreadType
<1>. USE <1>0, CmdsAssumption
    DEF ObjType, CallerType, HandInv, InHand, Answering, Early, callerVars,
        objVars, threadVars, Goto
<1>1. ASSUME NEW c \in Cmds, Caller(c) PROVE HandInv'
  <2>1. CASE Issue(c)
    BY <1>1, <2>1, Zenon DEF Issue
  <2>2. CASE EnqueueRefuse(c)
    BY <1>1, <2>2, Zenon DEF EnqueueRefuse
  <2>3. CASE EnqueueAccept(c)
    BY <1>1, <2>3, Zenon DEF EnqueueAccept
  <2>4. CASE EnqueueInsert(c)
    BY <1>1, <2>4, Zenon DEF EnqueueInsert
  <2>5. CASE EnqueueUp(c)
    BY <1>1, <2>5 DEF EnqueueUp
  <2>6. CASE WaitDone(c)
    BY <1>1, <2>6, Zenon DEF WaitDone
  <2>7. CASE WaitTimeout(c)
    BY <1>1, <2>7, Zenon DEF WaitTimeout
  <2>8. CASE WaiterLock(c)
    BY <1>1, <2>8, Zenon DEF WaiterLock
  <2>9. CASE WaiterCheck(c)
    BY <1>1, <2>9, Zenon DEF WaiterCheck
  <2>10. CASE WaiterReturn(c)
    BY <1>1, <2>10, Zenon DEF WaiterReturn
  <2>11. CASE WaiterInterrupted(c)
    BY <1>1, <2>11, Zenon DEF WaiterInterrupted
  <2>12. CASE WaiterClear(c)
    <3>1. NoSignal => tpc \notin Critical
      BY <1>1, <2>12, ActorsAssumption, Zenon DEF WaiterClear, MutexInv
    <3>. QED
      BY <1>1, <2>12, <3>1, Zenon DEF WaiterClear, Critical
  <2>. HIDE DEF HandInv
  <2>. QED
    BY <1>1, <2>1, <2>2, <2>3, <2>4, <2>5, <2>6, <2>7, <2>8, <2>9, <2>10,
       <2>11, <2>12, Zenon
    DEF Caller
<1>2. CASE Thread
  <2>1. CASE ThreadStart
    BY <2>1, Zenon DEF ThreadStart
  <2>2. CASE ThreadDown
    BY <2>2, Zenon DEF ThreadDown
  <2>3. CASE ThreadEvent
    BY <2>3, Zenon DEF ThreadEvent
  <2>4. CASE ThreadOnce
    BY <2>4, Zenon DEF ThreadOnce
  <2>5. CASE ThreadDequeue \/ ThreadDrain
    <3>1. CASE cmd_queue = <<>>
      BY <2>5, <3>1, Zenon DEF ThreadDequeue, ThreadDrain
    <3>2. CASE cmd_queue # <<>>
      <4>1. pcmd' = cmd_queue[1] /\ 1 \in 1..Len(cmd_queue) /\ pcmd' \in Cmds
        <5>1. /\ Len(cmd_queue) \in Nat \ {0}
              /\ Head(cmd_queue) = cmd_queue[1]
              /\ Head(cmd_queue) \in Cmds
          BY <3>2, TailFacts, Zenon DEF QueueType
        <5>. QED
          BY <2>5, <3>2, <5>1 DEF ThreadDequeue, ThreadDrain
      <4>2. obj[pcmd'] = "live" /\ pc[pcmd'] \notin Early
        BY <4>1, Zenon DEF QueueInv
      <4>. QED
        BY <2>5, <3>2, <4>1, <4>2, Zenon DEF ThreadDequeue, ThreadDrain
    <3>. QED
      BY <3>1, <3>2, Zenon
  <2>6. CASE ThreadIdle
    BY <2>6, Zenon DEF ThreadIdle
  <2>7. CASE ThreadFilter
    BY <2>7, Zenon DEF ThreadFilter
  <2>8. CASE \E ok \in BOOLEAN : ThreadAlive(ok)
    BY <2>8, Zenon DEF ThreadAlive
  <2>9. CASE ThreadEnqHead
    BY <2>9, Zenon DEF ThreadEnqHead
  <2>10. CASE \E r \in {"SUCCESS", "REJECTED"} : ThreadExec(r)
    BY <2>10, Zenon DEF ThreadExec
  <2>11. CASE ThreadLock
    BY <2>11, Zenon DEF ThreadLock
  <2>12. CASE ThreadComplete
    BY <2>12, Zenon DEF ThreadComplete
  <2>13. CASE ThreadNull
    BY <2>13, Zenon DEF ThreadNull
  <2>14. CASE ThreadUnlock
    BY <2>14, Zenon DEF ThreadUnlock
  <2>15. CASE ThreadFree
    BY <2>15, Zenon DEF ThreadFree
  <2>16. CASE ThreadStop
    BY <2>16, Zenon DEF ThreadStop
  <2>17. CASE ThreadStopFlag
    BY <2>17, Zenon DEF ThreadStopFlag
  <2>18. CASE ThreadWaitStop
    BY <2>18, Zenon DEF ThreadWaitStop
  <2>19. CASE ThreadCheck
    BY <2>19, Zenon DEF ThreadCheck
  <2>20. CASE ThreadNeverRuns
    BY <2>20, Zenon DEF ThreadNeverRuns
  <2>21. CASE ThreadInterrupted
    BY <2>21, Zenon DEF ThreadInterrupted
  <2>22. CASE ThreadStatus
    BY <2>22, Zenon DEF ThreadStatus, DoneStatus
  <2>. HIDE DEF HandInv
  <2>. QED
    BY <1>2, <2>1, <2>2, <2>3, <2>4, <2>5, <2>6, <2>7, <2>8, <2>9, <2>10,
       <2>11, <2>12, <2>13, <2>14, <2>15, <2>16, <2>17, <2>18, <2>19, <2>20,
       <2>21, <2>22, Zenon
    DEF Thread
<1>3. CASE Control
  <2>1. CASE StartThread
    BY <2>1, Zenon DEF StartThread, RunInv
  <2>2. CASE Join
    BY <2>2, Zenon DEF Join, RunInv
  <2>. QED
    BY <1>3, <2>1, <2>2, ControlFrame, Zenon
<1>4. CASE Environment
  <2>1. CASE ThreadSignal
    BY <2>1, Zenon DEF ThreadSignal
  <2>. QED
    BY <1>4, <2>1, EnvironmentFrame, Zenon
<1>5. CASE UNCHANGED vars
    BY <1>5, Zenon DEF vars
<1>. HIDE DEF HandInv
<1>. QED
    BY <1>1, <1>2, <1>3, <1>4, <1>5, Zenon DEF Next

\* Who is in a critical section, and who holds sctx_mutex.
LEMMA MutexInvNext == IInv /\ [Next]_vars => MutexInv'
<1>. SUFFICES ASSUME IInv, [Next]_vars PROVE MutexInv'
    BY Zenon
<1>0. MutexInv /\ RunInv /\ pc \in [Cmds -> CallerPC]
    BY Zenon DEF IInv, TypeOK, CallerType
<1>. USE <1>0, ActorsAssumption
    DEF MutexInv, Critical, callerVars, threadVars, Goto
<1>1. ASSUME NEW c \in Cmds, Caller(c) PROVE MutexInv'
  <2>1. CASE Issue(c)
    BY <1>1, <2>1, Zenon DEF Issue
  <2>2. CASE EnqueueRefuse(c)
    BY <1>1, <2>2, Zenon DEF EnqueueRefuse
  <2>3. CASE EnqueueAccept(c)
    BY <1>1, <2>3, Zenon DEF EnqueueAccept
  <2>4. CASE EnqueueInsert(c)
    BY <1>1, <2>4, Zenon DEF EnqueueInsert
  <2>5. CASE EnqueueUp(c)
    <3>1. pc[c] = "up" /\ UNCHANGED <<sctx_mutex, tpc>>
      BY <2>5, Zenon DEF EnqueueUp
    <3>2. CASE pc' = [pc EXCEPT ![c] = "wait"]
      BY <1>1, <3>1, <3>2, Zenon
    <3>3. CASE pc' = [pc EXCEPT ![c] = "returned"]
      BY <1>1, <3>1, <3>3, Zenon
    <3>. QED
      BY <2>5, <3>2, <3>3, Zenon DEF EnqueueUp
  <2>6. CASE WaitDone(c)
    BY <1>1, <2>6, Zenon DEF WaitDone
  <2>7. CASE WaitTimeout(c)
    BY <1>1, <2>7, Zenon DEF WaitTimeout
  <2>8. CASE WaiterLock(c)
    BY <1>1, <2>8, Zenon DEF WaiterLock
  <2>9. CASE WaiterCheck(c)
    BY <1>1, <2>9, Zenon DEF WaiterCheck
  <2>10. CASE WaiterReturn(c)
    BY <1>1, <2>10, Zenon DEF WaiterReturn
  <2>11. CASE WaiterInterrupted(c)
    BY <1>1, <2>11, Zenon DEF WaiterInterrupted, NoSignal
  <2>12. CASE WaiterClear(c)
    BY <1>1, <2>12, Zenon DEF WaiterClear
  <2>. HIDE DEF MutexInv
  <2>. QED
    BY <1>1, <2>1, <2>2, <2>3, <2>4, <2>5, <2>6, <2>7, <2>8, <2>9, <2>10,
       <2>11, <2>12, Zenon
    DEF Caller
<1>2. CASE Thread
  <2>1. CASE ThreadStart
    BY <2>1, Zenon DEF ThreadStart
  <2>2. CASE ThreadDown
    BY <2>2, Zenon DEF ThreadDown
  <2>3. CASE ThreadEvent
    BY <2>3, Zenon DEF ThreadEvent
  <2>4. CASE ThreadOnce
    BY <2>4, Zenon DEF ThreadOnce
  <2>5. CASE ThreadDequeue
    BY <2>5, Zenon DEF ThreadDequeue
  <2>6. CASE ThreadIdle
    BY <2>6, Zenon DEF ThreadIdle
  <2>7. CASE ThreadFilter
    BY <2>7, Zenon DEF ThreadFilter
  <2>8. CASE \E ok \in BOOLEAN : ThreadAlive(ok)
    BY <2>8, Zenon DEF ThreadAlive
  <2>9. CASE ThreadEnqHead
    BY <2>9, Zenon DEF ThreadEnqHead
  <2>10. CASE \E r \in {"SUCCESS", "REJECTED"} : ThreadExec(r)
    BY <2>10, Zenon DEF ThreadExec
  <2>11. CASE ThreadLock
    BY <2>11, Zenon DEF ThreadLock
  <2>12. CASE ThreadCheck
    BY <2>12, Zenon DEF ThreadCheck
  <2>13. CASE ThreadComplete
    BY <2>13, Zenon DEF ThreadComplete
  <2>14. CASE ThreadNull
    BY <2>14, Zenon DEF ThreadNull
  <2>15. CASE ThreadUnlock
    BY <2>15, Zenon DEF ThreadUnlock
  <2>16. CASE ThreadFree
    BY <2>16, Zenon DEF ThreadFree
  <2>17. CASE ThreadStop
    BY <2>17, Zenon DEF ThreadStop
  <2>18. CASE ThreadStopFlag
    BY <2>18, Zenon DEF ThreadStopFlag
  <2>19. CASE ThreadDrain
    BY <2>19, Zenon DEF ThreadDrain
  <2>20. CASE ThreadWaitStop
    BY <2>20, Zenon DEF ThreadWaitStop
  <2>21. CASE ThreadNeverRuns
    BY <2>21, Zenon DEF ThreadNeverRuns
  <2>22. CASE ThreadInterrupted
    BY <2>22, Zenon DEF ThreadInterrupted, NoSignal
  <2>23. CASE ThreadStatus
    BY <2>23, Zenon DEF ThreadStatus
  <2>. HIDE DEF MutexInv
  <2>. QED
    BY <1>2, <2>1, <2>2, <2>3, <2>4, <2>5, <2>6, <2>7, <2>8, <2>9, <2>10,
       <2>11, <2>12, <2>13, <2>14, <2>15, <2>16, <2>17, <2>18, <2>19, <2>20,
       <2>21, <2>22, <2>23, Zenon
    DEF Thread
<1>3. CASE Control
  <2>1. CASE StartThread
    BY <2>1, Zenon DEF StartThread, RunInv
  <2>2. CASE Join
    BY <2>2, Zenon DEF Join, RunInv
  <2>. QED
    BY <1>3, <2>1, <2>2, ControlFrame, Zenon
<1>4. CASE Environment
  <2>1. CASE ThreadSignal
    BY <2>1, Zenon DEF ThreadSignal
  <2>. QED
    BY <1>4, <2>1, EnvironmentFrame, Zenon
<1>5. CASE UNCHANGED vars
    BY <1>5, Zenon DEF vars
<1>. HIDE DEF MutexInv
<1>. QED
    BY <1>1, <1>2, <1>3, <1>4, <1>5, Zenon DEF Next

\* The agreement of call, submit_ctx and pointer: the waiter that timed out
\* and the thread that answers exclude each other by sctx_mutex.
LEMMA SctxInvNext == IInv /\ [Next]_vars => SctxInv'
<1>. SUFFICES ASSUME IInv, [Next]_vars, NEW d \in Cmds PROVE SctxOk(d)'
    BY Zenon DEF SctxInv
<1>0. /\ HandInv /\ MutexInv /\ AnswerInv
      /\ SctxOk(d)
      /\ obj \in [Cmds -> {"none", "live", "freed"}]
      /\ obj_sctx \in [Cmds -> BOOLEAN]
      /\ pc \in [Cmds -> CallerPC]
      /\ status \in [Cmds -> {"SUBMITTED", "SUCCESS", "CMD_ERROR", "CMD_DROP"}]
      /\ pcmd \in Cmds \cup {NoCmd}
    BY Zenon DEF IInv, TypeOK, ObjType, CallerType, ThreadType, SctxInv
<1>. USE <1>0 DEF Early, callerVars, objVars
<1>1. ASSUME NEW c \in Cmds, Caller(c) PROVE SctxOk(d)'
  <2>1. CASE Issue(c)
    BY <1>1, <2>1, Zenon DEF Issue, SctxOk
  <2>2. CASE EnqueueRefuse(c)
    BY <1>1, <2>2, Zenon DEF EnqueueRefuse, SctxOk
  <2>3. CASE EnqueueAccept(c)
    BY <1>1, <2>3, Zenon DEF EnqueueAccept, SctxOk
  <2>4. CASE EnqueueInsert(c)
    BY <1>1, <2>4, Zenon DEF EnqueueInsert, SctxOk
  <2>5. CASE EnqueueUp(c)
    BY <1>1, <2>5 DEF EnqueueUp, SctxOk
  <2>6. CASE WaitDone(c)
    BY <1>1, <2>6, Zenon DEF WaitDone, SctxOk
  <2>7. CASE WaitTimeout(c)
    BY <1>1, <2>7, Zenon DEF WaitTimeout, SctxOk
  <2>8. CASE WaiterLock(c)
    BY <1>1, <2>8, Zenon DEF WaiterLock, SctxOk
  <2>9. CASE WaiterCheck(c)
    <3>1. NoSignal => tpc \notin Critical
      BY <1>1, <2>9, ActorsAssumption, Zenon DEF WaiterCheck, MutexInv
    <3>2. NoSignal /\ status[c] # "SUBMITTED" => ~obj_sctx[c]
      BY <1>1, <3>1, Zenon DEF AnswerInv, Critical
    <3>. QED
      BY <1>1, <2>9, <3>2, Zenon DEF WaiterCheck, SctxOk
  <2>10. CASE WaiterReturn(c)
    BY <1>1, <2>10, Zenon DEF WaiterReturn, SctxOk
  <2>11. CASE WaiterInterrupted(c)
    BY <1>1, <2>11, Zenon DEF WaiterInterrupted, SctxOk
  <2>12. CASE WaiterClear(c)
    BY <1>1, <2>12, Zenon DEF WaiterClear, SctxOk
  <2>. QED
    BY <1>1, <2>1, <2>2, <2>3, <2>4, <2>5, <2>6, <2>7, <2>8, <2>9, <2>10,
       <2>11, <2>12, Zenon
    DEF Caller
<1>2. CASE Thread
  <2>1. CASE ThreadStatus
    <3>1. pcmd \in Cmds /\ pc[pcmd] \notin Early
      BY <2>1, Zenon DEF ThreadStatus, HandInv, Answering
    <3>2. NoSignal => pc[pcmd] # "clear"
      BY <2>1, <3>1, ActorsAssumption, Zenon DEF ThreadStatus, MutexInv, Critical
    <3>3. status' = [status EXCEPT ![pcmd] = DoneStatus]
      BY <2>1, Zenon DEF ThreadStatus
    <3>4. DoneStatus # "SUBMITTED" /\ UNCHANGED <<pc, obj, obj_sctx>>
      BY <2>1, Zenon DEF ThreadStatus, DoneStatus
    <3>. QED
      BY <3>1, <3>2, <3>3, <3>4, Zenon DEF SctxOk
  <2>2. CASE ThreadNull
    <3>1. /\ pcmd \in Cmds
          /\ pc[pcmd] \notin Early
          /\ status[pcmd] # "SUBMITTED"
      BY <2>2, Zenon DEF ThreadNull, HandInv, Answering
    <3>. QED
      BY <2>2, <3>1, Zenon DEF ThreadNull, SctxOk
  <2>3. CASE ThreadFree
    <3>1. pcmd \in Cmds /\ pc[pcmd] \notin Early /\ ~obj_sctx[pcmd]
      BY <2>3, Zenon DEF ThreadFree, HandInv, Answering
    <3>. QED
      BY <2>3, <3>1, Zenon DEF ThreadFree, SctxOk
  <2>4. CASE ~ThreadStatus /\ ~ThreadNull /\ ~ThreadFree
    <3>1. UNCHANGED <<pc, status, obj, obj_sctx>>
      BY <1>2, <2>4, ThreadFrame, Zenon
    <3>. QED
      BY <3>1, Zenon DEF SctxOk
  <2>. QED
    BY <2>1, <2>2, <2>3, <2>4, Zenon
<1>3. CASE Control \/ Environment \/ UNCHANGED vars
  <2>1. UNCHANGED <<callerVars, objVars>>
    BY <1>3, ControlFrame, EnvironmentFrame, Zenon DEF vars
  <2>. QED
    BY <2>1, Zenon DEF SctxOk
<1>. QED
    BY <1>1, <1>2, <1>3, Zenon DEF Next

\* Only rtw_sctx_done_err answers, and it clears the pointer before the
\* thread goes on.
LEMMA AnswerInvNext == IInv /\ [Next]_vars => AnswerInv'
<1>. SUFFICES ASSUME IInv, [Next]_vars PROVE AnswerInv'
    BY Zenon
<1>0. /\ HandInv /\ SctxInv /\ AnswerInv /\ RunInv
      /\ obj_sctx \in [Cmds -> BOOLEAN]
      /\ status \in [Cmds -> {"SUBMITTED", "SUCCESS", "CMD_ERROR", "CMD_DROP"}]
      /\ pcmd \in Cmds \cup {NoCmd}
    BY Zenon DEF IInv, TypeOK, ObjType, CallerType, ThreadType
<1>. USE <1>0 DEF AnswerInv, callerVars, objVars, threadVars
<1>1. ASSUME NEW c \in Cmds, Caller(c) PROVE AnswerInv'
  <2>1. CASE Issue(c)
    <3>1. status[c] = "SUBMITTED"
      BY <1>1, <2>1, Zenon DEF Issue, SctxInv, SctxOk, Early
    <3>. QED
      BY <1>1, <2>1, <3>1, Zenon DEF Issue
  <2>2. CASE WaiterClear(c)
    BY <1>1, <2>2, Zenon DEF WaiterClear
  <2>3. CASE ~Issue(c) /\ ~WaiterClear(c)
    <3>1. UNCHANGED <<tpc, pcmd, status, obj_sctx>>
      BY <1>1, <2>3, CallerFrame, Zenon
    <3>. QED
      BY <3>1, Zenon
  <2>. QED
    BY <2>1, <2>2, <2>3, Zenon
<1>2. CASE Thread
  <2>1. CASE ThreadStatus
    BY <2>1, Zenon DEF ThreadStatus, Goto
  <2>2. CASE ThreadComplete
    BY <2>2, Zenon DEF ThreadComplete, Goto
  <2>3. CASE ThreadNull
    BY <2>3, Zenon DEF ThreadNull
  <2>4. CASE ~ThreadStatus /\ ~ThreadComplete /\ ~ThreadNull
    <3>1. tpc \notin {"complete", "null"} /\ UNCHANGED <<status, obj_sctx>>
      BY <1>2, <2>4, ThreadFrame, Zenon
    <3>. QED
      BY <3>1, Zenon
  <2>. QED
    BY <2>1, <2>2, <2>3, <2>4, Zenon
<1>3. CASE Control
  <2>1. UNCHANGED <<pcmd, status, obj_sctx>>
    BY <1>3, ControlFrame, Zenon
  <2>2. tpc \in {"complete", "null"} => tpc' = tpc
    BY <1>3, ControlFrame, Zenon DEF StartThread, Join, RunInv
  <2>. QED
    BY <2>1, <2>2, Zenon
<1>4. CASE Environment
  <2>1. UNCHANGED <<pcmd, status, obj_sctx>>
    BY <1>4, EnvironmentFrame, Zenon
  <2>2. tpc \in {"complete", "null"} => tpc' = tpc
    BY <1>4, EnvironmentFrame, Zenon DEF ThreadSignal
  <2>. QED
    BY <2>1, <2>2, Zenon
<1>5. CASE UNCHANGED vars
    BY <1>5, Zenon DEF vars
<1>. QED
    BY <1>1, <1>2, <1>3, <1>4, <1>5, Zenon DEF Next

\* cmdthd_running is set by a thread that starts and cleared by the same
\* thread before it can be joined.
LEMMA RunInvNext == IInv /\ [Next]_vars => RunInv'
<1>. SUFFICES ASSUME IInv, [Next]_vars PROVE RunInv'
    BY Zenon
<1>0. RunInv /\ ThreadType /\ CtlType
    BY Zenon DEF IInv, TypeOK
<1>. USE <1>0
    DEF RunInv, ThreadType, CtlType, threadVars, runVars, kthreadVars, ctlVars,
        Goto
<1>1. ASSUME NEW c \in Cmds, Caller(c) PROVE RunInv'
  <2>1. UNCHANGED <<threadVars, runVars, kthreadVars, ctlVars>>
    BY <1>1, CallerFrame, Zenon
  <2>. QED
    BY <2>1, Zenon
<1>2. CASE Thread
  <2>1. CASE ThreadStart
    BY <2>1, Zenon DEF ThreadStart
  <2>2. CASE ThreadDown
    BY <2>2, Zenon DEF ThreadDown
  <2>3. CASE ThreadEvent
    BY <2>3, Zenon DEF ThreadEvent
  <2>4. CASE ThreadOnce
    BY <2>4, Zenon DEF ThreadOnce
  <2>5. CASE ThreadDequeue
    BY <2>5, Zenon DEF ThreadDequeue
  <2>6. CASE ThreadIdle
    BY <2>6, Zenon DEF ThreadIdle
  <2>7. CASE ThreadFilter
    BY <2>7, Zenon DEF ThreadFilter
  <2>8. CASE \E ok \in BOOLEAN : ThreadAlive(ok)
    BY <2>8 DEF ThreadAlive
  <2>9. CASE ThreadEnqHead
    BY <2>9, Zenon DEF ThreadEnqHead
  <2>10. CASE \E r \in {"SUCCESS", "REJECTED"} : ThreadExec(r)
    BY <2>10 DEF ThreadExec
  <2>11. CASE ThreadLock
    BY <2>11, Zenon DEF ThreadLock
  <2>12. CASE ThreadCheck
    BY <2>12, Zenon DEF ThreadCheck
  <2>13. CASE ThreadComplete
    BY <2>13, Zenon DEF ThreadComplete
  <2>14. CASE ThreadNull
    BY <2>14, Zenon DEF ThreadNull
  <2>15. CASE ThreadUnlock
    BY <2>15, Zenon DEF ThreadUnlock
  <2>16. CASE ThreadFree
    BY <2>16, Zenon DEF ThreadFree
  <2>17. CASE ThreadStop
    BY <2>17, Zenon DEF ThreadStop
  <2>18. CASE ThreadStopFlag
    BY <2>18, Zenon DEF ThreadStopFlag
  <2>19. CASE ThreadDrain
    BY <2>19, Zenon DEF ThreadDrain
  <2>20. CASE ThreadWaitStop
    BY <2>20, Zenon DEF ThreadWaitStop
  <2>21. CASE ThreadNeverRuns
    BY <2>21, Zenon DEF ThreadNeverRuns
  <2>22. CASE ThreadInterrupted
    BY <2>22, Zenon DEF ThreadInterrupted
  <2>23. CASE ThreadStatus
    BY <2>23, Zenon DEF ThreadStatus
  <2>. HIDE DEF RunInv, ThreadType, CtlType
  <2>. QED
    BY <1>2, <2>1, <2>2, <2>3, <2>4, <2>5, <2>6, <2>7, <2>8, <2>9, <2>10,
       <2>11, <2>12, <2>13, <2>14, <2>15, <2>16, <2>17, <2>18, <2>19, <2>20,
       <2>21, <2>22, <2>23, Zenon
    DEF Thread
<1>3. CASE Control
  <2>1. CASE Open
    BY <2>1, Zenon DEF Open
  <2>2. CASE StartThread
    BY <2>2 DEF StartThread
  <2>3. CASE WaitStart
    BY <2>3, Zenon DEF WaitStart
  <2>4. CASE HalInit
    BY <2>4, Zenon DEF HalInit
  <2>5. CASE Unload
    BY <2>5, Zenon DEF Unload
  <2>6. CASE Remove
    BY <2>6, Zenon DEF Remove
  <2>7. CASE RemoveStop
    BY <2>7, Zenon DEF RemoveStop
  <2>8. CASE StopUp
    BY <2>8, Zenon DEF StopUp
  <2>9. CASE KthreadStop
    BY <2>9, Zenon DEF KthreadStop
  <2>10. CASE Join
    BY <2>10, Zenon DEF Join
  <2>11. CASE UnloadRest
    BY <2>11, Zenon DEF UnloadRest
  <2>12. CASE WaitStartInterrupted
    BY <2>12, Zenon DEF WaitStartInterrupted
  <2>. HIDE DEF RunInv, ThreadType, CtlType
  <2>. QED
    BY <1>3, <2>1, <2>2, <2>3, <2>4, <2>5, <2>6, <2>7, <2>8, <2>9, <2>10,
       <2>11, <2>12, Zenon
    DEF Control
<1>4. CASE Environment
  <2>1. CASE ThreadSignal
    BY <2>1, Zenon DEF ThreadSignal
  <2>2. CASE SurpriseRemove
    BY <2>2, Zenon DEF SurpriseRemove
  <2>3. CASE IpsDown
    BY <2>3, Zenon DEF IpsDown
  <2>4. CASE IpsUp
    BY <2>4, Zenon DEF IpsUp
  <2>. HIDE DEF RunInv, ThreadType, CtlType
  <2>. QED
    BY <1>4, <2>1, <2>2, <2>3, <2>4, Zenon
    DEF Environment
<1>5. CASE UNCHANGED vars
    BY <1>5, Zenon DEF vars
<1>. HIDE DEF RunInv, ThreadType, CtlType
<1>. QED
    BY <1>1, <1>2, <1>3, <1>4, <1>5, Zenon DEF Next

\* Every insertion is followed by an up, and the thread looks at the queue
\* between taking a count and sleeping again.
LEMMA WakeInvNext == IInv /\ [Next]_vars => WakeInv'
<1>. SUFFICES ASSUME IInv, [Next]_vars PROVE WakeInv'
    BY Zenon
<1>0. /\ HandInv /\ RunInv /\ WakeInv
      /\ QueueType /\ CallerType /\ ThreadType
      /\ res \in [Cmds -> {"SUCCESS", "REJECTED", "PARAMETERS_ERROR",
                           "DROPPED", "ENQ_HEAD"}]
    BY Zenon DEF IInv, TypeOK, ObjType
<1>. USE <1>0
    DEF QueueType, CallerType, WakeInv, callerVars, objVars, queueVars,
        threadVars, Goto
<1>1. ASSUME NEW c \in Cmds, Caller(c) PROVE WakeInv'
  <2>1. CASE Issue(c)
    BY <1>1, <2>1, Zenon DEF Issue
  <2>2. CASE EnqueueRefuse(c)
    BY <1>1, <2>2, Zenon DEF EnqueueRefuse
  <2>3. CASE EnqueueAccept(c)
    BY <1>1, <2>3, Zenon DEF EnqueueAccept
  <2>4. CASE EnqueueInsert(c)
    BY <1>1, <2>4, Zenon DEF EnqueueInsert
  <2>5. CASE EnqueueUp(c)
    BY <1>1, <2>5 DEF EnqueueUp
  <2>6. CASE WaitDone(c)
    BY <1>1, <2>6, Zenon DEF WaitDone
  <2>7. CASE WaitTimeout(c)
    BY <1>1, <2>7, Zenon DEF WaitTimeout
  <2>8. CASE WaiterLock(c)
    BY <1>1, <2>8, Zenon DEF WaiterLock
  <2>9. CASE WaiterCheck(c)
    BY <1>1, <2>9, Zenon DEF WaiterCheck
  <2>10. CASE WaiterReturn(c)
    BY <1>1, <2>10, Zenon DEF WaiterReturn
  <2>11. CASE WaiterInterrupted(c)
    BY <1>1, <2>11, Zenon DEF WaiterInterrupted
  <2>12. CASE WaiterClear(c)
    BY <1>1, <2>12, Zenon DEF WaiterClear
  <2>. HIDE DEF WakeInv, QueueType, CallerType
  <2>. QED
    BY <1>1, <2>1, <2>2, <2>3, <2>4, <2>5, <2>6, <2>7, <2>8, <2>9, <2>10,
       <2>11, <2>12, Zenon
    DEF Caller
<1>2. CASE Thread
  <2>1. CASE ThreadStart
    BY <2>1, Zenon DEF ThreadStart
  <2>2. CASE ThreadDown
    BY <2>2, Zenon DEF ThreadDown
  <2>3. CASE ThreadEvent
    BY <2>3, Zenon DEF ThreadEvent
  <2>4. CASE ThreadOnce
    BY <2>4, Zenon DEF ThreadOnce
  <2>5. CASE ThreadDequeue
    BY <2>5, Zenon DEF ThreadDequeue
  <2>6. CASE ThreadIdle
    BY <2>6, Zenon DEF ThreadIdle
  <2>7. CASE ThreadFilter
    BY <2>7, Zenon DEF ThreadFilter
  <2>8. CASE \E ok \in BOOLEAN : ThreadAlive(ok)
    BY <2>8, Zenon DEF ThreadAlive
  <2>9. CASE ThreadEnqHead
    <3>1. pcmd \in Cmds
      BY <2>9, Zenon DEF ThreadEnqHead, HandInv, InHand, ThreadType
    <3>2. cmd_queue' = <<pcmd>> \o cmd_queue /\ res'[pcmd] = "ENQ_HEAD"
      BY <2>9, <3>1, Zenon DEF ThreadEnqHead
    <3>3. Head(<<pcmd>> \o cmd_queue) = pcmd
      BY <3>1, ConsFacts
    <3>. QED
      BY <3>2, <3>3, Zenon
  <2>10. CASE \E r \in {"SUCCESS", "REJECTED"} : ThreadExec(r)
    BY <2>10, Zenon DEF ThreadExec
  <2>11. CASE ThreadLock
    BY <2>11, Zenon DEF ThreadLock
  <2>12. CASE ThreadCheck
    BY <2>12, Zenon DEF ThreadCheck
  <2>13. CASE ThreadComplete
    BY <2>13, Zenon DEF ThreadComplete
  <2>14. CASE ThreadNull
    BY <2>14, Zenon DEF ThreadNull
  <2>15. CASE ThreadUnlock
    BY <2>15, Zenon DEF ThreadUnlock
  <2>16. CASE ThreadFree
    BY <2>16, Zenon DEF ThreadFree
  <2>17. CASE ThreadStop
    BY <2>17, Zenon DEF ThreadStop
  <2>18. CASE ThreadStopFlag
    BY <2>18, Zenon DEF ThreadStopFlag
  <2>19. CASE ThreadDrain
    BY <2>19, Zenon DEF ThreadDrain
  <2>20. CASE ThreadWaitStop
    BY <2>20, Zenon DEF ThreadWaitStop
  <2>21. CASE ThreadNeverRuns
    BY <2>21, Zenon DEF ThreadNeverRuns
  <2>22. CASE ThreadInterrupted
    BY <2>22, Zenon DEF ThreadInterrupted
  <2>23. CASE ThreadStatus
    BY <2>23, Zenon DEF ThreadStatus
  <2>. HIDE DEF WakeInv, QueueType, CallerType
  <2>. QED
    BY <1>2, <2>1, <2>2, <2>3, <2>4, <2>5, <2>6, <2>7, <2>8, <2>9, <2>10,
       <2>11, <2>12, <2>13, <2>14, <2>15, <2>16, <2>17, <2>18, <2>19, <2>20,
       <2>21, <2>22, <2>23, Zenon
    DEF Thread
<1>3. CASE Control
  <2>1. CASE StartThread
    BY <2>1, Zenon DEF StartThread, RunInv
  <2>2. CASE StopUp
    BY <2>2 DEF StopUp, RunInv
  <2>3. CASE Join
    BY <2>3, Zenon DEF Join, RunInv
  <2>. QED
    BY <1>3, <2>1, <2>2, <2>3, ControlFrame, Zenon
<1>4. CASE Environment
  <2>1. CASE ThreadSignal
    BY <2>1, Zenon DEF ThreadSignal
  <2>2. CASE SurpriseRemove
    BY <2>2, Zenon DEF SurpriseRemove
  <2>3. CASE IpsDown
    BY <2>3, Zenon DEF IpsDown
  <2>4. CASE IpsUp
    BY <2>4, Zenon DEF IpsUp
  <2>. HIDE DEF WakeInv, QueueType, CallerType
  <2>. QED
    BY <1>4, <2>1, <2>2, <2>3, <2>4, Zenon
    DEF Environment
<1>5. CASE UNCHANGED vars
    BY <1>5, Zenon DEF vars
<1>. HIDE DEF WakeInv, QueueType, CallerType
<1>. QED
    BY <1>1, <1>2, <1>3, <1>4, <1>5, Zenon DEF Next

-----------------------------------------------------------------------------
(* The theorems.                                                           *)

\* The state after _rtw_init_cmd_priv satisfies the invariant.
LEMMA InitIInv == Init => IInv
<1>. SUFFICES ASSUME Init PROVE IInv
    BY Zenon
<1>. USE CmdsAssumption, ActorsAssumption, MaxOpenAssumption DEF Init
<1>1. TypeOK
  <2>1. QueueType /\ ObjType /\ CallerType
    BY DEF QueueType, ObjType, CallerType, CallerPC
  <2>2. ThreadType
    BY Zenon DEF ThreadType, ThreadPC
  <2>3. CtlType
    <3>1. opens \in 0..MaxOpen
      OBVIOUS
    <3>. QED
      BY <3>1, Zenon DEF CtlType, CtlPC
  <2>. QED
    BY <2>1, <2>2, <2>3, Zenon DEF TypeOK
<1>2. QueueInv /\ WakeInv
    BY DEF QueueInv, WakeInv
<1>3. HandInv /\ MutexInv /\ RunInv
    BY Zenon DEF HandInv, InHand, Answering, MutexInv, Critical, RunInv
<1>4. SctxInv /\ AnswerInv
    BY Zenon DEF SctxInv, SctxOk, Early, AnswerInv
<1>. QED
    BY <1>1, <1>2, <1>3, <1>4, Zenon DEF IInv

\* IInv holds in every reachable state: no step of a caller, of the thread,
\* of the open and stop paths or of the environment breaks it.
THEOREM Invariance == Spec => []IInv
<1>1. Init => IInv
    BY InitIInv, Zenon
<1>2. IInv /\ [Next]_vars => IInv'
  <2>. SUFFICES ASSUME IInv, [Next]_vars PROVE IInv'
    BY Zenon
  <2>1. TypeOK'
    BY QueueTypeNext, ObjTypeNext, CallerTypeNext, ThreadTypeNext,
       CtlTypeNext, Zenon DEF TypeOK
  <2>2. QueueInv' /\ HandInv' /\ MutexInv'
    BY QueueInvNext, HandInvNext, MutexInvNext, Zenon
  <2>3. SctxInv' /\ AnswerInv' /\ RunInv' /\ WakeInv'
    BY SctxInvNext, AnswerInvNext, RunInvNext, WakeInvNext, Zenon
  <2>. QED
    BY <2>1, <2>2, <2>3, Zenon DEF IInv
<1>. QED
    BY <1>1, <1>2, PTL DEF Spec

\* Type correctness of the command subsystem.
THEOREM TypeCorrect == Spec => []TypeOK
<1>1. IInv => TypeOK
    BY Zenon DEF IInv
<1>. QED
    BY <1>1, Invariance, PTL

\* Without signals, rtw_sctx_done_err never completes a submit_ctx whose
\* frame is gone, nor follows a pointer that became NULL under it.
THEOREM SctxSafe ==
    ASSUME NoSignal
    PROVE  Spec => []SctxFrameLive
<1>1. IInv => SctxFrameLive
    BY NoSignal, Zenon DEF IInv, SctxInv, SctxOk, HandInv, SctxFrameLive
<1>. QED
    BY <1>1, Invariance, PTL

\* Without signals, a waiter that timed out never clears the pointer in a
\* freed object.
THEOREM WaiterSafe ==
    ASSUME NoSignal
    PROVE  Spec => []WaiterObjLive
<1>1. IInv => WaiterObjLive
    BY NoSignal, Zenon DEF IInv, SctxInv, SctxOk, WaiterObjLive
<1>. QED
    BY <1>1, Invariance, PTL

\* No wake-up of the command thread is lost.
THEOREM WakeupSafe == Spec => []NoLostWakeup
<1>1. IInv => NoLostWakeup
    BY Zenon DEF IInv, WakeInv, NoLostWakeup
<1>. QED
    BY <1>1, Invariance, PTL

\* rtw_stop_cmd_thread leaves nothing of the thread behind.
THEOREM StopSafe == Spec => []StoppedClean
<1>1. IInv => StoppedClean
    BY Zenon DEF IInv, HandInv, InHand, Answering, MutexInv, Critical,
           RunInv, StoppedClean
<1>. QED
    BY <1>1, Invariance, PTL

-----------------------------------------------------------------------------
(* The refinement of CmdService.                                           *)

\* c is in the queue s.
In(s, c) == \E i \in 1..Len(s) : s[i] = c

\* What is in the queue after _rtw_enqueue_cmd at the tail, ...
LEMMA InAppend ==
    ASSUME NEW S, NEW s \in Seq(S), NEW e \in S, NEW c
    PROVE  In(Append(s, e), c) <=> In(s, c) \/ c = e
<1>1. /\ Len(Append(s, e)) = Len(s) + 1 /\ Len(s) \in Nat
      /\ \A i \in 1..Len(s) : Append(s, e)[i] = s[i]
      /\ Append(s, e)[Len(s) + 1] = e
    BY AppendFacts
<1>. QED
    BY <1>1 DEF In

\* ... at the head, ...
LEMMA InCons ==
    ASSUME NEW S, NEW s \in Seq(S), NEW e \in S, NEW c
    PROVE  In(<<e>> \o s, c) <=> In(s, c) \/ c = e
<1>. DEFINE t == <<e>> \o s
<1>1. /\ Len(t) = Len(s) + 1 /\ Len(s) \in Nat
      /\ t[1] = e /\ \A i \in 2..Len(s) + 1 : t[i] = s[i - 1]
    BY ConsFacts
<1>. HIDE DEF t
<1>2. \A i \in 1..Len(s) : t[i + 1] = s[i]
  <2>. SUFFICES ASSUME NEW i \in 1..Len(s) PROVE t[i + 1] = s[i]
    OBVIOUS
  <2>1. i + 1 \in 2..Len(s) + 1 /\ (i + 1) - 1 = i
    BY <1>1
  <2>. QED
    BY <1>1, <2>1, Zenon
<1>3. In(s, c) \/ c = e => In(t, c)
    BY <1>1, <1>2 DEF In
<1>4. In(t, c) => In(s, c) \/ c = e
    BY <1>1 DEF In
<1>. QED
    BY <1>3, <1>4, Zenon DEF t

\* ... and before _rtw_dequeue_cmd.
LEMMA InTail ==
    ASSUME NEW S, NEW s \in Seq(S), s # <<>>, NEW c
    PROVE  In(s, c) <=> In(Tail(s), c) \/ c = Head(s)
<1>. DEFINE t == Tail(s)
<1>1. /\ Len(s) \in Nat \ {0} /\ Len(t) = Len(s) - 1
      /\ \A i \in 1..Len(s) - 1 : t[i] = s[i + 1]
      /\ Head(s) = s[1]
    BY TailFacts
<1>. HIDE DEF t
<1>2. \A i \in 2..Len(s) : s[i] = t[i - 1]
  <2>. SUFFICES ASSUME NEW i \in 2..Len(s) PROVE s[i] = t[i - 1]
    OBVIOUS
  <2>1. i - 1 \in 1..Len(s) - 1 /\ (i - 1) + 1 = i
    BY <1>1
  <2>. QED
    BY <1>1, <2>1, Zenon
<1>3. In(t, c) \/ c = Head(s) => In(s, c)
    BY <1>1 DEF In
<1>4. In(s, c) => In(t, c) \/ c = Head(s)
    BY <1>1, <1>2 DEF In
<1>. QED
    BY <1>3, <1>4, Zenon DEF t

\* What becomes of each command, for the caller's part: a call that has
\* inserted its object finds it queued, in hand or freed, and has no result
\* before it returns.
CallInv ==
    \A c \in Cmds :
        /\ ret[c] = "none" <=> pc[c] # "returned"
        /\ pc[c] \notin Early =>
              In(cmd_queue, c) \/ pcmd = c \/ obj[c] = "freed"

\* For the thread's part: a handler runs once, on an object that is never
\* queued again, and SUCCESS is its result, never that of a drain.
OnceInv ==
    /\ \A c \in Cmds :
          /\ runs[c] # 0 => /\ pc[c] \notin Early /\ ~In(cmd_queue, c)
                            /\ pcmd = c => Answering
          /\ status[c] = "SUCCESS" => runs[c] # 0 /\ res[c] = "SUCCESS"
    /\ Answering /\ ~draining /\ res[pcmd] = "SUCCESS" => runs[pcmd] # 0
    /\ draining => Answering \/ tpc \in {"drain", "wait_stop", "exited", "none"}

ServInv == CallInv /\ OnceInv

\* A call comes to its result once, after its object has been inserted or
\* refused, and the object is freed by nobody before that but the thread.
LEMMA CallInvNext == IInv /\ ServInv /\ [Next]_vars => CallInv'
<1>. SUFFICES ASSUME IInv, ServInv, [Next]_vars PROVE CallInv'
    BY Zenon
<1>0. /\ CallInv /\ HandInv
      /\ QueueType /\ ObjType /\ CallerType /\ ThreadType
    BY Zenon DEF IInv, TypeOK, ServInv
<1>. USE <1>0 DEF QueueType, ObjType, CallerType, ThreadType, CallInv, Early,
        callerVars, objVars, queueVars, threadVars
<1>1. ASSUME NEW c \in Cmds, Caller(c) PROVE CallInv'
  <2>0. UNCHANGED pcmd
    BY <1>1, CallerFrame, Zenon
  <2>1. CASE Issue(c)
    BY <1>1, <2>0, <2>1 DEF Issue
  <2>2. CASE EnqueueRefuse(c)
    BY <1>1, <2>0, <2>2 DEF EnqueueRefuse
  <2>3. CASE EnqueueAccept(c)
    BY <1>1, <2>0, <2>3 DEF EnqueueAccept
  <2>4. CASE EnqueueInsert(c)
    <3>1. \A d \in Cmds : In(cmd_queue', d) <=> In(cmd_queue, d) \/ d = c
      BY <1>1, <2>4, InAppend, Zenon DEF EnqueueInsert
    <3>. QED
      BY <1>1, <2>0, <2>4, <3>1 DEF EnqueueInsert
  <2>5. CASE EnqueueUp(c)
    <3>1. CASE c \in SyncCmds
      BY <1>1, <2>0, <2>5, <3>1, ZenonT(40) DEF EnqueueUp
    <3>2. CASE c \notin SyncCmds
      BY <1>1, <2>0, <2>5, <3>2, ZenonT(40) DEF EnqueueUp
    <3>. QED
      BY <3>1, <3>2, Zenon
  <2>6. CASE WaitDone(c)
    BY <1>1, <2>0, <2>6 DEF WaitDone
  <2>7. CASE WaitTimeout(c)
    BY <1>1, <2>0, <2>7 DEF WaitTimeout
  <2>8. CASE WaiterLock(c)
    BY <1>1, <2>0, <2>8 DEF WaiterLock
  <2>9. CASE WaiterReturn(c)
    BY <1>1, <2>0, <2>9 DEF WaiterReturn
  <2>10. CASE WaiterCheck(c)
    BY <1>1, <2>0, <2>10 DEF WaiterCheck
  <2>11. CASE WaiterInterrupted(c)
    BY <1>1, <2>0, <2>11 DEF WaiterInterrupted
  <2>12. CASE WaiterClear(c)
    BY <1>1, <2>0, <2>12 DEF WaiterClear
  <2>. HIDE DEF CallInv
  <2>. QED
    BY <1>1, <2>1, <2>2, <2>3, <2>4, <2>5, <2>6, <2>7, <2>8, <2>9, <2>10,
       <2>11, <2>12, Zenon
    DEF Caller
<1>2. CASE Thread
  <2>0. UNCHANGED <<pc, ret>>
    BY <1>2, ThreadFrame, Zenon
  <2>1. CASE ThreadDequeue \/ ThreadDrain
    <3>1. CASE cmd_queue = <<>>
      BY <2>0, <2>1, <3>1, Zenon DEF ThreadDequeue, ThreadDrain
    <3>2. CASE cmd_queue # <<>>
      <4>1. /\ cmd_queue' = Tail(cmd_queue) /\ pcmd' = Head(cmd_queue)
            /\ UNCHANGED obj /\ tpc \in {"dequeue", "drain"}
        BY <2>1, <3>2, Zenon DEF ThreadDequeue, ThreadDrain
      <4>2. \A d \in Cmds : In(cmd_queue, d) <=> In(cmd_queue', d) \/ d = pcmd'
        BY <3>2, <4>1, InTail, Zenon
      <4>3. pcmd = NoCmd
        BY <4>1, Zenon DEF HandInv, InHand, Answering
      <4>. QED
        BY <2>0, <4>1, <4>2, <4>3, CmdsAssumption, Zenon
    <3>. QED
      BY <3>1, <3>2, Zenon
  <2>2. CASE ThreadEnqHead
    <3>1. pcmd \in Cmds
      BY <2>2, Zenon DEF ThreadEnqHead, HandInv, InHand
    <3>2. \A d \in Cmds : In(cmd_queue', d) <=> In(cmd_queue, d) \/ d = pcmd
      BY <2>2, <3>1, InCons, Zenon DEF ThreadEnqHead
    <3>. QED
      BY <2>0, <2>2, <3>2, Zenon DEF ThreadEnqHead
  <2>3. CASE ThreadFree
    <3>1. pcmd \in Cmds
      BY <2>3, Zenon DEF ThreadFree, HandInv, Answering
    <3>. QED
      BY <2>0, <2>3, <3>1 DEF ThreadFree
  <2>. QED
    BY <1>2, <2>0, <2>1, <2>2, <2>3, ThreadFrame, Zenon
<1>3. CASE Control
    BY <1>3, ControlFrame, Zenon
<1>4. CASE Environment
    BY <1>4, EnvironmentFrame, Zenon
<1>5. CASE UNCHANGED vars
    BY <1>5, Zenon DEF vars
<1>. HIDE DEF CallInv
<1>. QED
    BY <1>1, <1>2, <1>3, <1>4, <1>5, Zenon DEF Next

\* A step of the thread by which nothing but its place changes keeps a
\* command decided or undecided.
LEMMA OnceKeeps ==
    ASSUME OnceInv, Answering' <=> Answering,
           UNCHANGED <<pc, status, res, runs, cmd_queue, pcmd, draining>>,
           draining => (\/ Answering
                        \/ tpc \in {"drain", "wait_stop", "exited", "none"})'
    PROVE  OnceInv'
    BY Zenon DEF OnceInv

\* A handler runs once, and its result is what the status of the call says.
LEMMA OnceInvNext == IInv /\ ServInv /\ [Next]_vars => OnceInv'
<1>. SUFFICES ASSUME IInv, ServInv, [Next]_vars PROVE OnceInv'
    BY Zenon
<1>0. /\ OnceInv /\ HandInv /\ QueueInv /\ RunInv
      /\ QueueType /\ ObjType /\ CallerType /\ ThreadType
    BY Zenon DEF IInv, TypeOK, ServInv
<1>. USE <1>0 DEF QueueType, ObjType, CallerType, ThreadType,
        callerVars, objVars, queueVars, threadVars
<1>1. ASSUME NEW c \in Cmds, Caller(c) PROVE OnceInv'
  <2>0. UNCHANGED <<tpc, pcmd, draining, res, runs, status>>
    BY <1>1, CallerFrame, Zenon DEF Issue, EnqueueRefuse, WaiterClear
  <2>1. \A d \in Cmds : pc[d] \notin Early => pc'[d] \notin Early
    <3>1. CASE Issue(c) \/ EnqueueRefuse(c) \/ EnqueueAccept(c)
               \/ EnqueueInsert(c) \/ EnqueueUp(c)
      BY <3>1, ZenonT(40)
      DEF Issue, EnqueueRefuse, EnqueueAccept, EnqueueInsert, EnqueueUp, Early
    <3>2. CASE WaitDone(c) \/ WaitTimeout(c) \/ WaiterLock(c)
               \/ WaiterInterrupted(c)
      BY <3>2, ZenonT(40)
      DEF WaitDone, WaitTimeout, WaiterLock, WaiterInterrupted, Early
    <3>3. CASE WaiterCheck(c) \/ WaiterClear(c) \/ WaiterReturn(c)
      BY <3>3, ZenonT(40) DEF WaiterCheck, WaiterClear, WaiterReturn, Early
    <3>. QED
      BY <1>1, <3>1, <3>2, <3>3, Zenon DEF Caller
  <2>2. \A d \in Cmds : runs[d] # 0 => ~In(cmd_queue', d)
    <3>1. CASE EnqueueInsert(c)
      <4>1. \A d \in Cmds : In(cmd_queue', d) <=> In(cmd_queue, d) \/ d = c
        BY <1>1, <3>1, InAppend, Zenon DEF EnqueueInsert
      <4>. QED
        BY <3>1, <4>1, Zenon DEF EnqueueInsert, OnceInv, Early
    <3>2. CASE UNCHANGED cmd_queue
      BY <3>2, Zenon DEF OnceInv
    <3>. QED
      BY <1>1, <3>1, <3>2, CallerFrame, Zenon DEF EnqueueUp
  <2>. QED
    BY <2>0, <2>1, <2>2, Zenon DEF OnceInv, Answering
<1>2. CASE Thread
  <2>0. UNCHANGED pc
    BY <1>2, ThreadFrame, Zenon
  <2>1. CASE ThreadDequeue \/ ThreadDrain
    <3>1. CASE cmd_queue = <<>>
      BY <2>0, <2>1, <3>1, OnceKeeps, Zenon
      DEF ThreadDequeue, ThreadDrain, OnceInv, Answering, Goto
    <3>2. CASE cmd_queue # <<>>
      <4>1. /\ cmd_queue' = Tail(cmd_queue) /\ pcmd' = Head(cmd_queue)
            /\ UNCHANGED <<status, res, runs, draining>>
        BY <2>1, <3>2, Zenon DEF ThreadDequeue, ThreadDrain
      <4>2. \A d \in Cmds : In(cmd_queue, d) <=> In(cmd_queue', d) \/ d = pcmd'
        BY <3>2, <4>1, InTail, Zenon
      <4>3. \/ tpc = "dequeue" /\ tpc' = "filter"
            \/ tpc = "drain" /\ tpc' = "lock"
        BY <2>1, <3>2, Zenon DEF ThreadDequeue, ThreadDrain, Goto
      <4>. QED
        BY <2>0, <4>1, <4>2, <4>3, Zenon DEF OnceInv, Answering, RunInv
    <3>. QED
      BY <3>1, <3>2, Zenon
  <2>2. CASE ThreadEnqHead
    <3>1. pcmd \in Cmds
      BY <2>2, Zenon DEF ThreadEnqHead, HandInv, InHand
    <3>2. \A d \in Cmds : In(cmd_queue', d) <=> In(cmd_queue, d) \/ d = pcmd
      BY <2>2, <3>1, InCons, Zenon DEF ThreadEnqHead
    <3>3. runs[pcmd] = 0
      BY <2>2, <3>1, Zenon DEF ThreadEnqHead, OnceInv, Answering
    <3>. QED
      BY <2>0, <2>2, <3>1, <3>2, <3>3, CmdsAssumption, Zenon
      DEF ThreadEnqHead, OnceInv, Answering, Goto
  <2>3. CASE ThreadFilter
    <3>1. pcmd \in Cmds
      BY <2>3, Zenon DEF ThreadFilter, HandInv, InHand
    <3>2. runs[pcmd] = 0 /\ ~draining
      BY <2>3, <3>1, Zenon DEF ThreadFilter, OnceInv, Answering
    <3>. QED
      BY <2>0, <2>3, <3>1, <3>2, ZenonT(40)
      DEF ThreadFilter, OnceInv, Answering, Goto
  <2>4. ASSUME NEW r \in {"SUCCESS", "REJECTED"}, ThreadExec(r) PROVE OnceInv'
    <3>1. pcmd \in Cmds
      BY <2>4, Zenon DEF ThreadExec, HandInv, InHand
    <3>2. runs[pcmd] = 0 /\ ~draining
      BY <2>4, <3>1, Zenon DEF ThreadExec, OnceInv, Answering
    <3>3. ~In(cmd_queue, pcmd) /\ pc[pcmd] \notin Early
      BY <2>4, <3>1, CmdsAssumption, ZenonT(40) DEF QueueInv, In, HandInv
    <3>4. runs'[pcmd] # 0
      BY <2>4, <3>1, <3>2 DEF ThreadExec
    <3>5. /\ \A d \in Cmds \ {pcmd} : runs'[d] = runs[d] /\ res'[d] = res[d]
          /\ UNCHANGED <<status, cmd_queue, pcmd, draining>> /\ tpc' = "lock"
      BY <2>4, Zenon DEF ThreadExec, Goto
    <3>. QED
      BY <2>0, <3>1, <3>2, <3>3, <3>4, <3>5, ZenonT(40) DEF OnceInv, Answering
  <2>5. CASE ThreadStatus
    <3>1. pcmd \in Cmds
      BY <2>5, Zenon DEF ThreadStatus, HandInv, Answering
    <3>. QED
      BY <2>0, <2>5, <3>1, Zenon
      DEF ThreadStatus, DoneStatus, OnceInv, Answering, Goto
  <2>6. CASE ThreadFree
    BY <2>0, <2>6, CmdsAssumption, Zenon
    DEF ThreadFree, OnceInv, Answering, Goto
  <2>7. CASE ThreadStopFlag
    BY <2>0, <2>7, Zenon DEF ThreadStopFlag, OnceInv, Answering, Goto
  <2>8. CASE ThreadNeverRuns \/ ThreadStart \/ ThreadDown \/ ThreadEvent
             \/ ThreadOnce \/ ThreadIdle \/ ThreadStop \/ ThreadWaitStop
             \/ \E ok \in BOOLEAN : ThreadAlive(ok)
    BY <2>8, OnceKeeps, Zenon
    DEF ThreadNeverRuns, ThreadStart, ThreadDown, ThreadEvent, ThreadOnce,
        ThreadIdle, ThreadStop, ThreadWaitStop, ThreadAlive, OnceInv, RunInv,
        Answering, Goto
  <2>9. CASE ThreadLock \/ ThreadInterrupted \/ ThreadCheck \/ ThreadComplete
             \/ ThreadNull \/ ThreadUnlock
    BY <2>9, OnceKeeps, Zenon
    DEF ThreadLock, ThreadInterrupted, ThreadCheck, ThreadComplete,
        ThreadNull, ThreadUnlock, Answering, Goto
  <2>. QED
    BY <1>2, <2>1, <2>2, <2>3, <2>4, <2>5, <2>6, <2>7, <2>8, <2>9, Zenon
    DEF Thread
<1>3. CASE Control
  <2>0. UNCHANGED <<pc, status, res, runs, cmd_queue, pcmd>>
    BY <1>3, ControlFrame, Zenon
  <2>1. CASE StartThread
    <3>1. CASE UNCHANGED <<tpc, draining>>
      BY <2>0, <3>1, OnceKeeps, Zenon DEF Answering, OnceInv
    <3>2. CASE tpc = "none" /\ tpc' = "start" /\ draining' = FALSE
      BY <2>0, <3>2, Zenon DEF OnceInv, Answering
    <3>. QED
      BY <2>1, <3>1, <3>2, Zenon DEF StartThread, RunInv
  <2>2. CASE Join
    BY <2>0, <2>2, Zenon DEF Join, OnceInv, Answering
  <2>3. CASE UNCHANGED threadVars
    BY <2>0, <2>3, OnceKeeps, Zenon DEF Answering, OnceInv
  <2>. QED
    BY <1>3, <2>1, <2>2, <2>3, ControlFrame, Zenon
<1>4. CASE Environment
  <2>0. UNCHANGED <<pc, status, res, runs, cmd_queue, pcmd>>
    BY <1>4, EnvironmentFrame, Zenon
  <2>1. CASE ThreadSignal
    BY <2>0, <2>1, Zenon DEF ThreadSignal, OnceInv, Answering, Goto
  <2>2. CASE UNCHANGED threadVars
    BY <2>0, <2>2, OnceKeeps, Zenon DEF Answering, OnceInv
  <2>. QED
    BY <1>4, <2>1, <2>2, EnvironmentFrame, Zenon
<1>5. CASE UNCHANGED vars
    BY <1>5, OnceKeeps, Zenon DEF vars, Answering, OnceInv
<1>. QED
    BY <1>1, <1>2, <1>3, <1>4, <1>5, Zenon DEF Next

\* What outcomeBar says of one command.
Fate(c) ==
    IF runs[c] > 0 THEN IF res[c] = "SUCCESS" THEN "succeeded" ELSE "failed"
    ELSE IF obj[c] = "freed" \/ (Answering /\ pcmd = c) THEN "refused"
    ELSE "none"

\* The thread has decided about c, or rtw_enqueue_cmd has refused it.
Gone(c) == obj[c] = "freed" \/ (Answering /\ pcmd = c)

\* A command has no fate as long as its handler has not run and it is not
\* answered or freed.
LEMMA FateFacts ==
    ASSUME ObjType, NEW c \in Cmds
    PROVE  /\ runs[c] = 0 => Fate(c) = IF Gone(c) THEN "refused" ELSE "none"
           /\ runs[c] # 0 => Fate(c) = IF res[c] = "SUCCESS" THEN "succeeded"
                                                            ELSE "failed"
    BY DEF Fate, Gone, ObjType

\* Steps that do not decide about c leave its fate.
LEMMA FateKept ==
    ASSUME ObjType, NEW c \in Cmds, runs'[c] = runs[c],
           runs[c] # 0 => res'[c] = res[c], Gone(c)' <=> Gone(c)
    PROVE  Fate(c)' = Fate(c)
<1>1. runs[c] \in Nat
    BY DEF ObjType
<1>2. CASE runs[c] = 0
    BY <1>2 DEF Fate, Gone
<1>3. CASE runs[c] # 0
    BY <1>1, <1>3 DEF Fate
<1>. QED
    BY <1>2, <1>3, Zenon

\* The pending commands of CmdService: the one in the thread's hand, as long
\* as it is undecided, then the queue.
LEMMA PendingFacts ==
    ASSUME QueueType, ThreadType, HandInv
    PROVE  /\ pendingBar \in Seq(Cmds)
           /\ ~InHand => pendingBar = cmd_queue
           /\ InHand => /\ pcmd \in Cmds /\ pendingBar = <<pcmd>> \o cmd_queue
                        /\ pendingBar # <<>>
                        /\ Head(pendingBar) = pcmd
                        /\ Tail(pendingBar) = cmd_queue
           /\ \A c \in Cmds : In(pendingBar, c) <=>
                                 In(cmd_queue, c) \/ (InHand /\ pcmd = c)
<1>. USE DEF QueueType
<1>1. CASE InHand
  <2>1. pcmd \in Cmds
    BY <1>1, Zenon DEF HandInv, ThreadType
  <2>2. pendingBar = <<pcmd>> \o cmd_queue
    BY <1>1, Zenon DEF pendingBar
  <2>3. <<pcmd>> \o cmd_queue # <<>> /\ Tail(<<pcmd>> \o cmd_queue) = cmd_queue
    BY <2>1
  <2>4. /\ Head(<<pcmd>> \o cmd_queue) = pcmd
        /\ <<pcmd>> \o cmd_queue \in Seq(Cmds)
    BY <2>1, ConsFacts
  <2>5. \A c \in Cmds : In(pendingBar, c) <=> In(cmd_queue, c) \/ c = pcmd
    BY <2>1, <2>2, InCons, Zenon
  <2>. QED
    BY <1>1, <2>1, <2>2, <2>3, <2>4, <2>5, Zenon
<1>2. CASE ~InHand
  <2>1. pendingBar = <<>> \o cmd_queue
    BY <1>2, Zenon DEF pendingBar
  <2>2. <<>> \o cmd_queue = cmd_queue
    OBVIOUS
  <2>. QED
    BY <1>2, <2>1, <2>2, Zenon
<1>. QED
    BY <1>1, <1>2, Zenon

\* CmdService has nothing left to do for c exactly if c is neither pending
\* nor decided.
LEMMA UnservedFacts ==
    ASSUME QueueType, ThreadType, HandInv, NEW c \in Cmds
    PROVE  Service!Unserved(c) <=>
              /\ Fate(c) = "none" /\ ~In(cmd_queue, c) /\ ~(InHand /\ pcmd = c)
<1>1. pendingBar \in Seq(Cmds)
    BY PendingFacts, Zenon
<1>2. DOMAIN pendingBar = 1..Len(pendingBar)
    BY <1>1
<1>3. outcomeBar[c] = Fate(c)
    BY Zenon DEF outcomeBar, Fate
<1>4. In(pendingBar, c) <=> In(cmd_queue, c) \/ (InHand /\ pcmd = c)
    BY PendingFacts, Zenon
<1>. QED
    BY <1>2, <1>3, <1>4, Zenon DEF Service!Unserved, In

\* A step that decides about nobody and moves nothing is a stutter.
LEMMA ServiceQuiet ==
    ASSUME ObjType, UNCHANGED ret, pendingBar' = pendingBar,
           \A c \in Cmds : /\ runs'[c] = runs[c]
                           /\ runs[c] # 0 => res'[c] = res[c]
                           /\ Gone(c)' <=> Gone(c)
    PROVE  UNCHANGED Service!svars
<1>1. \A c \in Cmds : Fate(c)' = Fate(c)
    BY FateKept, Zenon
<1>2. /\ outcomeBar = [c \in Cmds |-> Fate(c)]
      /\ outcomeBar' = [c \in Cmds |-> Fate(c)']
    BY Zenon DEF outcomeBar, Fate
<1>3. outcomeBar' = outcomeBar
    BY <1>1, <1>2
<1>. QED
    BY <1>3, Zenon DEF Service!svars

\* A step that decides about the command d only.
LEMMA FateSet ==
    ASSUME ObjType, NEW d \in Cmds, NEW o, Fate(d)' = o,
           \A c \in Cmds \ {d} : /\ runs'[c] = runs[c]
                                 /\ runs[c] # 0 => res'[c] = res[c]
                                 /\ Gone(c)' <=> Gone(c)
    PROVE  outcomeBar' = [outcomeBar EXCEPT ![d] = o]
<1>1. \A c \in Cmds \ {d} : Fate(c)' = Fate(c)
    BY FateKept, Zenon
<1>2. /\ outcomeBar = [c \in Cmds |-> Fate(c)]
      /\ outcomeBar' = [c \in Cmds |-> Fate(c)']
    BY Zenon DEF outcomeBar, Fate
<1>. HIDE DEF outcomeBar, Fate
<1>3. [outcomeBar EXCEPT ![d] = o] =
         [c \in Cmds |-> IF c = d THEN o ELSE Fate(c)]
    BY <1>2
<1>. QED
    BY <1>1, <1>2, <1>3

\* Nothing is decided about a command that is not queued yet.
LEMMA EarlyFacts ==
    ASSUME IInv, ServInv, NEW c \in Cmds, pc[c] \in {"filter", "enqueue"}
    PROVE  /\ runs[c] = 0 /\ ret[c] = "none" /\ obj[c] = "live" /\ pcmd # c
           /\ ~In(cmd_queue, c)
<1>1. pc[c] \in Early /\ pc[c] # "returned"
    BY Zenon DEF Early
<1>2. obj[c] = "live"
    BY Zenon DEF IInv, SctxInv, SctxOk
<1>3. runs[c] = 0 /\ ret[c] = "none"
    BY <1>1, Zenon DEF ServInv, CallInv, OnceInv
<1>4. pcmd # c
    BY <1>1, CmdsAssumption, Zenon DEF IInv, HandInv
<1>5. ~In(cmd_queue, c)
    BY <1>1, Zenon DEF IInv, QueueInv, In
<1>. QED
    BY <1>2, <1>3, <1>4, <1>5, Zenon

\* A call's steps: refused, inserted and returned are steps of CmdService,
\* the others stutter.
LEMMA CallerServes ==
    ASSUME IInv, ServInv, NEW c \in Cmds, Caller(c)
    PROVE  [Service!SNext]_(Service!svars)
<1>0. /\ QueueType /\ ObjType /\ CallerType /\ ThreadType /\ HandInv
      /\ SctxOk(c) /\ CallInv /\ OnceInv
    BY Zenon DEF IInv, TypeOK, ServInv, SctxInv
<1>1. UNCHANGED <<tpc, pcmd, res, runs>>
    BY CallerFrame, Zenon
    DEF threadVars, objVars, Issue, EnqueueRefuse, WaiterClear
<1>2. (InHand' <=> InHand) /\ (Answering' <=> Answering)
    BY <1>1, Zenon DEF InHand, Answering
<1>3. UNCHANGED cmd_queue => UNCHANGED pendingBar
    BY <1>1, <1>2, Zenon DEF pendingBar
<1>4. UNCHANGED obj => outcomeBar' = outcomeBar
    BY <1>1, <1>2, Zenon DEF outcomeBar
<1>5. CASE Issue(c)
  <2>1. /\ obj[c] = "none" /\ obj' = [obj EXCEPT ![c] = "live"]
        /\ UNCHANGED <<ret, cmd_queue>>
    BY <1>0, <1>5, Zenon DEF Issue, SctxOk, queueVars
  <2>2. \A d \in Cmds : Gone(d)' <=> Gone(d)
    BY <1>0, <1>1, <1>2, <2>1, Zenon DEF Gone, ObjType
  <2>. QED
    BY <1>0, <1>1, <1>3, <2>1, <2>2, ServiceQuiet, Zenon
<1>6. CASE EnqueueRefuse(c)
  <2>1. /\ pc[c] = "filter" /\ ret' = [ret EXCEPT ![c] = "FAIL"]
        /\ obj' = [obj EXCEPT ![c] = "freed"] /\ UNCHANGED cmd_queue
    BY <1>6, Zenon DEF EnqueueRefuse, queueVars
  <2>2. /\ runs[c] = 0 /\ ret[c] = "none" /\ obj[c] = "live" /\ pcmd # c
        /\ ~In(cmd_queue, c)
    BY <1>0, <2>1, EarlyFacts, Zenon
  <2>3. Service!Unserved(c)
    BY <1>0, <2>2, FateFacts, UnservedFacts, Zenon DEF Gone
  <2>4. Gone(c)' /\ \A d \in Cmds \ {c} : Gone(d)' <=> Gone(d)
    BY <1>0, <1>1, <1>2, <2>1, Zenon DEF Gone, ObjType
  <2>5. Fate(c)' = "refused"
    BY <1>0, <1>1, <2>2, <2>4 DEF Fate, Gone
  <2>6. outcomeBar' = [outcomeBar EXCEPT ![c] = "refused"]
    BY <1>0, <1>1, <2>4, <2>5, FateSet, Zenon
  <2>7. Service!Reject(c)
    BY <1>3, <2>1, <2>2, <2>3, <2>6, Zenon DEF Service!Reject
  <2>. QED
    BY <2>7, Zenon DEF Service!SNext
<1>7. CASE EnqueueInsert(c)
  <2>1. /\ pc[c] = "enqueue" /\ UNCHANGED <<ret, obj>>
        /\ cmd_queue' = Append(cmd_queue, c)
    BY <1>7, Zenon DEF EnqueueInsert, objVars
  <2>2. /\ runs[c] = 0 /\ ret[c] = "none" /\ obj[c] = "live" /\ pcmd # c
        /\ ~In(cmd_queue, c)
    BY <1>0, <2>1, EarlyFacts, Zenon
  <2>3. Service!Unserved(c)
    BY <1>0, <2>2, FateFacts, UnservedFacts, Zenon DEF Gone
  <2>4. pendingBar' = Append(pendingBar, c)
    <3>1. CASE InHand
      <4>1. pcmd \in Cmds /\ pendingBar = <<pcmd>> \o cmd_queue
        BY <1>0, <3>1, PendingFacts, Zenon
      <4>2. pendingBar' = <<pcmd>> \o Append(cmd_queue, c)
        BY <1>1, <1>2, <2>1, <3>1, Zenon DEF pendingBar
      <4>3. <<pcmd>> \o Append(cmd_queue, c) = Append(<<pcmd>> \o cmd_queue, c)
        BY <1>0, <4>1 DEF QueueType
      <4>. QED
        BY <4>1, <4>2, <4>3, Zenon
    <3>2. CASE ~InHand
      <4>1. pendingBar = cmd_queue
        BY <1>0, <3>2, PendingFacts, Zenon
      <4>2. pendingBar' = <<>> \o Append(cmd_queue, c)
        BY <1>2, <2>1, <3>2, Zenon DEF pendingBar
      <4>3. <<>> \o Append(cmd_queue, c) = Append(cmd_queue, c)
        BY <1>0 DEF QueueType
      <4>. QED
        BY <4>1, <4>2, <4>3, Zenon
    <3>. QED
      BY <3>1, <3>2, Zenon
  <2>5. Service!Accept(c)
    BY <1>4, <2>1, <2>2, <2>3, <2>4, Zenon DEF Service!Accept
  <2>. QED
    BY <2>5, Zenon DEF Service!SNext
<1>8. ASSUME pc[c] \in {"up", "unlock"}, UNCHANGED <<obj, cmd_queue>>,
             NEW r \in {"SUCCESS", "FAIL"}, ret' = [ret EXCEPT ![c] = r],
             IF c \in SyncCmds THEN r = "SUCCESS" => status[c] = "SUCCESS"
                               ELSE r = "SUCCESS"
      PROVE  Service!SNext
  <2>1. ret[c] = "none" /\ (In(cmd_queue, c) \/ pcmd = c \/ obj[c] = "freed")
    BY <1>0, <1>8, Zenon DEF CallInv, Early
  <2>2. pcmd = c => InHand \/ Answering
    BY <1>0, CmdsAssumption, Zenon DEF HandInv
  <2>3. Gone(c) => Fate(c) # "none"
    BY <1>0, FateFacts
  <2>4. ~Service!Unserved(c)
    BY <1>0, <2>1, <2>2, <2>3, UnservedFacts, Zenon DEF Gone
  <2>5. outcomeBar[c] = Fate(c)
    BY Zenon DEF outcomeBar, Fate
  <2>6. status[c] = "SUCCESS" => outcomeBar[c] = "succeeded"
    BY <1>0, <2>5, FateFacts, Zenon DEF OnceInv
  <2>7. Service!Reply(c, r)
    BY <1>3, <1>4, <1>8, <2>1, <2>4, <2>6, Zenon DEF Service!Reply
  <2>. QED
    BY <2>7, Zenon DEF Service!SNext
<1>9. CASE EnqueueUp(c)
  <2>1. CASE c \in SyncCmds
    BY <1>3, <1>4, <1>9, <2>1, Zenon DEF EnqueueUp, objVars, Service!svars
  <2>2. CASE c \notin SyncCmds
    BY <1>8, <1>9, <2>2, Zenon DEF EnqueueUp, objVars
  <2>. QED
    BY <2>1, <2>2, Zenon
<1>10. CASE WaiterReturn(c)
  <2>. DEFINE r == IF status[c] = "SUCCESS" THEN "SUCCESS" ELSE "FAIL"
  <2>1. c \in SyncCmds
    BY <1>0, <1>10, Zenon DEF WaiterReturn, SctxOk
  <2>2. /\ pc[c] = "unlock" /\ ret' = [ret EXCEPT ![c] = r]
        /\ UNCHANGED <<obj, cmd_queue>>
    BY <1>10, Zenon DEF WaiterReturn, objVars, queueVars
  <2>3. r \in {"SUCCESS", "FAIL"} /\ (r = "SUCCESS" => status[c] = "SUCCESS")
    OBVIOUS
  <2>. HIDE DEF r
  <2>. QED
    BY <1>8, <2>1, <2>2, <2>3, Zenon
<1>11. CASE EnqueueAccept(c) \/ WaitDone(c) \/ WaitTimeout(c) \/ WaiterLock(c)
            \/ WaiterInterrupted(c) \/ WaiterCheck(c) \/ WaiterClear(c)
  <2>1. UNCHANGED <<obj, cmd_queue, ret>>
    BY <1>11, Zenon
    DEF EnqueueAccept, WaitDone, WaitTimeout, WaiterLock, WaiterInterrupted,
        WaiterCheck, WaiterClear, objVars, queueVars
  <2>. QED
    BY <1>3, <1>4, <2>1, Zenon DEF Service!svars
<1>. QED
    BY <1>5, <1>6, <1>7, <1>9, <1>10, <1>11, Zenon DEF Caller

\* The thread decides about the command in front: what CmdService calls Serve.
LEMMA ServeStep ==
    ASSUME ObjType, NEW d \in Cmds,
           NEW o \in {"succeeded", "failed", "refused"},
           pendingBar # <<>>, Head(pendingBar) = d,
           pendingBar' = Tail(pendingBar),
           Fate(d) = "none", Fate(d)' = o, UNCHANGED ret,
           \A c \in Cmds \ {d} : /\ runs'[c] = runs[c]
                                 /\ runs[c] # 0 => res'[c] = res[c]
                                 /\ Gone(c)' <=> Gone(c)
    PROVE  Service!SNext
<1>1. outcomeBar' = [outcomeBar EXCEPT ![d] = o]
    BY FateSet, Zenon
<1>2. outcomeBar[d] = Fate(d)
    BY Zenon DEF outcomeBar, Fate
<1>3. Service!Serve(o)
    BY <1>1, <1>2, Zenon DEF Service!Serve
<1>. QED
    BY <1>3, Zenon DEF Service!SNext

\* A move of the thread within the undecided, the decided or the idle part
\* of its loops is a stutter.
LEMMA ThreadMoves ==
    ASSUME UNCHANGED <<ret, pcmd, cmd_queue, obj, res, runs>>,
           InHand' <=> InHand, Answering' <=> Answering
    PROVE  UNCHANGED Service!svars
<1>1. pendingBar' = pendingBar
    BY Zenon DEF pendingBar
<1>2. outcomeBar' = outcomeBar
    BY Zenon DEF outcomeBar
<1>. QED
    BY <1>1, <1>2, Zenon DEF Service!svars

\* The thread's steps: dropping a command, running its handler and draining
\* it are steps of CmdService; taking it, putting it back and answering it
\* are stutters.
LEMMA ThreadServes ==
    ASSUME IInv, ServInv, Thread
    PROVE  [Service!SNext]_(Service!svars)
<1>0. /\ QueueType /\ ObjType /\ ThreadType /\ HandInv /\ QueueInv /\ OnceInv
    BY Zenon DEF IInv, TypeOK, ServInv
<1>1. UNCHANGED ret
    BY ThreadFrame, Zenon
<1>2. InHand => /\ pcmd \in Cmds /\ runs[pcmd] = 0 /\ obj[pcmd] = "live"
                /\ Fate(pcmd) = "none"
  <2>. HAVE InHand
  <2>1. pcmd \in Cmds /\ obj[pcmd] = "live"
    BY <1>0, Zenon DEF HandInv, ThreadType
  <2>2. ~Answering
    BY Zenon DEF InHand, Answering
  <2>3. runs[pcmd] = 0
    BY <1>0, <2>1, <2>2, Zenon DEF OnceInv
  <2>. QED
    BY <1>0, <2>1, <2>2, <2>3, FateFacts, Zenon DEF Gone
<1>3. CASE ThreadDequeue
  <2>1. CASE cmd_queue = <<>>
    BY <1>1, <1>3, <2>1, ThreadMoves, Zenon
    DEF ThreadDequeue, InHand, Answering, objVars, Goto
  <2>2. CASE cmd_queue # <<>>
    <3>1. /\ tpc = "dequeue" /\ tpc' = "filter" /\ UNCHANGED <<obj, res, runs>>
          /\ pcmd' = Head(cmd_queue) /\ cmd_queue' = Tail(cmd_queue)
      BY <1>3, <2>2, Zenon DEF ThreadDequeue, objVars, Goto
    <3>2. ~InHand /\ InHand' /\ ~Answering /\ ~Answering'
      BY <3>1, Zenon DEF InHand, Answering
    <3>3. pendingBar' = <<Head(cmd_queue)>> \o Tail(cmd_queue)
      BY <3>1, <3>2, Zenon DEF pendingBar
    <3>4. <<Head(cmd_queue)>> \o Tail(cmd_queue) = cmd_queue
      BY <1>0, <2>2 DEF QueueType
    <3>5. pendingBar = cmd_queue
      BY <1>0, <3>2, PendingFacts, Zenon
    <3>6. \A c \in Cmds : Gone(c)' <=> Gone(c)
      BY <3>1, <3>2, Zenon DEF Gone
    <3>. QED
      BY <1>0, <1>1, <3>1, <3>3, <3>4, <3>5, <3>6, ServiceQuiet, Zenon
  <2>. QED
    BY <2>1, <2>2, Zenon
<1>4. CASE ThreadFilter
  <2>0. /\ tpc = "filter" /\ UNCHANGED <<obj, runs, pcmd, cmd_queue>>
        /\ \A c \in Cmds \ {pcmd} : res'[c] = res[c]
    BY <1>0, <1>4, Zenon DEF ThreadFilter, queueVars, ObjType
  <2>1. InHand /\ ~Answering
    BY <2>0, Zenon DEF InHand, Answering
  <2>2. CASE tpc' = "alive"
    BY <1>1, <1>4, <2>0, <2>2, ThreadMoves, Zenon
    DEF ThreadFilter, InHand, Answering, Goto
  <2>3. CASE tpc' = "lock"
    <3>1. ~InHand' /\ Answering'
      BY <2>3, Zenon DEF InHand, Answering
    <3>2. pendingBar' = <<>> \o cmd_queue /\ <<>> \o cmd_queue = cmd_queue
      <4>1. pendingBar' = <<>> \o cmd_queue
        BY <2>0, <3>1, Zenon DEF pendingBar
      <4>2. <<>> \o cmd_queue = cmd_queue
        BY <1>0 DEF QueueType
      <4>. QED
        BY <4>1, <4>2, Zenon
    <3>3. Fate(pcmd)' = "refused"
      BY <1>2, <2>0, <2>1, <3>1 DEF Fate
    <3>4. \A c \in Cmds \ {pcmd} : Gone(c)' <=> Gone(c)
      BY <2>0, <2>1, <3>1, Zenon DEF Gone
    <3>. QED
      BY <1>0, <1>1, <1>2, <2>0, <2>1, <3>2, <3>3, <3>4, PendingFacts,
         ServeStep, Zenon
  <2>. QED
    BY <1>4, <2>2, <2>3, Zenon DEF ThreadFilter, Goto
<1>5. CASE ThreadEnqHead
  <2>1. /\ tpc = "enq_head" /\ tpc' = "down" /\ UNCHANGED <<obj, runs>>
        /\ cmd_queue' = <<pcmd>> \o cmd_queue
        /\ \A c \in Cmds \ {pcmd} : res'[c] = res[c]
    BY <1>0, <1>5, Zenon DEF ThreadEnqHead, ObjType, Goto
  <2>2. InHand /\ ~InHand' /\ ~Answering /\ ~Answering'
    BY <2>1, Zenon DEF InHand, Answering
  <2>3. pendingBar' = <<>> \o (<<pcmd>> \o cmd_queue)
    BY <2>1, <2>2, Zenon DEF pendingBar
  <2>4. <<>> \o (<<pcmd>> \o cmd_queue) = <<pcmd>> \o cmd_queue
    BY <1>0, <1>2, <2>2 DEF QueueType
  <2>5. pendingBar' = pendingBar
    BY <2>2, <2>3, <2>4, Zenon DEF pendingBar
  <2>6. \A c \in Cmds : Gone(c)' <=> Gone(c)
    BY <2>1, <2>2, Zenon DEF Gone
  <2>. QED
    BY <1>0, <1>1, <1>2, <2>1, <2>2, <2>5, <2>6, ServiceQuiet, Zenon
<1>6. ASSUME NEW r \in {"SUCCESS", "REJECTED"}, ThreadExec(r)
      PROVE  Service!SNext
  <2>0. /\ tpc = "exec" /\ tpc' = "lock" /\ UNCHANGED <<obj, pcmd, cmd_queue>>
        /\ \A c \in Cmds \ {pcmd} : res'[c] = res[c] /\ runs'[c] = runs[c]
    BY <1>0, <1>6, Zenon DEF ThreadExec, queueVars, ObjType, Goto
  <2>1. InHand /\ ~Answering /\ ~InHand' /\ Answering'
    BY <2>0, Zenon DEF InHand, Answering
  <2>2. runs'[pcmd] > 0 /\ res'[pcmd] = r
    BY <1>0, <1>2, <1>6, <2>1 DEF ThreadExec, ObjType
  <2>3. pendingBar' = cmd_queue
    <3>1. pendingBar' = <<>> \o cmd_queue
      BY <2>0, <2>1, Zenon DEF pendingBar
    <3>2. <<>> \o cmd_queue = cmd_queue
      BY <1>0 DEF QueueType
    <3>. QED
      BY <3>1, <3>2, Zenon
  <2>4. Fate(pcmd)' = IF r = "SUCCESS" THEN "succeeded" ELSE "failed"
    BY <2>0, <2>2, Zenon DEF Fate
  <2>5. \A c \in Cmds \ {pcmd} : Gone(c)' <=> Gone(c)
    BY <2>0, <2>1, Zenon DEF Gone
  <2>6. /\ pendingBar # <<>> /\ Head(pendingBar) = pcmd
        /\ Tail(pendingBar) = cmd_queue
    BY <1>0, <2>1, PendingFacts, Zenon
  <2>7. Fate(pcmd)' \in {"succeeded", "failed", "refused"}
    BY <2>4, Zenon
  <2>. QED
    BY <1>0, <1>1, <1>2, <2>0, <2>1, <2>3, <2>5, <2>6, <2>7, ServeStep, Zenon
<1>7. CASE ThreadDrain
  <2>1. CASE cmd_queue = <<>>
    BY <1>1, <1>7, <2>1, ThreadMoves, Zenon
    DEF ThreadDrain, InHand, Answering, objVars, Goto
  <2>2. CASE cmd_queue # <<>>
    <3>1. /\ tpc = "drain" /\ tpc' = "lock" /\ UNCHANGED <<obj, res, runs>>
          /\ pcmd' = Head(cmd_queue) /\ cmd_queue' = Tail(cmd_queue)
      BY <1>7, <2>2, Zenon DEF ThreadDrain, objVars, Goto
    <3>2. ~InHand /\ ~InHand' /\ ~Answering /\ Answering'
      BY <3>1, Zenon DEF InHand, Answering
    <3>3. PICK d \in Cmds : d = Head(cmd_queue)
      BY <1>0, <2>2, TailFacts, Zenon DEF QueueType
    <3>4. In(cmd_queue, d) /\ Tail(cmd_queue) \in Seq(Cmds)
      BY <1>0, <2>2, <3>3, TailFacts, InTail, Zenon DEF QueueType
    <3>5. pendingBar' = Tail(cmd_queue)
      <4>1. pendingBar' = <<>> \o Tail(cmd_queue)
        BY <3>1, <3>2, Zenon DEF pendingBar
      <4>2. <<>> \o Tail(cmd_queue) = Tail(cmd_queue)
        BY <3>4
      <4>. QED
        BY <4>1, <4>2, Zenon
    <3>6. runs[d] = 0 /\ obj[d] = "live"
      BY <1>0, <3>4, Zenon DEF OnceInv, QueueInv, In
    <3>7. Fate(d) = "none"
      BY <1>0, <3>2, <3>6, FateFacts, Zenon DEF Gone
    <3>8. Fate(d)' = "refused"
      BY <3>1, <3>2, <3>3, <3>6 DEF Fate
    <3>9. \A c \in Cmds \ {d} : Gone(c)' <=> Gone(c)
      BY <3>1, <3>2, <3>3, Zenon DEF Gone
    <3>10. pendingBar = cmd_queue
      BY <1>0, <3>2, PendingFacts, Zenon
    <3>. QED
      BY <1>0, <1>1, <2>2, <3>1, <3>3, <3>5, <3>7, <3>8, <3>9, <3>10, ServeStep,
         Zenon
  <2>. QED
    BY <2>1, <2>2, Zenon
<1>8. CASE ThreadFree
  <2>1. /\ tpc = "free" /\ tpc' \in {"drain", "once"}
        /\ UNCHANGED <<res, runs, cmd_queue>>
        /\ obj' = [obj EXCEPT ![pcmd] = "freed"] /\ pcmd' = NoCmd
    BY <1>8, Zenon DEF ThreadFree, queueVars, Goto
  <2>2. ~InHand /\ ~InHand' /\ Answering /\ ~Answering'
    BY <2>1, Zenon DEF InHand, Answering
  <2>3. \A c \in Cmds : Gone(c)' <=> Gone(c)
    BY <1>0, <2>1, <2>2, Zenon DEF Gone, ObjType
  <2>4. pendingBar' = pendingBar
    BY <2>1, <2>2, Zenon DEF pendingBar
  <2>. QED
    BY <1>0, <1>1, <2>1, <2>3, <2>4, ServiceQuiet, Zenon
<1>9. CASE ThreadNeverRuns \/ ThreadStart \/ ThreadDown \/ ThreadEvent
           \/ ThreadOnce \/ ThreadIdle \/ ThreadStop \/ ThreadStopFlag
           \/ ThreadWaitStop \/ \E ok \in BOOLEAN : ThreadAlive(ok)
    BY <1>1, <1>9, ThreadMoves, Zenon
    DEF ThreadNeverRuns, ThreadStart, ThreadDown, ThreadEvent, ThreadOnce,
        ThreadIdle, ThreadStop, ThreadStopFlag, ThreadWaitStop, ThreadAlive,
        InHand, Answering, objVars, queueVars, Goto
<1>10. CASE ThreadLock \/ ThreadInterrupted \/ ThreadCheck \/ ThreadStatus
            \/ ThreadComplete \/ ThreadUnlock
    BY <1>1, <1>10, ThreadMoves, Zenon
    DEF ThreadLock, ThreadInterrupted, ThreadCheck, ThreadStatus,
        ThreadComplete, ThreadUnlock, InHand, Answering, objVars, queueVars,
        Goto
<1>11. CASE ThreadNull
    BY <1>1, <1>11, ThreadMoves, Zenon
    DEF ThreadNull, InHand, Answering, queueVars, Goto
<1>. QED
    BY <1>3, <1>4, <1>5, <1>6, <1>7, <1>8, <1>9, <1>10, <1>11, Zenon DEF Thread

\* The command thread with its callers and the stop path implements
\* CmdService for any commands and signals: commands are served one at a time
\* in the order of acceptance, each once, and no caller is told a SUCCESS
\* that its handler did not return.
THEOREM ServiceImplemented == Spec => ServiceSpec
<1>1. Init => Service!SInit
  <2>. SUFFICES ASSUME Init PROVE Service!SInit
    BY Zenon
  <2>1. pendingBar = <<>> \o cmd_queue /\ cmd_queue = <<>>
    BY Zenon DEF Init, pendingBar, InHand
  <2>2. <<>> \o <<>> = <<>>
    OBVIOUS
  <2>3. \A c \in Cmds : outcomeBar[c] = "none"
    <3>. SUFFICES ASSUME NEW c \in Cmds PROVE outcomeBar[c] = "none"
      BY Zenon
    <3>1. runs[c] = 0 /\ obj[c] = "none" /\ ~Answering
      BY Zenon DEF Init, Answering
    <3>. QED
      BY <3>1 DEF outcomeBar
  <2>4. outcomeBar = [c \in Cmds |-> "none"]
    BY <2>3 DEF outcomeBar
  <2>. QED
    BY <2>1, <2>2, <2>4, Zenon DEF Init, Service!SInit
<1>2. Init => ServInv
    BY DEF Init, ServInv, CallInv, OnceInv, Early, Answering, In
<1>3. IInv /\ ServInv /\ [Next]_vars => ServInv'
    BY CallInvNext, OnceInvNext, Zenon DEF ServInv
<1>4. IInv /\ ServInv /\ [Next]_vars => [Service!SNext]_(Service!svars)
  <2>. SUFFICES ASSUME IInv, ServInv, [Next]_vars
                PROVE  [Service!SNext]_(Service!svars)
    BY Zenon
  <2>1. CASE Control
    <3>1. UNCHANGED <<ret, pcmd, cmd_queue, obj, res, runs>>
      BY <2>1, ControlFrame, Zenon DEF callerVars, objVars
    <3>2. (InHand' <=> InHand) /\ (Answering' <=> Answering)
      <4>1. CASE UNCHANGED tpc
        BY <4>1, Zenon DEF InHand, Answering
      <4>2. CASE StartThread
        BY <4>2, Zenon DEF StartThread, IInv, RunInv, InHand, Answering
      <4>3. CASE Join
        BY <4>3, Zenon DEF Join, InHand, Answering
      <4>. QED
        BY <2>1, <4>1, <4>2, <4>3, ControlFrame, Zenon DEF threadVars
    <3>. QED
      BY <3>1, <3>2, ThreadMoves, Zenon
  <2>2. CASE Environment
    <3>1. UNCHANGED <<ret, pcmd, cmd_queue, obj, res, runs>>
      BY <2>2, EnvironmentFrame, Zenon DEF callerVars, objVars, queueVars
    <3>2. (InHand' <=> InHand) /\ (Answering' <=> Answering)
      BY <2>2, EnvironmentFrame, Zenon
      DEF ThreadSignal, threadVars, InHand, Answering, Goto
    <3>. QED
      BY <3>1, <3>2, ThreadMoves, Zenon
  <2>3. CASE UNCHANGED vars
    BY <2>3, ThreadMoves, Zenon
    DEF vars, callerVars, objVars, queueVars, threadVars, InHand, Answering
  <2>. QED
    BY <2>1, <2>2, <2>3, CallerServes, ThreadServes, Zenon DEF Next
<1>. QED
    BY <1>1, <1>2, <1>3, <1>4, Invariance, PTL
    DEF Spec, ServiceSpec, Service!Spec
=============================================================================
