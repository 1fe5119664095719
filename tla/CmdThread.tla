----------------------------- MODULE CmdThread -----------------------------
(***************************************************************************)
(* The command subsystem: callers hand command objects to the command      *)
(* thread through cmd_queue, and a synchronous caller (RTW_CMDF_WAIT_ACK)  *)
(* waits for the answer in a struct submit_ctx on its own stack, to which  *)
(* the queued object points.  Modelled from core/rtw_cmd_queue.c,          *)
(* core/rtw_cmd_thread.c, core/rtw_xmit_sctx_rest.c, the waiter pattern of *)
(* core/rtw_cmd.c and the start and stop paths of os_dep/linux.            *)
(*                                                                         *)
(* Each member of Cmds is one command object together with the call that   *)
(* issues it.  A step is what one context does between two points at which *)
(* another context can act: locks, the semaphore, and each store to state  *)
(* that another context reads.                                             *)
(***************************************************************************)
EXTENDS Naturals, Sequences

CONSTANTS
    Cmds,          \* the command objects
    SyncCmds,      \* those issued with RTW_CMDF_WAIT_ACK
    NoIoCmds,      \* those with cmd_obj->no_io set
    ChanPlanCmds,  \* those with cmdcode CMD_SET_CHANPLAN
    NoHdlCmds,     \* those whose wlancmds[] entry has no cmd_hdl
    BigCmds,       \* those with cmdsz > MAX_CMDSZ
    Signalled,     \* contexts in which a signal may be pending when they
                   \* come to an interruptible lock or semaphore: calls,
                   \* "thread" and "open"
    NoCmd,         \* a NULL cmd_obj pointer
    MaxOpen        \* bound: how often the interface is brought up

ASSUME CmdsAssumption ==
    /\ SyncCmds \subseteq Cmds
    /\ NoIoCmds \subseteq Cmds
    /\ ChanPlanCmds \subseteq Cmds
    /\ NoHdlCmds \subseteq Cmds
    /\ BigCmds \subseteq Cmds
    /\ NoCmd \notin Cmds

ASSUME ActorsAssumption ==
    /\ {"thread", "open", "free"} \cap Cmds = {}
    /\ Signalled \subseteq Cmds \cup {"thread", "open"}

ASSUME MaxOpenAssumption == MaxOpen \in Nat

VARIABLES
    cmd_queue,            \* cmdpriv.cmd_queue
    cmd_queue_sema,       \* cmdpriv.cmd_queue_sema
    start_cmdthread_sema, \* cmdpriv.start_cmdthread_sema
    cmdthd_running,       \* cmdpriv.cmdthd_running
    sctx_mutex,           \* holder of cmdpriv.sctx_mutex, or "free"
    obj,                  \* allocation state of each cmd_obj
    obj_sctx,             \* cmd_obj->sctx is not NULL
    res,                  \* cmd_obj->res
    status,               \* submit_ctx.status, on the caller's stack
    done,                 \* submit_ctx.done, the completion
    pc,                   \* where the issuing call is
    ret,                  \* what the issuing call returned
    runs,                 \* history: executions of the command's handler
    tpc,                  \* where the command thread is
    pcmd,                 \* its pcmd
    draining,             \* it is in the loop of rtw_rust_cmd_thread_stop
    should_stop,          \* kthread_stop() has been called on it
    cmdThread,            \* adapter->cmdThread is not NULL
    drv_stopped,          \* bDriverStopped
    surprise_removed,     \* bSurpriseRemoved
    hw_init_completed,    \* hw_init_completed
    bup,                  \* adapter->bup
    ctl,                  \* where the open / unload / remove path is
    removing,             \* rtw_dev_remove has been entered
    opens                 \* history: number of times the interface came up

callerVars == <<pc, ret, status, done>>
objVars    == <<obj, obj_sctx, res, runs>>
queueVars  == <<cmd_queue, cmd_queue_sema>>
threadVars == <<tpc, pcmd, draining>>
runVars    == <<cmdthd_running, start_cmdthread_sema>>
kthreadVars == <<should_stop, cmdThread>>
devVars    == <<drv_stopped, surprise_removed, hw_init_completed>>
ctlVars    == <<ctl, bup, removing, opens>>
vars == <<callerVars, objVars, queueVars, threadVars, runVars, kthreadVars,
          devVars, ctlVars, sctx_mutex>>

CallerPC == {"idle", "filter", "enqueue", "up", "wait", "lock", "check",
             "clear", "unlock", "returned"}
ThreadPC == {"none", "start", "down", "event", "once", "dequeue", "idle",
             "filter", "alive", "enq_head", "exec", "lock", "check",
             "status", "complete", "null", "unlock", "free",
             "stop", "stop_flag", "drain", "wait_stop", "exited"}
CtlPC == {"down", "threads", "wait_start", "hal", "hal_fail", "up", "remove",
          "stop_up", "kthread_stop", "join", "unload", "removed"}

\* RTW_CANNOT_RUN(padapter)
CANNOT_RUN == surprise_removed \/ drv_stopped

-----------------------------------------------------------------------------
(* rtw_cmd_filter: a command that needs the hardware is refused before the *)
(* hardware is up, and every command is refused without a running thread.  *)

bAllow(c) == c \in ChanPlanCmds \cup NoIoCmds

rtw_cmd_filter(c) == (hw_init_completed \/ bAllow(c)) /\ cmdthd_running

-----------------------------------------------------------------------------
(* The issuing call (createbss_cmd, _rtw_lps_ctrl_wk_cmd and the others).  *)

\* The call allocates the object and, for WAIT_ACK, points it at sctx.
Issue(c) ==
    /\ pc[c] = "idle"
    /\ ctl # "removed"
    /\ pc' = [pc EXCEPT ![c] = "filter"]
    /\ obj' = [obj EXCEPT ![c] = "live"]
    /\ obj_sctx' = [obj_sctx EXCEPT ![c] = c \in SyncCmds]
    /\ UNCHANGED <<ret, status, done, res, runs, queueVars, threadVars,
                   runVars, kthreadVars, devVars, ctlVars, sctx_mutex>>

\* rtw_enqueue_cmd refuses the command: it frees the object, returns _FAIL.
EnqueueRefuse(c) ==
    /\ pc[c] = "filter"
    /\ ~rtw_cmd_filter(c) \/ c \in BigCmds
    /\ pc' = [pc EXCEPT ![c] = "returned"]
    /\ ret' = [ret EXCEPT ![c] = "FAIL"]
    /\ obj' = [obj EXCEPT ![c] = "freed"]
    /\ UNCHANGED <<status, done, obj_sctx, res, runs, queueVars, threadVars,
                   runVars, kthreadVars, devVars, ctlVars, sctx_mutex>>

\* The filter passes.  The insertion comes later, under the queue lock only.
EnqueueAccept(c) ==
    /\ pc[c] = "filter"
    /\ rtw_cmd_filter(c)
    /\ c \notin BigCmds
    /\ pc' = [pc EXCEPT ![c] = "enqueue"]
    /\ UNCHANGED <<ret, status, done, objVars, queueVars, threadVars,
                   runVars, kthreadVars, devVars, ctlVars, sctx_mutex>>

\* _rtw_enqueue_cmd(queue, obj, to_head = 0)
EnqueueInsert(c) ==
    /\ pc[c] = "enqueue"
    /\ cmd_queue' = Append(cmd_queue, c)
    /\ pc' = [pc EXCEPT ![c] = "up"]
    /\ UNCHANGED <<ret, status, done, objVars, cmd_queue_sema, threadVars,
                   runVars, kthreadVars, devVars, ctlVars, sctx_mutex>>

\* Variant: signal only when the queue holds one command.
EnqueueUpFirstOnly(c) ==
    /\ pc[c] = "up"
    /\ cmd_queue_sema' = cmd_queue_sema + IF Len(cmd_queue) = 1 THEN 1 ELSE 0
    /\ pc' = [pc EXCEPT ![c] = IF c \in SyncCmds THEN "wait" ELSE "returned"]
    /\ ret' = [ret EXCEPT ![c] = IF c \in SyncCmds THEN @ ELSE "SUCCESS"]
    /\ UNCHANGED <<status, done, objVars, cmd_queue, threadVars, runVars,
                   kthreadVars, devVars, ctlVars, sctx_mutex>>

\* _rtw_up_sema(cmd_queue_sema); without WAIT_ACK the call returns.
EnqueueUp(c) ==
    /\ pc[c] = "up"
    /\ cmd_queue_sema' = cmd_queue_sema + 1
    /\ \/ /\ c \in SyncCmds
          /\ pc' = [pc EXCEPT ![c] = "wait"]
          /\ ret' = ret
       \/ /\ c \notin SyncCmds
          /\ pc' = [pc EXCEPT ![c] = "returned"]
          /\ ret' = [ret EXCEPT ![c] = "SUCCESS"]
    /\ UNCHANGED <<status, done, objVars, cmd_queue, threadVars, runVars,
                   kthreadVars, devVars, ctlVars, sctx_mutex>>

\* rtw_sctx_wait returns: the completion was signalled ...
WaitDone(c) ==
    /\ pc[c] = "wait"
    /\ done[c]
    /\ pc' = [pc EXCEPT ![c] = "lock"]
    /\ UNCHANGED <<ret, status, done, objVars, queueVars, threadVars,
                   runVars, kthreadVars, devVars, ctlVars, sctx_mutex>>

\* Variant: the wait has no timeout (timeout_ms is MAX_SCHEDULE_TIMEOUT).
WaitTimeoutNever(c) ==
    /\ pc[c] = "wait"
    /\ ~done[c]
    /\ UNCHANGED vars

\* ... or timeout_ms passed first.
WaitTimeout(c) ==
    /\ pc[c] = "wait"
    /\ ~done[c]
    /\ pc' = [pc EXCEPT ![c] = "lock"]
    /\ UNCHANGED <<ret, status, done, objVars, queueVars, threadVars,
                   runVars, kthreadVars, devVars, ctlVars, sctx_mutex>>

\* _enter_critical_mutex(sctx_mutex)
WaiterLock(c) ==
    /\ pc[c] = "lock"
    /\ sctx_mutex = "free"
    /\ sctx_mutex' = c
    /\ pc' = [pc EXCEPT ![c] = "check"]
    /\ UNCHANGED <<ret, status, done, objVars, queueVars, threadVars,
                   runVars, kthreadVars, devVars, ctlVars>>

\* It is mutex_lock_interruptible: a signal ends the wait for a mutex that
\* is held, and the call, which ignores the result, goes on without it.
WaiterInterrupted(c) ==
    /\ pc[c] = "lock"
    /\ c \in Signalled
    /\ sctx_mutex # "free"
    /\ pc' = [pc EXCEPT ![c] = "check"]
    /\ UNCHANGED <<ret, status, done, objVars, queueVars, threadVars,
                   runVars, kthreadVars, devVars, ctlVars, sctx_mutex>>

\* Variant: a waiter that timed out leaves cmdobj->sctx set.
WaiterCheckKeepsSctx(c) ==
    /\ pc[c] = "check"
    /\ pc' = [pc EXCEPT ![c] = "unlock"]
    /\ UNCHANGED <<ret, status, done, objVars, queueVars, threadVars,
                   runVars, kthreadVars, devVars, ctlVars, sctx_mutex>>

\* if (sctx.status == RTW_SCTX_SUBMITTED) ...
WaiterCheck(c) ==
    /\ pc[c] = "check"
    /\ pc' = [pc EXCEPT ![c] = IF status[c] = "SUBMITTED" THEN "clear"
                                                          ELSE "unlock"]
    /\ UNCHANGED <<ret, status, done, objVars, queueVars, threadVars,
                   runVars, kthreadVars, devVars, ctlVars, sctx_mutex>>

\* ... cmdobj->sctx = NULL
WaiterClear(c) ==
    /\ pc[c] = "clear"
    /\ obj_sctx' = [obj_sctx EXCEPT ![c] = FALSE]
    /\ pc' = [pc EXCEPT ![c] = "unlock"]
    /\ UNCHANGED <<ret, status, done, obj, res, runs, queueVars, threadVars,
                   runVars, kthreadVars, devVars, ctlVars, sctx_mutex>>

\* _exit_critical_mutex, which frees the mutex whoever holds it; the frame
\* with the submit_ctx goes away with the return.
WaiterReturn(c) ==
    /\ pc[c] = "unlock"
    /\ sctx_mutex' = "free"
    /\ ret' = [ret EXCEPT ![c] =
                  IF status[c] = "SUCCESS" THEN "SUCCESS" ELSE "FAIL"]
    /\ pc' = [pc EXCEPT ![c] = "returned"]
    /\ UNCHANGED <<status, done, objVars, queueVars, threadVars, runVars,
                   kthreadVars, devVars, ctlVars>>

Caller(c) ==
    \/ Issue(c) \/ EnqueueRefuse(c) \/ EnqueueAccept(c) \/ EnqueueInsert(c)
    \/ EnqueueUp(c) \/ WaitDone(c) \/ WaitTimeout(c) \/ WaiterLock(c)
    \/ WaiterInterrupted(c) \/ WaiterCheck(c) \/ WaiterClear(c)
    \/ WaiterReturn(c)

-----------------------------------------------------------------------------
(* The command thread.                                                     *)

Goto(l) == tpc' = l

\* kthread: a thread that is stopped before it first runs never does.
ThreadNeverRuns ==
    /\ tpc = "start"
    /\ should_stop
    /\ Goto("exited")
    /\ UNCHANGED <<callerVars, objVars, queueVars, pcmd, draining, runVars,
                   kthreadVars, devVars, ctlVars, sctx_mutex>>

\* rtw_rust_cmd_thread_start
ThreadStart ==
    /\ tpc = "start"
    /\ cmdthd_running' = TRUE
    /\ start_cmdthread_sema' = start_cmdthread_sema + 1
    /\ Goto("down")
    /\ UNCHANGED <<callerVars, objVars, queueVars, pcmd, draining,
                   kthreadVars, devVars, ctlVars, sctx_mutex>>

\* Variant: the wait does not block at zero.
ThreadDownAtZero ==
    /\ tpc = "down"
    /\ cmd_queue_sema' = cmd_queue_sema - 1
    /\ Goto("event")
    /\ UNCHANGED <<callerVars, objVars, cmd_queue, pcmd, draining, runVars,
                   kthreadVars, devVars, ctlVars, sctx_mutex>>

\* rtw_rust_cmd_thread_wait_event: _rtw_down_sema takes a count ...
ThreadDown ==
    /\ tpc = "down"
    /\ cmd_queue_sema > 0
    /\ cmd_queue_sema' = cmd_queue_sema - 1
    /\ Goto("event")
    /\ UNCHANGED <<callerVars, objVars, cmd_queue, pcmd, draining, runVars,
                   kthreadVars, devVars, ctlVars, sctx_mutex>>

\* ... or is interrupted by SIGTERM, which thread_enter allows.
ThreadSignal ==
    /\ tpc = "down"
    /\ Goto("stop")
    /\ UNCHANGED <<callerVars, objVars, queueVars, pcmd, draining, runVars,
                   kthreadVars, devVars, ctlVars, sctx_mutex>>

\* Variant: a single queued command is taken for an empty queue.
ThreadEventOffByOne ==
    /\ tpc = "event"
    /\ \/ CANNOT_RUN /\ Goto("stop")
       \/ ~CANNOT_RUN /\ Len(cmd_queue) <= 1 /\ Goto("down")
       \/ ~CANNOT_RUN /\ Len(cmd_queue) > 1 /\ Goto("once")
    /\ UNCHANGED <<callerVars, objVars, queueVars, pcmd, draining, runVars,
                   kthreadVars, devVars, ctlVars, sctx_mutex>>

\* The checks after the wait: BREAK, OUTER (empty queue) or INNER.
ThreadEvent ==
    /\ tpc = "event"
    /\ \/ CANNOT_RUN /\ Goto("stop")
       \/ ~CANNOT_RUN /\ cmd_queue = <<>> /\ Goto("down")
       \/ ~CANNOT_RUN /\ cmd_queue # <<>> /\ Goto("once")
    /\ UNCHANGED <<callerVars, objVars, queueVars, pcmd, draining, runVars,
                   kthreadVars, devVars, ctlVars, sctx_mutex>>

\* rtw_rust_cmd_thread_once: the first check.
ThreadOnce ==
    /\ tpc = "once"
    /\ \/ CANNOT_RUN /\ Goto("stop")
       \/ ~CANNOT_RUN /\ Goto("dequeue")
    /\ UNCHANGED <<callerVars, objVars, queueVars, pcmd, draining, runVars,
                   kthreadVars, devVars, ctlVars, sctx_mutex>>

\* rtw_dequeue_cmd, under the queue lock.
ThreadDequeue ==
    /\ tpc = "dequeue"
    /\ \/ /\ cmd_queue = <<>>
          /\ Goto("idle")
          /\ UNCHANGED <<cmd_queue, pcmd>>
       \/ /\ cmd_queue # <<>>
          /\ pcmd' = Head(cmd_queue)
          /\ cmd_queue' = Tail(cmd_queue)
          /\ Goto("filter")
    /\ UNCHANGED <<callerVars, objVars, cmd_queue_sema, draining, runVars,
                   kthreadVars, devVars, ctlVars, sctx_mutex>>

\* Nothing left: rtw_unregister_cmd_alive, then wait for the next event.
ThreadIdle ==
    /\ tpc = "idle"
    /\ Goto("down")
    /\ UNCHANGED <<callerVars, objVars, queueVars, pcmd, draining, runVars,
                   kthreadVars, devVars, ctlVars, sctx_mutex>>

\* Parameter checks and the second call of rtw_cmd_filter.
ThreadFilter ==
    /\ tpc = "filter"
    /\ \/ /\ pcmd \in NoHdlCmds
          /\ res' = [res EXCEPT ![pcmd] = "PARAMETERS_ERROR"]
          /\ Goto("lock")
       \/ /\ pcmd \notin NoHdlCmds
          /\ ~rtw_cmd_filter(pcmd)
          /\ res' = [res EXCEPT ![pcmd] = "DROPPED"]
          /\ Goto("lock")
       \/ /\ pcmd \notin NoHdlCmds
          /\ rtw_cmd_filter(pcmd)
          /\ res' = res
          /\ Goto("alive")
    /\ UNCHANGED <<callerVars, obj, obj_sctx, runs, queueVars, pcmd,
                   draining, runVars, kthreadVars, devVars, ctlVars,
                   sctx_mutex>>

\* no_io: rtw_unregister_cmd_alive, else rtw_register_cmd_alive, whose
\* result is ok.
ThreadAlive(ok) ==
    /\ tpc = "alive"
    /\ pcmd \in NoIoCmds => ok
    /\ Goto(IF ok THEN "exec" ELSE "enq_head")
    /\ UNCHANGED <<callerVars, objVars, queueVars, pcmd, draining, runVars,
                   kthreadVars, devVars, ctlVars, sctx_mutex>>

\* Variant: the command goes back to the tail.
ThreadEnqTail ==
    /\ tpc = "enq_head"
    /\ res' = [res EXCEPT ![pcmd] = "ENQ_HEAD"]
    /\ cmd_queue' = Append(cmd_queue, pcmd)
    /\ pcmd' = NoCmd
    /\ Goto("down")
    /\ UNCHANGED <<callerVars, obj, obj_sctx, runs, cmd_queue_sema, draining,
                   runVars, kthreadVars, devVars, ctlVars, sctx_mutex>>

\* Not awake: back to the head of the queue, and wait for the next event.
ThreadEnqHead ==
    /\ tpc = "enq_head"
    /\ res' = [res EXCEPT ![pcmd] = "ENQ_HEAD"]
    /\ cmd_queue' = <<pcmd>> \o cmd_queue
    /\ pcmd' = NoCmd
    /\ Goto("down")
    /\ UNCHANGED <<callerVars, obj, obj_sctx, runs, cmd_queue_sema, draining,
                   runVars, kthreadVars, devVars, ctlVars, sctx_mutex>>

\* The handler runs; r is what it returns.
ThreadExec(r) ==
    /\ tpc = "exec"
    /\ res' = [res EXCEPT ![pcmd] = r]
    /\ runs' = [runs EXCEPT ![pcmd] = @ + 1]
    /\ Goto("lock")
    /\ UNCHANGED <<callerVars, obj, obj_sctx, queueVars, pcmd, draining,
                   runVars, kthreadVars, devVars, ctlVars, sctx_mutex>>

\* post_process, and the same lines of the drain loop: take sctx_mutex, ...
ThreadLock ==
    /\ tpc = "lock"
    /\ sctx_mutex = "free"
    /\ sctx_mutex' = "thread"
    /\ Goto("check")
    /\ UNCHANGED <<callerVars, objVars, queueVars, pcmd, draining, runVars,
                   kthreadVars, devVars, ctlVars>>

\* ... unless SIGTERM ends the wait, ...
ThreadInterrupted ==
    /\ tpc = "lock"
    /\ "thread" \in Signalled
    /\ sctx_mutex # "free"
    /\ Goto("check")
    /\ UNCHANGED <<callerVars, objVars, queueVars, pcmd, draining, runVars,
                   kthreadVars, devVars, ctlVars, sctx_mutex>>

\* ... if (pcmd->sctx) ...
ThreadCheck ==
    /\ tpc = "check"
    /\ Goto(IF obj_sctx[pcmd] THEN "status" ELSE "unlock")
    /\ UNCHANGED <<callerVars, objVars, queueVars, pcmd, draining, runVars,
                   kthreadVars, devVars, ctlVars, sctx_mutex>>

DoneStatus ==
    IF draining THEN "CMD_DROP"
    ELSE IF res[pcmd] = "SUCCESS" THEN "SUCCESS" ELSE "CMD_ERROR"

\* Variant: the completion is signalled without a status.
ThreadNoStatus ==
    /\ tpc = "status"
    /\ Goto("complete")
    /\ UNCHANGED <<callerVars, objVars, queueVars, pcmd, draining, runVars,
                   kthreadVars, devVars, ctlVars, sctx_mutex>>

\* ... rtw_sctx_done_err: store the status, ...
ThreadStatus ==
    /\ tpc = "status"
    /\ status' = [status EXCEPT ![pcmd] = DoneStatus]
    /\ Goto("complete")
    /\ UNCHANGED <<pc, ret, done, objVars, queueVars, pcmd, draining,
                   runVars, kthreadVars, devVars, ctlVars, sctx_mutex>>

\* ... complete(&(*sctx)->done), ...
ThreadComplete ==
    /\ tpc = "complete"
    /\ done' = [done EXCEPT ![pcmd] = TRUE]
    /\ Goto("null")
    /\ UNCHANGED <<pc, ret, status, objVars, queueVars, pcmd, draining,
                   runVars, kthreadVars, devVars, ctlVars, sctx_mutex>>

\* ... *sctx = NULL, ...
ThreadNull ==
    /\ tpc = "null"
    /\ obj_sctx' = [obj_sctx EXCEPT ![pcmd] = FALSE]
    /\ Goto("unlock")
    /\ UNCHANGED <<callerVars, obj, res, runs, queueVars, pcmd, draining,
                   runVars, kthreadVars, devVars, ctlVars, sctx_mutex>>

\* ... release sctx_mutex, ...
ThreadUnlock ==
    /\ tpc = "unlock"
    /\ sctx_mutex' = "free"
    /\ Goto("free")
    /\ UNCHANGED <<callerVars, objVars, queueVars, pcmd, draining, runVars,
                   kthreadVars, devVars, ctlVars>>

\* ... and rtw_free_cmd_obj, directly or at the end of the callback.
ThreadFree ==
    /\ tpc = "free"
    /\ obj' = [obj EXCEPT ![pcmd] = "freed"]
    /\ pcmd' = NoCmd
    /\ Goto(IF draining THEN "drain" ELSE "once")
    /\ UNCHANGED <<callerVars, obj_sctx, res, runs, queueVars, draining,
                   runVars, kthreadVars, devVars, ctlVars, sctx_mutex>>

\* rtw_rust_cmd_thread_stop: rtw_unregister_cmd_alive, ...
ThreadStop ==
    /\ tpc = "stop"
    /\ Goto("stop_flag")
    /\ UNCHANGED <<callerVars, objVars, queueVars, pcmd, draining, runVars,
                   kthreadVars, devVars, ctlVars, sctx_mutex>>

\* ... cmdthd_running = FALSE, ...
ThreadStopFlag ==
    /\ tpc = "stop_flag"
    /\ cmdthd_running' = FALSE
    /\ draining' = TRUE
    /\ Goto("drain")
    /\ UNCHANGED <<callerVars, objVars, queueVars, pcmd,
                   start_cmdthread_sema, kthreadVars, devVars, ctlVars,
                   sctx_mutex>>

\* ... answer what is queued with CMD_DROP, until the queue is empty, ...
ThreadDrain ==
    /\ tpc = "drain"
    /\ \/ /\ cmd_queue = <<>>
          /\ Goto("wait_stop")
          /\ UNCHANGED <<cmd_queue, pcmd>>
       \/ /\ cmd_queue # <<>>
          /\ pcmd' = Head(cmd_queue)
          /\ cmd_queue' = Tail(cmd_queue)
          /\ Goto("lock")
    /\ UNCHANGED <<callerVars, objVars, cmd_queue_sema, draining, runVars,
                   kthreadVars, devVars, ctlVars, sctx_mutex>>

\* ... rtw_thread_wait_stop, and the thread function returns.
ThreadWaitStop ==
    /\ tpc = "wait_stop"
    /\ should_stop
    /\ Goto("exited")
    /\ UNCHANGED <<callerVars, objVars, queueVars, pcmd, draining, runVars,
                   kthreadVars, devVars, ctlVars, sctx_mutex>>

Thread ==
    \/ ThreadNeverRuns \/ ThreadStart \/ ThreadDown \/ ThreadEvent \/ ThreadOnce
    \/ ThreadDequeue \/ ThreadIdle \/ ThreadFilter
    \/ \E ok \in BOOLEAN : ThreadAlive(ok)
    \/ ThreadEnqHead
    \/ \E r \in {"SUCCESS", "REJECTED"} : ThreadExec(r)
    \/ ThreadLock \/ ThreadInterrupted \/ ThreadCheck \/ ThreadStatus
    \/ ThreadComplete \/ ThreadNull \/ ThreadUnlock \/ ThreadFree
    \/ ThreadStop \/ ThreadStopFlag \/ ThreadDrain \/ ThreadWaitStop

-----------------------------------------------------------------------------
(* The path that opens, unloads and removes the interface.                 *)

\* _netdev_open with bup = FALSE: clear the two flags, start rtw_hal_init.
Open ==
    /\ ctl = "down"
    /\ opens < MaxOpen
    /\ surprise_removed' = FALSE
    /\ drv_stopped' = FALSE
    /\ opens' = opens + 1
    /\ ctl' = "threads"
    /\ UNCHANGED <<callerVars, objVars, queueVars, threadVars, runVars,
                   kthreadVars, hw_init_completed, bup, removing,
                   sctx_mutex>>

\* rtw_start_drv_threads, from _drv_enable_trx.
StartThread ==
    /\ ctl = "threads"
    /\ \/ /\ ~cmdThread
          /\ cmdThread' = TRUE
          /\ tpc' = "start"
          /\ draining' = FALSE
          /\ should_stop' = FALSE
          /\ ctl' = "wait_start"
       \/ /\ cmdThread
          /\ ctl' = "hal"
          /\ UNCHANGED <<cmdThread, tpc, draining, should_stop>>
       \/ /\ ~cmdThread            \* kthread_run fails
          /\ ctl' = "hal_fail"
          /\ UNCHANGED <<cmdThread, tpc, draining, should_stop>>
    /\ UNCHANGED <<callerVars, objVars, queueVars, pcmd, runVars, devVars,
                   bup, removing, opens, sctx_mutex>>

\* _rtw_down_sema(start_cmdthread_sema)
WaitStart ==
    /\ ctl = "wait_start"
    /\ start_cmdthread_sema > 0
    /\ start_cmdthread_sema' = start_cmdthread_sema - 1
    /\ ctl' = "hal"
    /\ UNCHANGED <<callerVars, objVars, queueVars, threadVars,
                   cmdthd_running, kthreadVars, devVars, bup, removing,
                   opens, sctx_mutex>>

\* A signal ends the wait; the result is ignored.
WaitStartInterrupted ==
    /\ ctl = "wait_start"
    /\ "open" \in Signalled
    /\ start_cmdthread_sema = 0
    /\ ctl' = "hal"
    /\ UNCHANGED <<callerVars, objVars, queueVars, threadVars, runVars,
                   kthreadVars, devVars, bup, removing, opens, sctx_mutex>>

\* The end of rtw_hal_init: the interface is up, or the open fails and
\* leaves the thread, if there is one, running.
HalInit ==
    /\ ctl \in {"hal", "hal_fail"}
    /\ \/ /\ ctl = "hal"
          /\ hw_init_completed' = TRUE /\ bup' = TRUE /\ ctl' = "up"
       \/ hw_init_completed' = FALSE /\ bup' = FALSE /\ ctl' = "down"
    /\ UNCHANGED <<callerVars, objVars, queueVars, threadVars, runVars,
                   kthreadVars, drv_stopped, surprise_removed, removing,
                   opens, sctx_mutex>>

\* Inactive power save: rtw_ips_dev_unload takes the hardware down ...
IpsDown ==
    /\ ctl = "up"
    /\ hw_init_completed
    /\ ~surprise_removed
    /\ hw_init_completed' = FALSE
    /\ UNCHANGED <<callerVars, objVars, queueVars, threadVars, runVars,
                   kthreadVars, drv_stopped, surprise_removed, ctlVars,
                   sctx_mutex>>

\* ... and ips_netdrv_open brings it back, with the thread still running.
IpsUp ==
    /\ ctl = "up"
    /\ ~hw_init_completed
    /\ drv_stopped' = FALSE
    /\ hw_init_completed' \in BOOLEAN       \* rtw_hal_init may fail
    /\ UNCHANGED <<callerVars, objVars, queueVars, threadVars, runVars,
                   kthreadVars, surprise_removed, ctlVars, sctx_mutex>>

\* An I/O path meets a dead device and calls rtw_set_surprise_removed.
SurpriseRemove ==
    /\ ctl \in {"hal", "up"}
    /\ ~surprise_removed
    /\ surprise_removed' = TRUE
    /\ UNCHANGED <<callerVars, objVars, queueVars, threadVars, runVars,
                   kthreadVars, drv_stopped, hw_init_completed, ctlVars,
                   sctx_mutex>>

\* rtw_suspend_common, rtw_dev_unload: rtw_set_drv_stopped.
Unload ==
    /\ ctl = "up"
    /\ ~CANNOT_RUN
    /\ drv_stopped' = TRUE
    /\ ctl' = "stop_up"
    /\ UNCHANGED <<callerVars, objVars, queueVars, threadVars, runVars,
                   kthreadVars, surprise_removed, hw_init_completed,
                   bup, removing, opens, sctx_mutex>>

\* rtw_dev_remove: with the driver still registered the device is gone.
Remove ==
    /\ ctl \in {"down", "up"}
    /\ removing' = TRUE
    /\ \/ surprise_removed' = TRUE
       \/ surprise_removed' = surprise_removed
    /\ ctl' = "remove"
    /\ UNCHANGED <<callerVars, objVars, queueVars, threadVars, runVars,
                   kthreadVars, drv_stopped, hw_init_completed, bup, opens,
                   sctx_mutex>>

\* rtw_dev_remove: rtw_set_drv_stopped, before rtw_stop_cmd_thread.
RemoveStop ==
    /\ ctl = "remove"
    /\ drv_stopped' = TRUE
    /\ ctl' = "stop_up"
    /\ UNCHANGED <<callerVars, objVars, queueVars, threadVars, runVars,
                   kthreadVars, surprise_removed, hw_init_completed,
                   bup, removing, opens, sctx_mutex>>

\* Variant: no up before kthread_stop.
StopNoUp ==
    /\ ctl = "stop_up"
    /\ ctl' = IF cmdThread THEN "kthread_stop" ELSE "unload"
    /\ UNCHANGED <<callerVars, objVars, queueVars, threadVars, runVars,
                   kthreadVars, devVars, bup, removing, opens, sctx_mutex>>

\* rtw_stop_cmd_thread: up cmd_queue_sema if there is a thread, ...
StopUp ==
    /\ ctl = "stop_up"
    /\ \/ /\ cmdThread
          /\ cmd_queue_sema' = cmd_queue_sema + 1
          /\ ctl' = "kthread_stop"
       \/ /\ ~cmdThread
          /\ cmd_queue_sema' = cmd_queue_sema
          /\ ctl' = "unload"
    /\ UNCHANGED <<callerVars, objVars, cmd_queue, threadVars, runVars,
                   kthreadVars, devVars, bup, removing, opens, sctx_mutex>>

\* ... kthread_stop, ...
KthreadStop ==
    /\ ctl = "kthread_stop"
    /\ should_stop' = TRUE
    /\ ctl' = "join"
    /\ UNCHANGED <<callerVars, objVars, queueVars, threadVars, runVars,
                   cmdThread, devVars, bup, removing, opens, sctx_mutex>>

\* Variant: the stop path does not wait for the thread.
JoinNoWait ==
    /\ ctl = "join"
    /\ cmdThread' = FALSE
    /\ ctl' = "unload"
    /\ UNCHANGED <<callerVars, objVars, queueVars, threadVars, runVars,
                   should_stop, devVars, bup, removing, opens, sctx_mutex>>

\* ... which waits for the thread to exit; cmdThread = NULL.
Join ==
    /\ ctl = "join"
    /\ tpc = "exited"
    /\ tpc' = "none"
    /\ cmdThread' = FALSE
    /\ ctl' = "unload"
    /\ UNCHANGED <<callerVars, objVars, queueVars, pcmd, draining, runVars,
                   should_stop, devVars, bup, removing, opens, sctx_mutex>>

\* The rest of rtw_dev_unload: rtw_hal_deinit, which may fail, unless the
\* device is gone.
UnloadRest ==
    /\ ctl = "unload"
    /\ \/ /\ bup /\ ~surprise_removed
          /\ \/ hw_init_completed' = FALSE
             \/ hw_init_completed' = hw_init_completed
          /\ surprise_removed' = TRUE
       \/ /\ ~bup \/ surprise_removed
          /\ UNCHANGED <<hw_init_completed, surprise_removed>>
    /\ bup' = FALSE
    /\ ctl' = IF removing THEN "removed" ELSE "down"
    /\ UNCHANGED <<callerVars, objVars, queueVars, threadVars, runVars,
                   kthreadVars, drv_stopped, removing, opens, sctx_mutex>>

Control ==
    \/ Open \/ StartThread \/ WaitStart \/ WaitStartInterrupted \/ HalInit
    \/ Unload \/ Remove
    \/ RemoveStop \/ StopUp \/ KthreadStop \/ Join \/ UnloadRest

Environment == ThreadSignal \/ SurpriseRemove \/ IpsDown \/ IpsUp

-----------------------------------------------------------------------------
Init ==
    /\ cmd_queue = <<>>
    /\ cmd_queue_sema = 0
    /\ start_cmdthread_sema = 0
    /\ cmdthd_running = FALSE
    /\ sctx_mutex = "free"
    /\ obj = [c \in Cmds |-> "none"]
    /\ obj_sctx = [c \in Cmds |-> FALSE]
    /\ res = [c \in Cmds |-> "SUCCESS"]       \* zeroed memory: H2C_SUCCESS
    /\ status = [c \in Cmds |-> "SUBMITTED"]
    /\ done = [c \in Cmds |-> FALSE]
    /\ pc = [c \in Cmds |-> "idle"]
    /\ ret = [c \in Cmds |-> "none"]
    /\ runs = [c \in Cmds |-> 0]
    /\ tpc = "none"
    /\ pcmd = NoCmd
    /\ draining = FALSE
    /\ should_stop = FALSE
    /\ cmdThread = FALSE
    /\ drv_stopped = FALSE
    /\ surprise_removed = FALSE
    /\ hw_init_completed = FALSE
    /\ ctl = "down"
    /\ bup = FALSE
    /\ removing = FALSE
    /\ opens = 0

Next ==
    \/ \E c \in Cmds : Caller(c)
    \/ Thread
    \/ Control
    \/ Environment

Spec == Init /\ [][Next]_vars

\* The scheduler runs a runnable context, time passes for a waiter, handlers
\* return; nobody has to issue a command, open, suspend or remove.
CallerStep(c) ==
    \/ EnqueueRefuse(c) \/ EnqueueAccept(c) \/ EnqueueInsert(c)
    \/ EnqueueUp(c) \/ WaitDone(c) \/ WaitTimeout(c) \/ WaiterLock(c)
    \/ WaiterInterrupted(c) \/ WaiterCheck(c) \/ WaiterClear(c)
    \/ WaiterReturn(c)

ControlStep ==
    \/ StartThread \/ WaitStart \/ WaitStartInterrupted \/ HalInit \/ RemoveStop \/ StopUp
    \/ KthreadStop \/ Join \/ UnloadRest

Fairness ==
    /\ WF_vars(Thread)
    /\ WF_vars(ControlStep)
    /\ \A c \in Cmds : WF_vars(CallerStep(c))

FairSpec == Spec /\ Fairness

-----------------------------------------------------------------------------
(* Properties.                                                             *)

QueueType ==
    /\ cmd_queue \in Seq(Cmds)
    /\ cmd_queue_sema \in Nat

ObjType ==
    /\ obj \in [Cmds -> {"none", "live", "freed"}]
    /\ obj_sctx \in [Cmds -> BOOLEAN]
    /\ res \in [Cmds -> {"SUCCESS", "REJECTED", "PARAMETERS_ERROR",
                          "DROPPED", "ENQ_HEAD"}]
    /\ runs \in [Cmds -> Nat]

CallerType ==
    /\ pc \in [Cmds -> CallerPC]
    /\ ret \in [Cmds -> {"none", "SUCCESS", "FAIL"}]
    /\ status \in [Cmds -> {"SUBMITTED", "SUCCESS", "CMD_ERROR",
                             "CMD_DROP"}]
    /\ done \in [Cmds -> BOOLEAN]

ThreadType ==
    /\ tpc \in ThreadPC
    /\ pcmd \in Cmds \cup {NoCmd}
    /\ draining \in BOOLEAN
    /\ sctx_mutex \in Cmds \cup {"thread", "free"}
    /\ cmdthd_running \in BOOLEAN
    /\ start_cmdthread_sema \in Nat

CtlType ==
    /\ ctl \in CtlPC
    /\ bup \in BOOLEAN
    /\ removing \in BOOLEAN
    /\ opens \in 0..MaxOpen
    /\ should_stop \in BOOLEAN
    /\ cmdThread \in BOOLEAN
    /\ drv_stopped \in BOOLEAN
    /\ surprise_removed \in BOOLEAN
    /\ hw_init_completed \in BOOLEAN

\* Every variable holds a value of the type its C declaration gives it, the
\* counters stay natural numbers and the queue holds command objects.
TypeOK == QueueType /\ ObjType /\ CallerType /\ ThreadType /\ CtlType

\* A live command object never points at the submit_ctx of a call that has
\* returned, and the pointer that rtw_sctx_done_err follows has not become
\* NULL since post_process or the drain tested it, however the timeout of
\* rtw_sctx_wait races them (and as long as no signal ends the wait for
\* sctx_mutex).
SctxFrameLive ==
    /\ \A c \in Cmds : obj[c] = "live" /\ obj_sctx[c] => pc[c] # "returned"
    /\ tpc \in {"status", "complete"} => obj_sctx[pcmd]

\* A waiter that clears cmdobj->sctx, because it saw the status SUBMITTED,
\* does so in an object that the thread has not freed since.
WaiterObjLive ==
    \A c \in Cmds : pc[c] = "clear" => obj[c] = "live"

\* rtw_cmd_thread sleeps on cmd_queue_sema with no count left and commands
\* queued only while the caller of the newest has yet to up the semaphore,
\* or when it put the oldest back itself (H2C_ENQ_HEAD): no wake-up is lost,
\* across any number of thread restarts.
NoLostWakeup ==
    tpc = "down" /\ cmd_queue_sema = 0 /\ cmd_queue # <<>>
        => \/ \E c \in Cmds : pc[c] = "up"
           \/ res[Head(cmd_queue)] = "ENQ_HEAD"

\* When rtw_stop_cmd_thread has returned, cmdthd_running is FALSE (the
\* "cmd_thread not stop !!" warning of rtw_dev_unload cannot fire), no
\* command is in hand and the thread does not hold sctx_mutex.
StoppedClean ==
    ctl = "unload" =>
        ~cmdthd_running /\ pcmd = NoCmd /\ sctx_mutex # "thread"

\* kthread_stop returns: the up of cmd_queue_sema that precedes it brings
\* the thread out of its sleep, past the drain and to rtw_thread_wait_stop.
StopTerminates == ctl = "kthread_stop" ~> ctl = "unload"

\* All calls that reached rtw_enqueue_cmd return, even when their commands
\* are never served: nobody waits for ever on the completion or the mutex.
CallReturns ==
    (\E c \in Cmds : pc[c] = "filter")
        ~> (\A c \in Cmds : pc[c] \in {"idle", "returned"})

\* The queued commands are eventually all taken out of the queue and done
\* with, unless the thread is gone or sleeps on a command it put back
\* (H2C_ENQ_HEAD).
QueuedServed ==
    cmd_queue # <<>> ~> \/ cmd_queue = <<>> /\ pcmd = NoCmd
                        \/ tpc \in {"none", "wait_stop", "exited"}
                        \/ /\ tpc = "down"
                           /\ cmd_queue # <<>>
                           /\ res[Head(cmd_queue)] = "ENQ_HEAD"

-----------------------------------------------------------------------------
(* The abstract service this implements.                                   *)

\* pcmd is taken but neither run nor refused yet.
InHand == tpc \in {"filter", "alive", "enq_head", "exec"}

\* pcmd is decided: it is being answered.
Answering == tpc \in {"lock", "check", "status", "complete", "null", "unlock",
                     "free"}

pendingBar == (IF InHand THEN <<pcmd>> ELSE <<>>) \o cmd_queue

outcomeBar ==
    [c \in Cmds |->
        IF runs[c] > 0
           THEN IF res[c] = "SUCCESS" THEN "succeeded" ELSE "failed"
        ELSE IF obj[c] = "freed" \/ (Answering /\ pcmd = c)
           THEN "refused" ELSE "none"]

Service == INSTANCE CmdService
             WITH pending <- pendingBar, outcome <- outcomeBar, reply <- ret

\* The thread, its callers and the stop path together implement CmdService:
\* first come first served, served once, and no false SUCCESS.
ServiceSpec == Service!Spec
=============================================================================
