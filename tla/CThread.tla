------------------------------ MODULE CThread ------------------------------
(***************************************************************************)
(* common_cmmobj::CThread (common/cmmobj/thread/Thread.{h,cpp}): a thread  *)
(* that runs a callback every period until its destructor signals i_cv.    *)
(*                                                                         *)
(* ThreadLoop locks i_mutex, waits on i_cv for one period, runs the        *)
(* callback with i_mutex still locked, unlocks it and starts again.  The   *)
(* destructor (Unit) locks i_mutex, signals i_cv, unlocks and joins.       *)
(* Nothing but the signal tells the loop to stop, and the loop leaves with *)
(* i_mutex locked.                                                         *)
(*                                                                         *)
(* The callbacks are actions of the modules that use this one; they run    *)
(* while loop[o] = "cb" and end with CbReturn(o).                          *)
(***************************************************************************)
CONSTANTS
    Obj,                 \* the CThread objects
    SubSecond            \* those whose period has milliseconds (s32mSecCycle > 0)

VARIABLES loop, unit

\* loop: "none" no thread, "top" before pthread_mutex_lock, "wait" inside
\* pthread_cond_timedwait, "signalled" signalled and waiting for i_mutex,
\* "cb" in the callback, "exited" after pthread_exit.
LoopStates == {"none", "top", "wait", "signalled", "cb", "exited"}

\* unit: what the destructor does: wait for i_mutex, or join.
UnitStates == {"none", "lock", "join"}

CThreadTypeOK == loop \in [Obj -> LoopStates] /\ unit \in [Obj -> UnitStates]

CThreadInit == loop = [o \in Obj |-> "none"] /\ unit = [o \in Obj |-> "none"]

\* i_mutex is held through the callback, and for ever by a loop that has exited.
MutexFree(o) == loop[o] \notin {"cb", "exited"}

\* CThread::CThread, Init and CreatThread.
Create(o) ==
    /\ loop[o] = "none"
    /\ loop' = [loop EXCEPT ![o] = "top"]
    /\ UNCHANGED unit

\* pthread_mutex_lock and the entry of pthread_cond_timedwait, which unlocks.
LoopWait(o) ==
    /\ loop[o] = "top" /\ MutexFree(o)
    /\ loop' = [loop EXCEPT ![o] = "wait"]
    /\ UNCHANGED unit

\* The period has passed.  GetTv does not carry tv_nsec into tv_sec: with a
\* period in milliseconds the wait fails at once with EINVAL near a full second.
LoopTimeout(o) ==
    /\ loop[o] = "wait" \/ (loop[o] = "top" /\ o \in SubSecond)
    /\ loop' = [loop EXCEPT ![o] = "cb"]
    /\ UNCHANGED unit

\* m_Cb() returns and i_mutex is unlocked.
CbReturn(o) ==
    /\ loop[o] = "cb"
    /\ loop' = [loop EXCEPT ![o] = "top"]
    /\ UNCHANGED unit

\* pthread_cond_timedwait returned 0: break and pthread_exit, i_mutex locked.
\* After a signal, or spuriously, which POSIX allows.
LoopExit(o) ==
    /\ loop[o] \in {"signalled", "wait"} /\ MutexFree(o)
    /\ loop' = [loop EXCEPT ![o] = "exited"]
    /\ UNCHANGED unit

\* ~CThread begins.
Destroy(o) ==
    /\ loop[o] # "none" /\ unit[o] = "none"
    /\ unit' = [unit EXCEPT ![o] = "lock"]
    /\ UNCHANGED loop

\* lock, signal, unlock: only a loop that waits receives the signal.
UnitSignal(o) ==
    /\ unit[o] = "lock" /\ MutexFree(o)
    /\ unit' = [unit EXCEPT ![o] = "join"]
    /\ loop' = [loop EXCEPT ![o] = IF loop[o] = "wait" THEN "signalled" ELSE loop[o]]

\* pthread_join returns; mutex and condition variable are destroyed.
UnitJoined(o) ==
    /\ unit[o] = "join" /\ loop[o] = "exited"
    /\ unit' = [unit EXCEPT ![o] = "none"]
    /\ loop' = [loop EXCEPT ![o] = "none"]

\* The destructor of o can never return: its signal met no waiter and none will
\* come again, or the loop left with i_mutex locked before it was asked to.
StopLost(o) ==
    \/ unit[o] = "join" /\ loop[o] \in {"top", "wait", "cb"}
    \/ unit[o] = "lock" /\ loop[o] = "exited"
=============================================================================
