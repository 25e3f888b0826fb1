--------------------------- MODULE DetectPipeline ---------------------------
(***************************************************************************)
(* From a frame to an alert, while tasks are reconfigured.                 *)
(*                                                                         *)
(* A camera thread publishes a frame on the message bus, which calls       *)
(* CDetectAlg::ProcMat of that data source and from there, for each report *)
(* topic, CCommSafeDetect::ProResultMsg of a task: all in the camera's     *)
(* thread.  A TCP handler (0x13, 0x14) runs CAppModuleMng::AppUpdate,      *)
(* which calls CCommSafeDetect::Init of each listed task and from there    *)
(* CDetectAlgMng::CreateAlgObj and CDetectAlg::Init of each data source:   *)
(* all in the handler's thread.  The two paths meet at two mutexes, the    *)
(* m_CfgMutex of a task and the m_mapReportTopicMutex of a data source,    *)
(* and at the alert table.                                                 *)
(*                                                                         *)
(* A mutex is held exactly while its holder is in certain steps, so the    *)
(* holders are read off the program counters.  One handler at a time       *)
(* updates (CCfgMng has no lock at all), and maps are visited in any order.*)
(***************************************************************************)
EXTENDS Integers, FiniteSets

CONSTANTS
    Task,         \* detection tasks of the CommSafe application
    Source,       \* data sources: cameras with their CDetectAlg
    SourceLists,  \* bound: the data_src lists a task is given, some SUBSET Source
    QueueSize,    \* s32QueueSize
    MaxUpdate,    \* bound: updates in a behaviour
    MaxId,        \* bound: rows inserted in a behaviour
    MaxLate       \* bound: deletes that fail one after the other

ASSUME SourceAssumption == SourceLists \subseteq SUBSET Source

VARIABLES
    on,           \* configured detection tasks with start_time # end_time
    src,          \* configured data sources of each task, as far as Transfer has them:
                  \* GetAppModuleTaskLst leaves the others out without a word
    found,        \* every other lookup of the last StartAppModule was successful
    listed,       \* m_mapTaskCfg: the tasks that StartAppModule hands to InitModuleDll
    updates,      \* updates so far; the first one is StartAppModule by main
    hnd,          \* the handler: [pc, todo, task, srcs]
    dataSrc,      \* m_mapDataSrc of each task
    topics,       \* m_mapResultReportTopic of each data source: tasks
    loaded,       \* data sources whose m_mapAlgModel has an entry
    attached,     \* data sources whose ProcMat is attached to the frames
    cam,          \* the camera threads: [pc, todo, task]
    rows, seq, late   \* the alert table

config == <<on, src, found, listed, updates>>
detect == <<dataSrc, topics, loaded, attached>>
store == <<rows, seq, late>>
vars == <<config, hnd, detect, cam, store>>

\* What camera s does with the alert of task t, for the table's eyes.
writer == [t \in Task |-> IF \E s \in Source : cam[s].pc = "deleted" /\ cam[s].task = t
                          THEN "deleted" ELSE "idle"]

Table == INSTANCE AlertTable WITH Writer <- Task, w <- writer

NoTask == "none"

\* The lists that the enabled tasks T can end up in.  An enabled task of the
\* application whose algorithm is not configured ends the loop, so that the tasks
\* after it are left out, in an order that is the tool's; a Transfer node without
\* SouthTcpSvr ends StartAppModule before the loop.  Nobody hears of either.
GetAppModuleTaskLst(T, ok) == IF ok THEN {T} ELSE SUBSET T

Init ==
    /\ on \in SUBSET Task /\ src \in [Task -> SourceLists]
    /\ found \in BOOLEAN /\ listed \in GetAppModuleTaskLst(on, found)
    /\ updates = 0
    /\ hnd = [pc |-> "tasks", todo |-> listed, task |-> NoTask, srcs |-> {}]
    /\ loaded = {} /\ attached = {}
    /\ dataSrc = [t \in Task |-> {}]
    /\ topics = [s \in Source |-> {}]
    /\ cam = [s \in Source |-> [pc |-> "idle", todo |-> {}, task |-> NoTask]]
    /\ rows = {} /\ seq = 0 /\ late = 0

\* m_CfgMutex of task t is free: Init holds it until CreateAlgObj has returned,
\* ProResultMsg from its first line to its last.
CfgMutexFree(t) ==
    /\ ~(hnd.pc = "create" /\ hnd.task = t)
    /\ \A s \in Source : ~(cam[s].pc \in {"proc", "deleted"} /\ cam[s].task = t)

\* m_mapReportTopicMutex of data source s is free: ProcMat holds it while it
\* reports a result to every topic.
TopicMutexFree(s) == cam[s].pc = "idle"
-----------------------------------------------------------------------------
\* RuntimeSysCfgUpdate, then AppUpdate: the tasks V that GetAppModuleTaskLst lists of
\* the enabled tasks T are visited, the others are skipped.
Update(T, S, ok, V) ==
    /\ hnd.pc = "idle" /\ updates < MaxUpdate
    /\ updates' = updates + 1
    /\ on' = T /\ found' = ok /\ listed' = V
    /\ src' = [t \in Task |-> IF t \in T THEN S[t] ELSE src[t]]
    /\ hnd' = [hnd EXCEPT !.pc = "tasks", !.todo = V]
    /\ UNCHANGED <<detect, cam, store>>

\* m_mapDataSrc keeps the data sources of before.
Bug_TaskInit(t) ==
    /\ hnd.pc = "tasks" /\ t \in hnd.todo
    /\ CfgMutexFree(t)
    /\ hnd' = [pc |-> "create", todo |-> hnd.todo \ {t}, task |-> t, srcs |-> src[t]]
    /\ dataSrc' = [dataSrc EXCEPT ![t] = @ \cup src[t]]
    /\ UNCHANGED <<config, topics, loaded, attached, cam, store>>

\* CCommSafeDetect::Init without its lock.
Bug_TaskInitUnlocked(t) ==
    /\ hnd.pc = "tasks" /\ t \in hnd.todo
    /\ hnd' = [pc |-> "create", todo |-> hnd.todo \ {t}, task |-> t, srcs |-> src[t]]
    /\ dataSrc' = [dataSrc EXCEPT ![t] = src[t]]
    /\ UNCHANGED <<config, topics, loaded, attached, cam, store>>

\* AlgInit and CCommSafeDetect::Init up to the SendReq: the object is created
\* and subscribes to its results (once, before any topic names it, so that no state
\* is kept for it), m_CfgMutex is taken, m_mapDataSrc is replaced.
TaskInit(t) ==
    /\ hnd.pc = "tasks" /\ t \in hnd.todo
    /\ CfgMutexFree(t)
    /\ hnd' = [pc |-> "create", todo |-> hnd.todo \ {t}, task |-> t, srcs |-> src[t]]
    /\ dataSrc' = [dataSrc EXCEPT ![t] = src[t]]
    /\ UNCHANGED <<config, topics, loaded, attached, cam, store>>

\* CreateAlgObj, one data source: CDetectAlg::Init with SetReportTopic under the
\* data source's mutex, the load of the model, which is tried once and may fail,
\* and the subscription to the frames, which a failed load leaves for next time.
AlgInit(s) ==
    /\ hnd.pc = "create" /\ s \in hnd.srcs
    /\ TopicMutexFree(s)
    /\ topics' = [topics EXCEPT ![s] = @ \cup {hnd.task}]
    /\ loaded' = loaded \cup {s}
    /\ \/ attached' = attached \cup {s}
       \/ s \notin loaded /\ UNCHANGED attached
    /\ hnd' = [hnd EXCEPT !.srcs = @ \ {s}]
    /\ UNCHANGED <<config, dataSrc, cam, store>>

\* CreateAlgObj and Init return; m_CfgMutex is released.
TaskInitDone ==
    /\ hnd.pc = "create" /\ hnd.srcs = {}
    /\ hnd' = [hnd EXCEPT !.pc = "tasks", !.task = NoTask]
    /\ UNCHANGED <<config, detect, cam, store>>

\* StartAppModule returns and the handler replies "ok", whatever was listed.
Reply ==
    /\ hnd.pc = "tasks" /\ hnd.todo = {}
    /\ hnd' = [hnd EXCEPT !.pc = "idle"]
    /\ UNCHANGED <<config, detect, cam, store>>
-----------------------------------------------------------------------------
Goto(s, pc) == cam' = [cam EXCEPT ![s].pc = pc]

\* ProcMat found something in the frame.  main starts the cameras after
\* StartAppModule has returned.
ProcMat(s) ==
    /\ cam[s].pc = "idle" /\ s \in attached
    /\ updates = 0 => hnd.pc = "idle"
    /\ cam' = [cam EXCEPT ![s] = [pc |-> "report", todo |-> topics[s], task |-> NoTask]]
    /\ UNCHANGED <<config, hnd, detect, store>>

\* SendReq to the next report topic: the task's ProResultMsg.
Report(s, t) ==
    /\ cam[s].pc = "report" /\ t \in cam[s].todo
    /\ cam' = [cam EXCEPT ![s] = [pc |-> "want", todo |-> @.todo \ {t}, task |-> t]]
    /\ UNCHANGED <<config, hnd, detect, store>>

\* ProResultMsg without its lock.
Bug_ProResultMsg(s) ==
    /\ cam[s].pc = "want"
    /\ Goto(s, IF s \in dataSrc[cam[s].task] THEN "proc" ELSE "report")
    /\ UNCHANGED <<config, hnd, detect, store>>

\* ProResultMsg takes m_CfgMutex and filters by data source.
ProResultMsg(s) ==
    /\ cam[s].pc = "want"
    /\ CfgMutexFree(cam[s].task)
    /\ Goto(s, IF s \in dataSrc[cam[s].task] THEN "proc" ELSE "report")
    /\ UNCHANGED <<config, hnd, detect, store>>

\* One entry of m_lstStrTask has a target: delete the oldest alerts ...
DeleteOld(s) ==
    /\ cam[s].pc = "proc"
    /\ Table!DeleteStmt
    /\ Goto(s, "deleted")
    /\ UNCHANGED <<config, hnd, detect, seq>>

\* ... and save the new one.
SaveAlert(s) ==
    /\ cam[s].pc = "deleted"
    /\ Table!InsertStmt
    /\ Goto(s, "proc")
    /\ UNCHANGED <<config, hnd, detect, late>>

\* No further entry of m_lstStrTask: ProResultMsg returns, m_CfgMutex is released.
ProResultDone(s) ==
    /\ cam[s].pc = "proc"
    /\ Goto(s, "report")
    /\ UNCHANGED <<config, hnd, detect, store>>

\* The last topic was served: ProcMat releases m_mapReportTopicMutex.
ProcMatDone(s) ==
    /\ cam[s].pc = "report" /\ cam[s].todo = {}
    /\ Goto(s, "idle")
    /\ UNCHANGED <<config, hnd, detect, store>>

Handler == TaskInitDone \/ Reply \/ (\E t \in Task : TaskInit(t)) \/ (\E s \in Source : AlgInit(s))

Camera(s) == \/ \E t \in Task : Report(s, t)
             \/ ProResultMsg(s) \/ DeleteOld(s) \/ SaveAlert(s) \/ ProResultDone(s) \/ ProcMatDone(s)

Next ==
    \/ \E T \in SUBSET Task, S \in [Task -> SourceLists], ok \in BOOLEAN :
         \E V \in GetAppModuleTaskLst(T, ok) : Update(T, S, ok, V)
    \/ Handler
    \/ \E s \in Source : ProcMat(s) \/ Camera(s)

\* The threads are scheduled; a mutex that is free time and again is obtained; the
\* list of a task is finite; cameras go on delivering frames.
Fairness ==
    /\ SF_vars(Handler)
    /\ \A s \in Source : /\ SF_vars(Camera(s)) /\ WF_vars(ProcMat(s))
                         /\ SF_vars(ProResultDone(s))

SafeSpec == Init /\ [][Next]_vars

Spec == SafeSpec /\ Fairness
-----------------------------------------------------------------------------
\* Type correctness; in particular a report that waits for m_CfgMutex or holds it
\* belongs to a task, and only data sources with a model take frames.
TypeOK ==
    /\ on \subseteq Task /\ src \in [Task -> SourceLists] /\ updates \in Nat
    /\ found \in BOOLEAN /\ listed \in GetAppModuleTaskLst(on, found)
    /\ hnd \in [pc : {"idle", "tasks", "create"}, todo : SUBSET Task,
                task : Task \cup {NoTask}, srcs : SUBSET Source]
    /\ hnd.pc = "create" => hnd.task \in Task
    /\ dataSrc \in [Task -> SUBSET Source]
    /\ topics \in [Source -> SUBSET Task]
    /\ attached \subseteq loaded /\ loaded \subseteq Source
    /\ cam \in [Source -> [pc : {"idle", "report", "want", "proc", "deleted"},
                           todo : SUBSET Task, task : Task \cup {NoTask}]]
    /\ \A s \in Source : cam[s].pc \in {"want", "proc", "deleted"} => cam[s].task \in Task
    /\ Table!TableTypeOK

Holders(t) == {s \in Source : cam[s].pc \in {"proc", "deleted"} /\ cam[s].task = t}

\* m_CfgMutex is a mutex: the camera threads that report to a task, and the handler
\* that initialises it, come one at a time.
OneHolder ==
    \A t \in Task : /\ \A r, s \in Holders(t) : r = s
                    /\ hnd.pc = "create" /\ hnd.task = t => Holders(t) = {}

\* A task writes alerts only of data sources it is configured for at that moment: no
\* update takes effect between the filter in ProResultMsg and the insert.
AlertsConfigured ==
    \A s \in Source : cam[s].pc \in {"proc", "deleted"} => s \in dataSrc[cam[s].task]

\* The invariant the proofs use.
IInv == TypeOK /\ OneHolder /\ AlertsConfigured

\* Task t filters by exactly its configured data sources and every one of these
\* reports to it.
InForce(t) == dataSrc[t] = src[t] /\ \A s \in src[t] : t \in topics[s]

\* Once an update is answered, it is in force for every enabled task if every lookup
\* of StartAppModule was successful, and otherwise for the tasks before the early
\* return, whatever the camera threads did meanwhile.
UpdateInForce ==
    hnd.pc = "idle" => \A t \in on : found \/ t \in listed => InForce(t)

\* The strengthening of UpdateInForce: in the middle of an update, a listed task is
\* still to be visited, or has its data sources and lacks a report topic only at those
\* that CreateAlgObj has not reached.
UpdateOnItsWay ==
    \A t \in listed :
        \/ hnd.pc # "idle" /\ t \in hnd.todo
        \/ /\ dataSrc[t] = src[t]
           /\ \A s \in src[t] :
                t \in topics[s] \/ (hnd.pc = "create" /\ hnd.task = t /\ s \in hnd.srcs)

\* "通过开始时间和结束时间来判断使能" (the times decide which tasks are enabled) and
\* "server -> cli : {"result":"ok/fail"}": an update answered "ok" is in force for
\* every task whose times enable it.
AnsweredOkInForce == hnd.pc = "idle" /\ updates > 0 => \A t \in on : InForce(t)

\* The alert table grows by one writer for each task, not for each camera: the
\* pipeline implements AlertTable with the tasks as its writers.
ImplementsAlertTable == Table!TableSpec

\* "server -> cli : {"result":"ok/fail"}": an update is answered.
UpdateAnswered == hnd.pc # "idle" ~> hnd.pc = "idle"

\* "通过开始时间和结束时间来判断使能": a task that stays disabled comes to rest.
DisabledTasksStop ==
    \A t \in Task :
        <>[](t \notin on) => <>[](\A s \in Source : ~(cam[s].pc = "deleted" /\ cam[s].task = t))
=============================================================================
