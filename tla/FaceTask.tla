------------------------------ MODULE FaceTask ------------------------------
(***************************************************************************)
(* Face recognition while tasks are reconfigured and faces registered.     *)
(*                                                                         *)
(* There is one CFaceAlg.  A camera thread publishes a frame, the bus runs *)
(* CFaceAlg::ProcVideoStream once for each subscription, which compares    *)
(* each face of the frame with the registered features and reports the     *)
(* best match to every task (CCommSafeFace::ProResultMsg), all in the      *)
(* camera's thread.  A handler of 0x13 runs CCommSafeFace::Init of every   *)
(* enabled task and from there CFaceAlg::Init; handlers of 0x71 and 0x72   *)
(* run FaceRegiste, which stores a face, reads all faces back and hands    *)
(* them to the algorithm.                                                  *)
(*                                                                         *)
(* The threads meet at m_mapFaceFeatureMutex and m_mapReportTopicMutex,    *)
(* held by a camera while it reports, and at the two tables.  Their holders*)
(* are read off the program counters.  The mutexes of a task guard single  *)
(* reads and writes.  A face is its id in FaceRegisteTable, where nothing  *)
(* is ever deleted: the table, and any list read from it, is a number.     *)
(* main starts cameras and handlers after the first initialisation.        *)
(***************************************************************************)
EXTENDS Integers, FiniteSets

CONSTANTS
    Task,         \* face tasks
    Source,       \* cameras
    Registrar,    \* threads that serve 0x71 and 0x72
    SourceLists,  \* bound: the data_src lists a task is given, some SUBSET Source
    QueueSize,    \* s32QueueSize
    MaxUpdate,    \* bound: updates in a behaviour
    MaxFaces,     \* bound: registered faces
    MaxInFrame,   \* bound: faces found in a frame
    MaxRestart,   \* bound: restarts of the process
    MaxId,        \* bound: alerts inserted in a behaviour
    MaxLate       \* bound: deletes that fail one after the other

ASSUME FaceAssumption ==
    /\ SourceLists \subseteq SUBSET Source
    /\ QueueSize \in Nat \ {0}
    /\ {MaxUpdate, MaxFaces, MaxInFrame, MaxRestart, MaxId, MaxLate} \subseteq Nat

VARIABLES
    on,           \* tasks that GetAppModuleTaskLst lists of the configuration
    src,          \* configured data sources of each task that Transfer has
    updates,      \* updates so far
    restarts,     \* restarts so far
    hnd,          \* the handler of 0x13: [pc, todo, task, list]
    reg,          \* the handlers of 0x71 and 0x72: [pc, list]
    dataSrc,      \* m_mapDataSrc of each task
    topics,       \* m_mapResultReportTopic: tasks
    subs,         \* how often ProcVideoStream is attached to each camera
    features,     \* m_mapFaceFeature: the faces 1..features
    ready,        \* m_bAlgInit
    faces,        \* FaceRegisteTable: the faces 1..faces
    cam,          \* the camera threads
    rows, seq, late,  \* FaceReportTable, see AlertTable
    who,          \* the face_id of each alert in FaceReportTable
    mixed         \* the lists of two handlers overlapped since features was set alone

config == <<on, src, updates, restarts>>
alg == <<dataSrc, topics, subs, ready>>
lists == <<features, mixed>>
store == <<rows, seq, late, who>>
vars == <<config, hnd, reg, alg, lists, faces, cam, store>>

NoTask == "none"
Resting == [pc |-> "idle", left |-> 0, face |-> 0, todo |-> {}]

\* The camera thread between the two statements of an alert, for the table's eyes.
writer == [f \in {"face"} |-> IF \E s \in Source : cam[s].pc = "insert" THEN "deleted" ELSE "idle"]

Table == INSTANCE AlertTable WITH Writer <- {"face"}, w <- writer

\* StartAppModule, called by main, is about to visit the listed tasks.
Start == [pc |-> "tasks", todo |-> on, task |-> NoTask, list |-> 0, main |-> TRUE]
NoList == [pc |-> "idle", list |-> 0]

Init ==
    /\ on \in SUBSET Task /\ src \in [Task -> SourceLists]
    /\ hnd = Start
    /\ reg = [r \in Registrar |-> NoList]
    /\ dataSrc = [t \in Task |-> {}] /\ topics = {} /\ subs = [s \in Source |-> 0]
    /\ features = 0 /\ ready = FALSE /\ mixed = FALSE
    /\ cam = [s \in Source |-> Resting]
    /\ updates = 0 /\ restarts = 0
    /\ faces = 0 /\ rows = {} /\ seq = 0 /\ late = 0 /\ who = [i \in {} |-> 0]

\* The process dies and starts again; configuration and tables are on disk.
Restart ==
    /\ restarts < MaxRestart /\ restarts' = restarts + 1
    /\ hnd' = Start
    /\ reg' = [r \in Registrar |-> NoList]
    /\ dataSrc' = [t \in Task |-> {}] /\ topics' = {} /\ subs' = [s \in Source |-> 0]
    /\ features' = 0 /\ ready' = FALSE /\ mixed' = FALSE
    /\ cam' = [s \in Source |-> Resting]
    /\ UNCHANGED <<on, src, updates, faces, store>>

\* m_mapFaceFeatureMutex: from the comparison of a face to the end of its report.
Holding == {"matched", "report", "delete", "insert"}
FeatureMutexFree == \A s \in Source : cam[s].pc \notin Holding

\* CFaceAlg::Init keeps the topics locked until it has replaced the features.
Bug_TopicMutexFree ==
    /\ \A s \in Source : cam[s].pc \notin {"report", "delete", "insert"}
    /\ hnd.pc # "features"

\* m_mapReportTopicMutex: while a face is reported to all topics.
TopicMutexFree == \A s \in Source : cam[s].pc \notin {"report", "delete", "insert"}
-----------------------------------------------------------------------------
\* Handlers that have stored a face or read a list and are to hand it to the algorithm.
Listing == {r \in Registrar : reg[r].pc # "idle"} \cup
           (IF hnd.pc \in {"topic", "features"} THEN {"handler"} ELSE {})

\* mixed starts anew when such an operation begins alone.
BeginList == mixed' = (Listing # {})

\* RuntimeSysCfgUpdate, then AppUpdate: the tasks T that GetAppModuleTaskLst lists are
\* visited.  Any tasks may be listed: those whose times enable them, up to the first
\* one whose algorithm is not found, none if the Transfer node has no SouthTcpSvr.
Update(T, S) ==
    /\ hnd.pc = "idle" /\ updates < MaxUpdate
    /\ updates' = updates + 1
    /\ on' = T
    /\ src' = [t \in Task |-> IF t \in T THEN S[t] ELSE src[t]]
    /\ hnd' = [hnd EXCEPT !.pc = "tasks", !.todo = T]
    /\ UNCHANGED <<restarts, reg, alg, lists, faces, cam, store>>

\* CCommSafeFace::Init up to SetDataSrc; the subscription to the results is made
\* once and before any topic names the task.
TaskInit(t) ==
    /\ hnd.pc = "tasks" /\ t \in hnd.todo
    /\ hnd' = [hnd EXCEPT !.pc = "read", !.todo = @ \ {t}, !.task = t]
    /\ dataSrc' = [dataSrc EXCEPT ![t] = src[t]]
    /\ UNCHANGED <<config, reg, topics, subs, ready, lists, faces, cam, store>>

\* ReadFaceFeatureLst in Init.
ReadFaceFeatureLst ==
    /\ hnd.pc = "read"
    /\ hnd' = [hnd EXCEPT !.pc = "topic", !.list = faces]
    /\ BeginList
    /\ UNCHANGED <<config, reg, alg, features, faces, cam, store>>

\* CreateAlgObj and CFaceAlg::Init: SetReportTopic, and the networks once.
SetReportTopic ==
    /\ hnd.pc = "topic"
    /\ TopicMutexFree
    /\ topics' = topics \cup {hnd.task} /\ ready' = TRUE
    /\ hnd' = [hnd EXCEPT !.pc = "features"]
    /\ UNCHANGED <<config, reg, dataSrc, subs, lists, faces, cam, store>>

\* CFaceAlg::Init: SetFaceFeature, and DataSrcInit, which subscribes to every data
\* source again because m_mapDataSrcTopic stays empty.
SetFaceFeature ==
    /\ hnd.pc = "features"
    /\ FeatureMutexFree
    /\ features' = hnd.list
    /\ subs' = [s \in Source |-> IF s \in src[hnd.task] THEN subs[s] + 1 ELSE subs[s]]
    /\ hnd' = [hnd EXCEPT !.pc = "tasks", !.task = NoTask, !.list = 0]
    /\ UNCHANGED <<config, reg, dataSrc, topics, ready, mixed, faces, cam, store>>

\* StartAppModule returns; the handler replies, or main starts cameras and servers.
Reply ==
    /\ hnd.pc = "tasks" /\ hnd.todo = {}
    /\ hnd' = [hnd EXCEPT !.pc = "idle", !.main = FALSE]
    /\ UNCHANGED <<config, reg, alg, lists, faces, cam, store>>
-----------------------------------------------------------------------------
\* The new face is added to the list without reading the table back.
Bug_FaceRegiste(r) ==
    /\ reg[r].pc = "idle" /\ ~hnd.main /\ ready /\ faces < MaxFaces
    /\ faces' \in {faces, faces + 1}
    /\ reg' = [reg EXCEPT ![r] = [pc |-> "update", list |-> faces + 1]]
    /\ BeginList
    /\ UNCHANGED <<config, hnd, alg, features, cam, store>>

\* FaceRegiste: the features of the photos are extracted (when none can be, the
\* request is answered "fail" and nothing happened), and the face is inserted, or
\* the insert fails, which nobody looks at.
FaceRegiste(r) ==
    /\ reg[r].pc = "idle" /\ ~hnd.main /\ ready /\ faces < MaxFaces
    /\ faces' \in {faces, faces + 1}
    /\ reg' = [reg EXCEPT ![r].pc = "read"]
    /\ BeginList
    /\ UNCHANGED <<config, hnd, alg, features, cam, store>>

\* ReadFaceFeatureLst in FaceRegiste.
ReadFaces(r) ==
    /\ reg[r].pc = "read"
    /\ reg' = [reg EXCEPT ![r] = [pc |-> "update", list |-> faces]]
    /\ UNCHANGED <<config, hnd, alg, lists, faces, cam, store>>

\* The list is only taken over by an algorithm that has none yet.
Bug_FaceFeatureUpdate(r) ==
    /\ reg[r].pc = "update"
    /\ FeatureMutexFree
    /\ features' = IF features = 0 THEN reg[r].list ELSE features
    /\ reg' = [reg EXCEPT ![r] = NoList]
    /\ UNCHANGED <<config, hnd, alg, mixed, faces, cam, store>>

\* CFaceAlgMng::FaceFeatureUpdate, and the answer "ok".
FaceFeatureUpdate(r) ==
    /\ reg[r].pc = "update"
    /\ FeatureMutexFree
    /\ features' = reg[r].list
    /\ reg' = [reg EXCEPT ![r] = NoList]
    /\ UNCHANGED <<config, hnd, alg, mixed, faces, cam, store>>
-----------------------------------------------------------------------------
CamStep(s, c) ==
    /\ cam' = [cam EXCEPT ![s] = c]
    /\ UNCHANGED <<config, hnd, reg, alg, lists, faces>>

\* The bus delivers a frame with n faces to every subscription, one after the
\* other, and each run of ProcVideoStream finds them again.
ProcVideoStream(s, n) ==
    /\ cam[s].pc = "idle" /\ ~hnd.main /\ subs[s] > 0
    /\ CamStep(s, [Resting EXCEPT !.pc = "face", !.left = n * subs[s]])
    /\ UNCHANGED store

\* The faces that are left after this one.
NextFace(s) == IF cam[s].left = 1 THEN Resting ELSE [Resting EXCEPT !.pc = "face", !.left = cam[s].left - 1]

\* No registered face is close enough (f = 0), or face f is the closest.
Compare(s, f) ==
    /\ cam[s].pc = "face"
    /\ FeatureMutexFree
    /\ CamStep(s, IF f = 0 THEN NextFace(s) ELSE [cam[s] EXCEPT !.pc = "matched", !.face = f])
    /\ UNCHANGED store

\* m_mapReportTopicMutex is taken.
Report(s) ==
    /\ cam[s].pc = "matched"
    /\ TopicMutexFree
    /\ CamStep(s, [cam[s] EXCEPT !.pc = "report", !.todo = topics])
    /\ UNCHANGED store

\* ProResultMsg of the next task: GetDataSrc.
ProResultMsg(s, t) ==
    /\ cam[s].pc = "report" /\ t \in cam[s].todo
    /\ CamStep(s, [cam[s] EXCEPT !.pc = IF s \in dataSrc[t] THEN "delete" ELSE "report",
                                 !.todo = @ \ {t}])
    /\ UNCHANGED store

\* The oldest alerts are not deleted.
Bug_DeleteOld(s) ==
    /\ cam[s].pc = "delete"
    /\ CamStep(s, [cam[s] EXCEPT !.pc = "insert"])
    /\ UNCHANGED store

\* Both statements of the alert, as in AlertTable.
DeleteOld(s) ==
    /\ cam[s].pc = "delete"
    /\ Table!DeleteStmt
    /\ who' = [i \in rows' |-> who[i]]
    /\ CamStep(s, [cam[s] EXCEPT !.pc = "insert"])
    /\ UNCHANGED seq

SaveAlert(s) ==
    /\ cam[s].pc = "insert"
    /\ Table!InsertStmt
    /\ who' = [i \in rows' |-> IF i \in rows THEN who[i] ELSE cam[s].face]
    /\ CamStep(s, [cam[s] EXCEPT !.pc = "report"])
    /\ UNCHANGED late

\* Every topic was served: both mutexes are released, and the next face follows.
ReportDone(s) ==
    /\ cam[s].pc = "report" /\ cam[s].todo = {}
    /\ CamStep(s, NextFace(s))
    /\ UNCHANGED store

Handler == \/ \E t \in Task : TaskInit(t)
           \/ ReadFaceFeatureLst \/ SetReportTopic \/ SetFaceFeature \/ Reply

Register(r) == ReadFaces(r) \/ FaceFeatureUpdate(r)

Camera(s) == \/ Report(s) \/ DeleteOld(s) \/ SaveAlert(s) \/ ReportDone(s)
             \/ \E f \in 0..features : Compare(s, f)
             \/ \E t \in Task : ProResultMsg(s, t)

Next ==
    \/ \E T \in SUBSET Task, S \in [Task -> SourceLists] : Update(T, S)
    \/ Handler
    \/ \E r \in Registrar : FaceRegiste(r) \/ Register(r)
    \/ \E s \in Source : Camera(s) \/ \E n \in 1..MaxInFrame : ProcVideoStream(s, n)
    \/ Restart

Spec == Init /\ [][Next]_vars
-----------------------------------------------------------------------------
\* Type correctness; a handler in Init has a task, a camera thread at work has a face.
TypeOK ==
    /\ on \subseteq Task /\ src \in [Task -> SourceLists]
    /\ updates \in Nat /\ restarts \in Nat
    /\ hnd \in [pc : {"idle", "tasks", "read", "topic", "features"}, todo : SUBSET Task,
                task : Task \cup {NoTask}, list : Nat, main : BOOLEAN]
    /\ hnd.pc \in {"read", "topic", "features"} => hnd.task \in Task
    /\ reg \in [Registrar -> [pc : {"idle", "read", "update"}, list : Nat]]
    /\ dataSrc \in [Task -> SUBSET Source] /\ topics \subseteq Task
    /\ subs \in [Source -> Nat] /\ ready \in BOOLEAN /\ mixed \in BOOLEAN
    /\ features \in Nat /\ faces \in Nat
    /\ cam \in [Source -> [pc : {"idle", "face", "matched", "report", "delete", "insert"},
                           left : Nat, face : Nat, todo : SUBSET Task]]
    /\ \A s \in Source : cam[s].pc # "idle" => cam[s].left > 0
    /\ Table!TableTypeOK /\ who \in [rows -> Nat]

\* Every alert names a registered face, although the result of an insert is ignored
\* and the process may restart anywhere: the inner join of ReportResult with
\* FaceRegisteTable leaves no alert out of a download.
ReportKnown == \A i \in rows : who[i] \in 1..faces

\* After registrations and initialisations that did not overlap, the algorithm compares
\* with exactly the faces that are stored.  (A registration whose insert failed is
\* answered "ok" and has stored nothing; of two that overlap the older list may be
\* applied last.)
RegisteredInForce == ready /\ Listing = {} /\ ~mixed => features = faces

\* m_mapReportTopicMutex is held across both statements of an alert: however many
\* cameras and tasks there are, the table sees one writer.
ImplementsAlertTable == Table!TableSpec

\* Both mutexes are held across calls into the tasks and the database, and handlers
\* wait for either.  The order of the two makes this safe: a camera thread that holds
\* m_mapFaceFeatureMutex never waits for the other one, so nobody waits in a circle.
HolderNeverWaits == \A s \in Source : cam[s].pc = "matched" => TopicMutexFree

\* m_mapFaceFeatureMutex is a mutex: one camera thread at a time compares or reports.
OneHolder == \A r, s \in Source : cam[r].pc \in Holding /\ cam[s].pc \in Holding => r = s

\* No list names a face that is not stored, on its way or in force.
ListsKnown ==
    /\ features <= faces /\ hnd.list <= faces
    /\ \A r \in Registrar : reg[r].list <= faces
    /\ \A s \in Source : cam[s].pc \in Holding => cam[s].face \in 1..faces

\* The invariant the proofs use.
IInv == TypeOK /\ OneHolder /\ ListsKnown /\ ReportKnown

\* Why the features are the stored faces: unless lists overlapped, one handler at most has
\* one on its way, and what it has read is what is stored.
OneList ==
    ~mixed => /\ \A q, r \in Registrar : reg[q].pc # "idle" /\ reg[r].pc # "idle" => q = r
              /\ \A r \in Registrar : reg[r].pc = "update" => reg[r].list = faces
              /\ hnd.pc \in {"topic", "features"} =>
                    hnd.list = faces /\ \A r \in Registrar : reg[r].pc = "idle"

RInv == OneList /\ RegisteredInForce
=============================================================================
