----------------------- MODULE DetectPipeline_proofs -----------------------
(***************************************************************************)
(* For any number of tasks and cameras: reports of a task and its          *)
(* reinitialisation exclude each other, alerts come from configured data   *)
(* sources only, and the pipeline implements AlertTable with the tasks as  *)
(* its writers, which carries the bound of the alert table over to it.     *)
(***************************************************************************)
EXTENDS DetectPipeline, TLAPS

\* Nothing runs yet: the handler is main in StartAppModule.
LEMMA InitInv == Init => IInv
BY SourceAssumption DEF Init, IInv, TypeOK, OneHolder, Holders, AlertsConfigured, NoTask,
    GetAppModuleTaskLst, Table!TableTypeOK, SourceAssumption, writer

\* The statements of the alert table keep its rows numbers.
LEMMA TableTypes ==
    ASSUME TypeOK, \/ Table!DeleteStmt /\ UNCHANGED seq
                   \/ Table!InsertStmt /\ UNCHANGED late
                   \/ UNCHANGED store
    PROVE  Table!TableTypeOK'
  <1>1. writer' \in [Task -> {"idle", "deleted"}]
    BY DEF writer
  <1>2. rows \subseteq Nat /\ seq \in Nat /\ late \in Nat
    BY DEF TypeOK, Table!TableTypeOK
  <1>3. CASE Table!DeleteStmt /\ UNCHANGED seq
    <2>1. Table!Kept \subseteq rows
      BY DEF Table!Kept
    <2>2. rows' \subseteq rows /\ late' \in Nat /\ seq' = seq
      <3>1. CASE rows' = Table!Kept /\ late' = 0
        BY <1>3, <2>1, <3>1
      <3>2. CASE late' = late + 1 /\ rows' = rows
        BY <1>2, <1>3, <3>2
      <3> QED BY <1>3, <3>1, <3>2 DEF Table!DeleteStmt
    <2> QED BY <1>1, <1>2, <2>2 DEF Table!TableTypeOK
  <1>4. CASE Table!InsertStmt /\ UNCHANGED late
    <2>1. rows' \subseteq rows \cup {seq + 1} /\ seq' \in {seq, seq + 1} /\ late' = late
      BY <1>2, <1>4 DEF Table!InsertStmt
    <2>2. rows' \subseteq Nat /\ seq' \in Nat
      BY <1>2, <2>1
    <2> QED BY <1>1, <1>2, <2>1, <2>2 DEF Table!TableTypeOK
  <1>5. CASE UNCHANGED store
    BY <1>1, <1>2, <1>5 DEF Table!TableTypeOK, store
  <1> QED BY <1>3, <1>4, <1>5

\* A step of one camera thread keeps the types if its own state keeps them.
LEMMA CameraTypes ==
    ASSUME TypeOK, Table!TableTypeOK', UNCHANGED <<config, hnd, detect>>, NEW s \in Source,
           NEW c \in [pc : {"idle", "report", "want", "proc", "deleted"},
                     todo : SUBSET Task, task : Task \cup {NoTask}],
           c.pc \in {"want", "proc", "deleted"} => c.task \in Task,
           cam' = [cam EXCEPT ![s] = c]
    PROVE  TypeOK'
  <1>1. /\ cam' \in [Source -> [pc : {"idle", "report", "want", "proc", "deleted"},
                               todo : SUBSET Task, task : Task \cup {NoTask}]]
        /\ \A r \in Source : cam'[r] = cam[r] \/ cam'[r] = c
    BY DEF TypeOK
  <1>2. \A r \in Source : cam'[r].pc \in {"want", "proc", "deleted"} => cam'[r].task \in Task
    BY <1>1 DEF TypeOK
  <1> QED BY <1>1, <1>2 DEF config, detect, TypeOK

\* The same for a thread that only goes on to its next statement.
LEMMA GotoTypes ==
    ASSUME TypeOK, Table!TableTypeOK', UNCHANGED <<config, hnd, detect>>, NEW s \in Source,
           NEW p \in {"idle", "report", "want", "proc", "deleted"}, Goto(s, p),
           p \in {"want", "proc", "deleted"} => cam[s].task \in Task
    PROVE  TypeOK'
  <1> DEFINE c == [cam[s] EXCEPT !.pc = p]
  <1>1. /\ c \in [pc : {"idle", "report", "want", "proc", "deleted"},
                  todo : SUBSET Task, task : Task \cup {NoTask}]
        /\ c.pc = p /\ c.task = cam[s].task
    BY DEF TypeOK
  <1>2. cam' = [cam EXCEPT ![s] = c]
    BY DEF Goto
  <1> HIDE DEF c
  <1> QED BY <1>1, <1>2, CameraTypes

\* A step that gives m_CfgMutex to nobody.
LEMMA NoNewHolder ==
    ASSUME IInv, TypeOK', dataSrc' = dataSrc,
           hnd'.pc = "create" => hnd.pc = "create" /\ hnd'.task = hnd.task,
           \A s \in Source : cam'[s].pc \in {"proc", "deleted"} =>
                cam[s].pc \in {"proc", "deleted"} /\ cam'[s].task = cam[s].task
    PROVE  IInv'
  <1>1. \A t \in Task : Holders(t)' \subseteq Holders(t)
    BY DEF Holders
  <1>2. OneHolder'
    BY <1>1 DEF IInv, OneHolder
  <1>3. AlertsConfigured'
    BY DEF IInv, AlertsConfigured
  <1> QED BY <1>2, <1>3 DEF IInv

\* Every step of the handler and of the cameras preserves the invariant.
LEMMA StepInv == IInv /\ [Next]_vars => IInv'
  <1> SUFFICES ASSUME IInv, [Next]_vars PROVE IInv'
    OBVIOUS
  <1> USE DEF NoTask
  <1>0. TypeOK /\ OneHolder /\ AlertsConfigured
    BY DEF IInv
  <1>1. ASSUME NEW T \in SUBSET Task, NEW S \in [Task -> SourceLists], NEW ok \in BOOLEAN,
               NEW V \in GetAppModuleTaskLst(T, ok), Update(T, S, ok, V)
        PROVE  IInv'
    <2>0. V \subseteq T
      BY DEF GetAppModuleTaskLst
    <2>1. Table!TableTypeOK'
      BY <1>0, <1>1, TableTypes DEF Update
    <2>2. src' \in [Task -> SourceLists] /\ updates' \in Nat
      BY <1>0, <1>1 DEF Update, TypeOK
    <2>3. hnd' \in [pc : {"idle", "tasks", "create"}, todo : SUBSET Task,
                    task : Task \cup {NoTask}, srcs : SUBSET Source] /\ hnd'.pc = "tasks"
      BY <1>0, <1>1, <2>0 DEF Update, TypeOK
    <2>4. TypeOK'
      BY <1>0, <1>1, <2>1, <2>2, <2>3 DEF Update, detect, TypeOK
    <2> QED BY <1>1, <2>3, <2>4, NoNewHolder DEF Update, detect
  <1>2. ASSUME NEW t \in Task, TaskInit(t) PROVE IInv'
    <2>1. Table!TableTypeOK'
      BY <1>0, <1>2, TableTypes DEF TaskInit
    <2>2. TypeOK'
      BY <1>0, <1>2, <2>1, SourceAssumption DEF TaskInit, config, TypeOK, SourceAssumption
    <2>3. Holders(t) = {}
      BY <1>2 DEF TaskInit, CfgMutexFree, Holders
    <2>4. OneHolder'
      BY <1>0, <1>2, <2>3 DEF TaskInit, OneHolder, Holders
    <2>5. AlertsConfigured'
      BY <1>0, <1>2, <2>3 DEF TaskInit, AlertsConfigured, Holders, TypeOK
    <2> QED BY <2>2, <2>4, <2>5 DEF IInv
  <1>3. ASSUME NEW s \in Source, AlgInit(s) PROVE IInv'
    <2>1. Table!TableTypeOK'
      BY <1>0, <1>3, TableTypes DEF AlgInit
    <2>2. TypeOK'
      BY <1>0, <1>3, <2>1 DEF AlgInit, config, TypeOK
    <2> QED BY <1>0, <1>3, <2>2, NoNewHolder DEF AlgInit, TypeOK
  <1>4. ASSUME TaskInitDone \/ Reply PROVE IInv'
    <2>1. Table!TableTypeOK'
      BY <1>0, <1>4, TableTypes DEF TaskInitDone, Reply
    <2>2. TypeOK'
      BY <1>0, <1>4, <2>1 DEF TaskInitDone, Reply, config, detect, TypeOK
    <2>3. hnd'.pc # "create"
      BY <1>0, <1>4 DEF TaskInitDone, Reply, TypeOK
    <2> QED BY <1>4, <2>2, <2>3, NoNewHolder DEF TaskInitDone, Reply, detect
  <1>5. ASSUME NEW s \in Source, ProcMat(s) \/ \E t \in Task : Report(s, t) PROVE IInv'
    <2>1. Table!TableTypeOK'
      BY <1>0, <1>5, TableTypes DEF ProcMat, Report
    <2>2. TypeOK'
      <3>1. CASE ProcMat(s)
        <4>1. [pc |-> "report", todo |-> topics[s], task |-> NoTask]
                \in [pc : {"idle", "report", "want", "proc", "deleted"},
                     todo : SUBSET Task, task : Task \cup {NoTask}]
          BY <1>0 DEF TypeOK
        <4> QED BY <1>0, <2>1, <3>1, <4>1, CameraTypes DEF ProcMat
      <3>2. ASSUME NEW t \in Task, Report(s, t) PROVE TypeOK'
        <4>1. [pc |-> "want", todo |-> cam[s].todo \ {t}, task |-> t]
                \in [pc : {"idle", "report", "want", "proc", "deleted"},
                     todo : SUBSET Task, task : Task \cup {NoTask}]
          BY <1>0 DEF TypeOK
        <4> QED BY <1>0, <2>1, <3>2, <4>1, CameraTypes DEF Report
      <3> QED BY <1>5, <3>1, <3>2
    <2>3. \A r \in Source : cam'[r] = cam[r] \/ cam'[r].pc \in {"report", "want"}
      BY <1>0, <1>5 DEF ProcMat, Report, TypeOK
    <2> QED BY <1>5, <2>2, <2>3, NoNewHolder DEF ProcMat, Report, detect
  <1>6. ASSUME NEW s \in Source, ProResultMsg(s) PROVE IInv'
    <2>1. Table!TableTypeOK'
      BY <1>0, <1>6, TableTypes DEF ProResultMsg
    <2>2. TypeOK'
      <3>1. cam[s].task \in Task
        BY <1>0, <1>6 DEF ProResultMsg, TypeOK
      <3> QED BY <1>0, <1>6, <2>1, <3>1, GotoTypes DEF ProResultMsg
    <2>3. OneHolder'
      BY <1>0, <1>6 DEF ProResultMsg, Goto, CfgMutexFree, OneHolder, Holders, TypeOK
    <2>4. AlertsConfigured'
      BY <1>0, <1>6 DEF ProResultMsg, Goto, detect, AlertsConfigured, TypeOK
    <2> QED BY <2>2, <2>3, <2>4 DEF IInv
  <1>7. ASSUME NEW s \in Source, DeleteOld(s) \/ SaveAlert(s) PROVE IInv'
    <2>1. Table!TableTypeOK'
      BY <1>0, <1>7, TableTypes DEF DeleteOld, SaveAlert
    <2>2. PICK p \in {"proc", "deleted"} : Goto(s, p) /\ UNCHANGED <<config, hnd, detect>>
      BY <1>7 DEF DeleteOld, SaveAlert
    <2>3. cam[s].pc \in {"proc", "deleted"}
      BY <1>7 DEF DeleteOld, SaveAlert
    <2>4. TypeOK'
      <3>1. cam[s].task \in Task
        BY <1>0, <2>3 DEF TypeOK
      <3> QED BY <1>0, <2>1, <2>2, <3>1, GotoTypes
    <2>5. \A r \in Source : cam'[r] = cam[r] \/ (r = s /\ cam'[r].task = cam[r].task)
      BY <1>0, <2>2 DEF Goto, TypeOK
    <2> QED BY <2>2, <2>3, <2>4, <2>5, NoNewHolder DEF detect
  <1>8. ASSUME NEW s \in Source, ProResultDone(s) \/ ProcMatDone(s) PROVE IInv'
    <2>1. Table!TableTypeOK'
      BY <1>0, <1>8, TableTypes DEF ProResultDone, ProcMatDone
    <2>2. TypeOK'
      BY <1>0, <1>8, <2>1, GotoTypes DEF ProResultDone, ProcMatDone
    <2>3. \A r \in Source : cam'[r] = cam[r] \/ cam'[r].pc \in {"report", "idle"}
      BY <1>0, <1>8 DEF ProResultDone, ProcMatDone, Goto, TypeOK
    <2> QED BY <1>8, <2>2, <2>3, NoNewHolder DEF ProResultDone, ProcMatDone, detect
  <1>9. CASE UNCHANGED vars
    <2>1. Table!TableTypeOK'
      BY <1>0, <1>9, TableTypes DEF vars
    <2>2. TypeOK'
      BY <1>0, <1>9, <2>1 DEF vars, config, detect, TypeOK
    <2> QED BY <1>9, <2>2, NoNewHolder DEF vars, detect
  <1> QED BY <1>1, <1>2, <1>3, <1>4, <1>5, <1>6, <1>7, <1>8, <1>9 DEF Next, Handler, Camera

\* Reports and reinitialisations of a task exclude each other in every behaviour.
THEOREM PipelineInvariance == SafeSpec => []IInv
BY InitInv, StepInv, PTL DEF SafeSpec

\* A task never writes an alert of a data source that was taken from it, however an
\* update and the frames of its cameras interleave.
THEOREM AlertsAreConfigured == SafeSpec => []AlertsConfigured
  <1>1. IInv => AlertsConfigured
    BY DEF IInv
  <1> QED BY <1>1, PipelineInvariance, PTL

\* A step that moves no camera into or out of "deleted" is invisible to the table.
LEMMA Invisible ==
    ASSUME UNCHANGED store,
           \A s \in Source : (cam[s].pc = "deleted" \/ cam'[s].pc = "deleted") => cam'[s] = cam[s]
    PROVE  UNCHANGED Table!table
  <1>1. writer' = writer
    BY DEF writer
  <1> QED BY <1>1 DEF Table!table, store

\* The pair of statements of a camera thread is the pair of its task: m_CfgMutex
\* keeps the other cameras of the task out until the insert.
LEMMA Visible ==
    ASSUME IInv, NEW s \in Source, DeleteOld(s) \/ SaveAlert(s)
    PROVE  \E t \in Task : Table!Delete(t) \/ Table!Insert(t)
  <1> DEFINE t == cam[s].task
  <1>1. /\ t \in Task /\ cam[s].pc \in {"proc", "deleted"}
        /\ \A r \in Source : r # s /\ cam[r].pc \in {"proc", "deleted"} => cam[r].task # t
    BY DEF IInv, TypeOK, OneHolder, Holders, DeleteOld, SaveAlert
  <1>2. CASE DeleteOld(s)
    <2>1. cam[s].pc = "proc" /\ cam' = [cam EXCEPT ![s].pc = "deleted"]
      BY <1>2 DEF DeleteOld, Goto
    <2>2. /\ \A r \in Source \ {s} : cam'[r] = cam[r]
          /\ cam'[s].pc = "deleted" /\ cam'[s].task = t
      BY <2>1 DEF IInv, TypeOK
    <2>3. writer[t] = "idle" /\ writer' = [writer EXCEPT ![t] = "deleted"]
      BY <1>1, <2>1, <2>2 DEF writer
    <2> QED BY <1>1, <1>2, <2>3 DEF DeleteOld, Table!Delete
  <1>3. CASE SaveAlert(s)
    <2>1. cam[s].pc = "deleted" /\ cam' = [cam EXCEPT ![s].pc = "proc"]
      BY <1>3 DEF SaveAlert, Goto
    <2>2. /\ \A r \in Source \ {s} : cam'[r] = cam[r]
          /\ cam'[s].pc = "proc" /\ cam'[s].task = t
      BY <2>1 DEF IInv, TypeOK
    <2>3. writer[t] = "deleted" /\ writer' = [writer EXCEPT ![t] = "idle"]
      BY <1>1, <2>1, <2>2 DEF writer
    <2> QED BY <1>1, <1>3, <2>3 DEF SaveAlert, Table!Insert
  <1> QED BY <1>2, <1>3

\* The pipeline implements the alert table with one writer for each task, however many
\* cameras report to it; with RingBounded of AlertReport_proofs this bounds the
\* table by s32QueueSize plus the number of tasks (plus failed deletes).
THEOREM PipelineImplementsTable == SafeSpec => ImplementsAlertTable
  <1>1. Init => Table!TableInit
    BY DEF Init, Table!TableInit, writer
  <1>2. IInv /\ [Next]_vars => [Table!TableNext]_(Table!table)
    <2> SUFFICES ASSUME IInv, [Next]_vars PROVE [Table!TableNext]_(Table!table)
      OBVIOUS
    <2>1. TypeOK
      BY DEF IInv
    <2>2. CASE UNCHANGED <<cam, store>>
      BY <2>2, Invisible
    <2>3. ASSUME NEW s \in Source,
                 ProcMat(s) \/ (\E t \in Task : Report(s, t)) \/ ProResultMsg(s)
                   \/ ProResultDone(s) \/ ProcMatDone(s)
          PROVE  UNCHANGED Table!table
      <3>1. UNCHANGED store
        BY <2>3 DEF ProcMat, Report, ProResultMsg, ProResultDone, ProcMatDone
      <3>2. \A r \in Source : cam'[r] = cam[r] \/ (cam[r].pc # "deleted" /\ cam'[r].pc # "deleted")
        <4>1. cam[s].pc # "deleted"
          BY <2>3 DEF ProcMat, Report, ProResultMsg, ProResultDone, ProcMatDone
        <4>2. \A r \in Source : r # s => cam'[r] = cam[r]
          BY <2>1, <2>3 DEF ProcMat, Report, ProResultMsg, ProResultDone, ProcMatDone, Goto, TypeOK
        <4>3. cam'[s].pc # "deleted"
          <5>1. CASE ProcMat(s) \/ \E t \in Task : Report(s, t)
            BY <2>1, <5>1 DEF ProcMat, Report, TypeOK
          <5>2. CASE \E p \in {"proc", "report", "idle"} : Goto(s, p)
            BY <2>1, <5>2 DEF Goto, TypeOK
          <5> QED BY <2>3, <5>1, <5>2 DEF ProResultMsg, ProResultDone, ProcMatDone
        <4> QED BY <4>1, <4>2, <4>3
      <3> QED BY <3>1, <3>2, Invisible
    <2>4. ASSUME NEW s \in Source, DeleteOld(s) \/ SaveAlert(s) PROVE Table!TableNext
      BY <2>4, Visible DEF Table!TableNext
    <2>5. ASSUME NEW T \in SUBSET Task, NEW S \in [Task -> SourceLists], NEW ok \in BOOLEAN,
                 NEW V \in GetAppModuleTaskLst(T, ok), Update(T, S, ok, V)
          PROVE  UNCHANGED <<cam, store>>
      BY <2>5 DEF Update
    <2>6. Handler => UNCHANGED <<cam, store>>
      BY DEF Handler, TaskInit, AlgInit, TaskInitDone, Reply
    <2>7. UNCHANGED vars => UNCHANGED <<cam, store>>
      BY DEF vars
    <2> QED BY <2>2, <2>3, <2>4, <2>5, <2>6, <2>7 DEF Next, Camera
  <1> QED BY <1>1, <1>2, PipelineInvariance, PTL DEF SafeSpec, ImplementsAlertTable, Table!TableSpec
-----------------------------------------------------------------------------
\* Every step of an update brings its tasks closer to the new configuration, and no
\* camera thread undoes it.
LEMMA OnItsWayStep == IInv /\ UpdateOnItsWay /\ [Next]_vars => UpdateOnItsWay'
  <1> SUFFICES ASSUME IInv, UpdateOnItsWay, [Next]_vars PROVE UpdateOnItsWay'
    OBVIOUS
  <1>0. TypeOK
    BY DEF IInv
  <1>1. ASSUME NEW T \in SUBSET Task, NEW S \in [Task -> SourceLists], NEW ok \in BOOLEAN,
               NEW V \in GetAppModuleTaskLst(T, ok), Update(T, S, ok, V)
        PROVE  UpdateOnItsWay'
    <2>1. listed' = V /\ hnd'.pc = "tasks" /\ hnd'.todo = V
      BY <1>0, <1>1 DEF Update, TypeOK
    <2> QED BY <2>1 DEF UpdateOnItsWay
  <1>2. ASSUME NEW t \in Task, TaskInit(t) PROVE UpdateOnItsWay'
    <2>1. /\ hnd'.pc = "create" /\ hnd'.task = t /\ hnd'.srcs = src[t]
          /\ hnd'.todo = hnd.todo \ {t} /\ hnd.pc = "tasks"
      BY <1>2 DEF TaskInit
    <2>2. UNCHANGED <<listed, src, topics>> /\ listed \subseteq Task
      BY <1>0, <1>2 DEF TaskInit, config, TypeOK, GetAppModuleTaskLst
    <2>3. dataSrc'[t] = src[t] /\ \A u \in Task \ {t} : dataSrc'[u] = dataSrc[u]
      BY <1>0, <1>2 DEF TaskInit, TypeOK
    <2> QED BY <2>1, <2>2, <2>3 DEF UpdateOnItsWay
  <1>3. ASSUME NEW s \in Source, AlgInit(s) PROVE UpdateOnItsWay'
    <2>1. /\ hnd.pc = "create" /\ hnd'.pc = "create" /\ hnd'.task = hnd.task
          /\ hnd'.srcs = hnd.srcs \ {s} /\ hnd'.todo = hnd.todo
      BY <1>0, <1>3 DEF AlgInit, TypeOK
    <2>2. UNCHANGED <<listed, src, dataSrc>>
      BY <1>3 DEF AlgInit, config
    <2>3. hnd.task \in topics'[s] /\ \A r \in Source : topics[r] \subseteq topics'[r]
      BY <1>0, <1>3 DEF AlgInit, TypeOK
    <2>4. \A t \in listed : src[t] \subseteq Source
      BY <1>0, SourceAssumption DEF TypeOK, SourceAssumption, GetAppModuleTaskLst
    <2> QED BY <2>1, <2>2, <2>3, <2>4 DEF UpdateOnItsWay
  <1>4. ASSUME TaskInitDone \/ Reply PROVE UpdateOnItsWay'
    <2>1. UNCHANGED <<listed, src, dataSrc, topics>>
      BY <1>4 DEF TaskInitDone, Reply, config, detect
    <2>2. \/ hnd.srcs = {} /\ hnd'.pc = "tasks" /\ hnd'.todo = hnd.todo
          \/ hnd.pc = "tasks" /\ hnd.todo = {}
      BY <1>0, <1>4 DEF TaskInitDone, Reply, TypeOK
    <2> QED BY <2>1, <2>2 DEF UpdateOnItsWay
  <1>5. CASE UNCHANGED <<listed, src, dataSrc, topics, hnd>>
    BY <1>5 DEF UpdateOnItsWay
  <1>6. ASSUME NEW s \in Source, ProcMat(s) \/ Camera(s) PROVE UNCHANGED <<listed, src, dataSrc, topics, hnd>>
    BY <1>6 DEF ProcMat, Camera, Report, ProResultMsg, DeleteOld, SaveAlert, ProResultDone,
                ProcMatDone, config, detect
  <1>7. UNCHANGED vars => UNCHANGED <<listed, src, dataSrc, topics, hnd>>
    BY DEF vars, config, detect
  <1> QED BY <1>1, <1>2, <1>3, <1>4, <1>5, <1>6, <1>7 DEF Next, Handler

\* When AppUpdate returns and every lookup was successful, every enabled task filters by
\* the data sources it was given and each of these reports to it, whatever the camera
\* threads did meanwhile; after an early return of GetAppModuleTaskLst this holds of
\* the tasks that were listed before it.
THEOREM AnsweredIsInForce == SafeSpec => []UpdateInForce
  <1>1. Init => UpdateOnItsWay
    BY DEF Init, UpdateOnItsWay
  <1>2. IInv /\ UpdateOnItsWay => UpdateInForce
    <2>1. IInv /\ found => listed = on
      BY DEF IInv, TypeOK, GetAppModuleTaskLst
    <2> QED BY <2>1 DEF UpdateOnItsWay, UpdateInForce, InForce
  <1>3. SafeSpec => []UpdateOnItsWay
    BY <1>1, OnItsWayStep, PipelineInvariance, PTL DEF SafeSpec
  <1> QED BY <1>2, <1>3, PipelineInvariance, PTL
=============================================================================
