-------------------------- MODULE FaceTask_proofs --------------------------
(***************************************************************************)
(* For any tasks, cameras and registering handlers: every face alert names *)
(* a registered face, the order of the two mutexes lets nobody wait in a   *)
(* circle, FaceReportTable is an AlertTable with a single writer, and what *)
(* was registered without overlap is what the algorithm compares with.     *)
(***************************************************************************)
EXTENDS FaceTask, TLAPS

CamType == [pc : {"idle", "face", "matched", "report", "delete", "insert"},
            left : Nat, face : Nat, todo : SUBSET Task]

\* No camera runs, no face is stored.
LEMMA InitInv == Init => IInv
  <1> SUFFICES ASSUME Init PROVE IInv
    OBVIOUS
  <1>1. Table!TableTypeOK
    <2>1. writer \in [{"face"} -> {"idle", "deleted"}]
      BY DEF writer
    <2> QED BY <2>1 DEF Init, Table!TableTypeOK
  <1>2. who \in [rows -> Nat]
    <2>1. rows = {} /\ who = [i \in {} |-> 0]
      BY DEF Init
    <2> QED BY ONLY <2>1
  <1>3. hnd = Start /\ on \subseteq Task /\ NoTask \in Task \cup {NoTask}
    BY DEF Init
  <1>4. /\ hnd \in [pc : {"idle", "tasks", "read", "topic", "features"}, todo : SUBSET Task,
                    task : Task \cup {NoTask}, list : Nat, main : BOOLEAN]
        /\ hnd.pc = "tasks" /\ hnd.list = 0
    BY ONLY <1>3 DEF Start
  <1>5. cam \in [Source -> CamType] /\ \A s \in Source : cam[s].pc = "idle"
    BY DEF Init, Resting, CamType
  <1>6. /\ reg \in [Registrar -> [pc : {"idle", "read", "update"}, list : Nat]]
        /\ \A r \in Registrar : reg[r].list = 0
    BY DEF Init, NoList
  <1>7. TypeOK
    BY <1>1, <1>2, <1>4, <1>5, <1>6 DEF Init, TypeOK, CamType
  <1>8. OneHolder /\ ListsKnown /\ ReportKnown
    BY <1>4, <1>5, <1>6 DEF Init, OneHolder, ListsKnown, ReportKnown, Holding
  <1> QED BY <1>7, <1>8 DEF IInv

\* The statements of the alert table keep its rows numbers.
LEMMA TableTypes ==
    ASSUME TypeOK, \/ Table!DeleteStmt /\ UNCHANGED seq
                   \/ Table!InsertStmt /\ UNCHANGED late
                   \/ UNCHANGED <<rows, seq, late>>
    PROVE  Table!TableTypeOK'
  <1>1. writer' \in [{"face"} -> {"idle", "deleted"}]
    BY DEF writer
  <1>2. rows \subseteq Nat /\ seq \in Nat /\ late \in Nat
    BY DEF TypeOK, Table!TableTypeOK
  <1>3. CASE Table!DeleteStmt /\ UNCHANGED seq
    <2>1. CASE rows' = Table!Kept /\ late' = 0
      BY <1>1, <1>2, <1>3, <2>1 DEF Table!Kept, Table!TableTypeOK
    <2>2. CASE late' = late + 1 /\ rows' = rows
      BY <1>1, <1>2, <1>3, <2>2 DEF Table!TableTypeOK
    <2> QED BY <1>3, <2>1, <2>2 DEF Table!DeleteStmt
  <1>4. CASE Table!InsertStmt /\ UNCHANGED late
    <2>1. rows' \subseteq rows \cup {seq + 1} /\ seq' \in {seq, seq + 1} /\ late' = late
      BY <1>2, <1>4 DEF Table!InsertStmt
    <2>2. rows' \subseteq Nat /\ seq' \in Nat
      BY <1>2, <2>1
    <2> QED BY <1>1, <1>2, <2>1, <2>2 DEF Table!TableTypeOK
  <1>5. CASE UNCHANGED <<rows, seq, late>>
    BY <1>1, <1>2, <1>5 DEF Table!TableTypeOK
  <1> QED BY <1>3, <1>4, <1>5

\* A step of a camera thread keeps the invariant when it takes m_mapFaceFeatureMutex
\* only while that is free, and names a stored face while it holds it.
LEMMA CamInv ==
    ASSUME IInv, NEW s \in Source, NEW c \in CamType, CamStep(s, c),
           c.pc # "idle" => c.left > 0,
           c.pc \in Holding => c.face \in 1..faces /\ (cam[s].pc \in Holding \/ FeatureMutexFree),
           Table!TableTypeOK', who' \in [rows' -> Nat], \A i \in rows' : who'[i] \in 1..faces
    PROVE  IInv'
  <1>1. cam' \in [Source -> CamType] /\ cam'[s] = c /\ \A r \in Source \ {s} : cam'[r] = cam[r]
    BY DEF CamStep, IInv, TypeOK, CamType
  <1>2. TypeOK'
    <2>1. \A r \in Source : cam'[r].pc # "idle" => cam'[r].left > 0
      BY <1>1 DEF IInv, TypeOK
    <2> QED BY <1>1, <2>1 DEF CamStep, IInv, TypeOK, CamType, config, alg, lists
  <1>3. OneHolder'
    BY <1>1 DEF IInv, OneHolder, FeatureMutexFree
  <1>4. ListsKnown'
    BY <1>1 DEF CamStep, IInv, ListsKnown, lists
  <1>5. ReportKnown'
    BY DEF CamStep, ReportKnown
  <1> QED BY <1>2, <1>3, <1>4, <1>5 DEF IInv

\* A step of a handler keeps the invariant when no list it leaves behind names a
\* face that is not stored.
LEMMA HandlerInv ==
    ASSUME IInv, UNCHANGED <<cam, store>>, TypeOK', faces' >= faces,
           features' <= faces', hnd'.list <= faces', \A r \in Registrar : reg'[r].list <= faces'
    PROVE  IInv'
  <1>0. faces \in Nat /\ faces' \in Nat /\ faces <= faces'
    BY DEF IInv, TypeOK
  <1>1. OneHolder'
    BY DEF IInv, OneHolder
  <1>2. ListsKnown'
    <2>1. \A s \in Source : cam[s].pc \in Holding => cam[s].face \in 1..faces'
      BY <1>0 DEF IInv, ListsKnown
    <2> QED BY <2>1 DEF ListsKnown
  <1>3. ReportKnown'
    BY <1>0 DEF IInv, ReportKnown, store
  <1> QED BY <1>1, <1>2, <1>3 DEF IInv

\* The handlers of 0x13 and of main.
LEMMA UpdateInv ==
    ASSUME IInv,
           \/ \E T \in SUBSET Task, S \in [Task -> SourceLists] : Update(T, S)
           \/ Handler
    PROVE  IInv'
  <1> DEFINE HndType == [pc : {"idle", "tasks", "read", "topic", "features"}, todo : SUBSET Task,
                         task : Task \cup {NoTask}, list : Nat, main : BOOLEAN]
  <1>0. /\ TypeOK /\ ListsKnown /\ hnd \in HndType /\ faces \in Nat
        /\ features <= faces /\ hnd.list <= faces /\ \A r \in Registrar : reg[r].list <= faces
    BY DEF IInv, TypeOK, ListsKnown
  <1>1. ASSUME UNCHANGED <<rows, seq, late>> PROVE Table!TableTypeOK'
    BY <1>0, <1>1, TableTypes
  <1>2. ASSUME NEW T \in SUBSET Task, NEW S \in [Task -> SourceLists], Update(T, S) PROVE IInv'
    <2>1. src' \in [Task -> SourceLists] /\ updates' \in Nat
      <3>1. src \in [Task -> SourceLists] /\ updates \in Nat
        BY <1>0 DEF TypeOK
      <3>2. /\ src' = [t \in Task |-> IF t \in T THEN S[t] ELSE src[t]]
            /\ updates' = updates + 1
        BY <1>2 DEF Update
      <3> QED BY ONLY <3>1, <3>2, S \in [Task -> SourceLists]
    <2>2. hnd' \in HndType /\ hnd'.pc = "tasks" /\ hnd'.list = hnd.list
      BY <1>0, <1>2 DEF Update
    <2>3. TypeOK'
      BY <1>0, <1>1, <1>2, <2>1, <2>2 DEF Update, TypeOK, alg, lists, store
    <2>4. UNCHANGED <<cam, store, faces, features, reg>>
      BY <1>2 DEF Update, lists
    <2> QED BY <1>0, <2>2, <2>3, <2>4, HandlerInv
  <1>3. ASSUME NEW t \in Task, TaskInit(t) PROVE IInv'
    <2>1. hnd' \in HndType /\ hnd'.task = t /\ hnd'.list = hnd.list
      BY <1>0, <1>3 DEF TaskInit
    <2>2. dataSrc' \in [Task -> SUBSET Source]
      BY <1>0, <1>3, FaceAssumption DEF TaskInit, TypeOK, FaceAssumption
    <2>3. TypeOK'
      BY <1>0, <1>1, <1>3, <2>1, <2>2 DEF TaskInit, TypeOK, config, lists, store
    <2> QED BY <1>0, <1>3, <2>1, <2>3, HandlerInv DEF TaskInit, lists
  <1>4. CASE ReadFaceFeatureLst
    <2>1. hnd' \in HndType /\ hnd'.task = hnd.task /\ hnd'.list = faces
      BY <1>0, <1>4 DEF ReadFaceFeatureLst
    <2>2. mixed' \in BOOLEAN
      BY <1>4 DEF ReadFaceFeatureLst, BeginList
    <2>3. TypeOK'
      BY <1>0, <1>1, <1>4, <2>1, <2>2 DEF ReadFaceFeatureLst, TypeOK, config, alg, store
    <2> QED BY <1>0, <1>4, <2>1, <2>3, HandlerInv DEF ReadFaceFeatureLst
  <1>5. CASE SetReportTopic
    <2>1. hnd' \in HndType /\ hnd'.task = hnd.task /\ hnd'.list = hnd.list /\ hnd.task \in Task
      BY <1>0, <1>5 DEF SetReportTopic, TypeOK
    <2>2. TypeOK'
      BY <1>0, <1>1, <1>5, <2>1 DEF SetReportTopic, TypeOK, config, lists, store
    <2> QED BY <1>0, <1>5, <2>1, <2>2, HandlerInv DEF SetReportTopic, lists
  <1>6. CASE SetFaceFeature
    <2>1. hnd' \in HndType /\ hnd'.pc = "tasks" /\ hnd'.list = 0
      BY <1>0, <1>6 DEF SetFaceFeature
    <2>2. subs' \in [Source -> Nat] /\ features' \in Nat
      BY <1>0, <1>6 DEF SetFaceFeature, TypeOK
    <2>3. TypeOK'
      BY <1>0, <1>1, <1>6, <2>1, <2>2 DEF SetFaceFeature, TypeOK, config, store
    <2> QED BY <1>0, <1>6, <2>1, <2>3, HandlerInv DEF SetFaceFeature
  <1>7. CASE Reply
    <2>1. hnd' \in HndType /\ hnd'.pc = "idle" /\ hnd'.list = hnd.list
      BY <1>0, <1>7 DEF Reply
    <2>2. TypeOK'
      BY <1>0, <1>1, <1>7, <2>1 DEF Reply, TypeOK, config, alg, lists, store
    <2> QED BY <1>0, <1>7, <2>1, <2>2, HandlerInv DEF Reply, lists
  <1> QED BY <1>2, <1>3, <1>4, <1>5, <1>6, <1>7 DEF Handler

\* The handlers of 0x71 and 0x72.
LEMMA RegisterInv ==
    ASSUME IInv, NEW r \in Registrar, FaceRegiste(r) \/ Register(r)
    PROVE  IInv'
  <1> DEFINE RegType == [Registrar -> [pc : {"idle", "read", "update"}, list : Nat]]
  <1>0. /\ TypeOK /\ ListsKnown /\ reg \in RegType /\ faces \in Nat
        /\ features <= faces /\ hnd.list <= faces /\ \A q \in Registrar : reg[q].list <= faces
        /\ hnd.list \in Nat /\ features \in Nat
    BY DEF IInv, TypeOK, ListsKnown
  <1>1. ASSUME UNCHANGED <<rows, seq, late>> PROVE Table!TableTypeOK'
    BY <1>0, <1>1, TableTypes
  <1>2. CASE FaceRegiste(r)
    <2>1. reg' \in RegType /\ \A q \in Registrar : reg'[q].list = reg[q].list
      BY <1>0, <1>2 DEF FaceRegiste
    <2>2. mixed' \in BOOLEAN /\ faces' \in Nat /\ faces' >= faces
      BY <1>0, <1>2 DEF FaceRegiste, BeginList
    <2>3. TypeOK'
      BY <1>0, <1>1, <1>2, <2>1, <2>2 DEF FaceRegiste, TypeOK, config, alg, store
    <2>4. \A q \in Registrar : reg'[q].list <= faces'
      BY <1>0, <2>1, <2>2
    <2> QED BY <1>0, <1>2, <2>2, <2>3, <2>4, HandlerInv DEF FaceRegiste
  <1>3. CASE ReadFaces(r)
    <2>1. reg' \in RegType /\ \A q \in Registrar : reg'[q].list \in {reg[q].list, faces}
      BY <1>0, <1>3 DEF ReadFaces
    <2>2. TypeOK'
      BY <1>0, <1>1, <1>3, <2>1 DEF ReadFaces, TypeOK, config, alg, lists, store
    <2> QED BY <1>0, <1>3, <2>1, <2>2, HandlerInv DEF ReadFaces, lists
  <1>4. CASE FaceFeatureUpdate(r)
    <2>1. reg' \in RegType /\ \A q \in Registrar : reg'[q].list \in {reg[q].list, 0}
      BY <1>0, <1>4 DEF FaceFeatureUpdate, NoList
    <2>2. TypeOK'
      BY <1>0, <1>1, <1>4, <2>1 DEF FaceFeatureUpdate, TypeOK, config, alg, store
    <2> QED BY <1>0, <1>4, <2>1, <2>2, HandlerInv DEF FaceFeatureUpdate
  <1> QED BY <1>2, <1>3, <1>4 DEF Register

\* A frame of n faces, found once for each subscription, leaves at least one to compare.
LEMMA FacesLeft ==
    ASSUME NEW n \in Nat, NEW k \in Nat, n > 0, k > 0
    PROVE  n * k \in Nat /\ n * k > 0
OBVIOUS

\* The camera threads.
LEMMA CameraInv ==
    ASSUME IInv, NEW s \in Source, Camera(s) \/ \E n \in 1..MaxInFrame : ProcVideoStream(s, n)
    PROVE  IInv'
  <1>0. /\ TypeOK /\ cam[s] \in CamType /\ faces \in Nat /\ features \in Nat /\ features <= faces
        /\ cam[s].pc # "idle" => cam[s].left > 0
        /\ cam[s].pc \in Holding => cam[s].face \in 1..faces
        /\ who \in [rows -> Nat] /\ \A i \in rows : who[i] \in 1..faces
    BY DEF IInv, TypeOK, ListsKnown, ReportKnown, CamType
  <1>1. ASSUME UNCHANGED store
        PROVE  Table!TableTypeOK' /\ who' \in [rows' -> Nat] /\ \A i \in rows' : who'[i] \in 1..faces
    <2>1. UNCHANGED <<rows, seq, late>> /\ who' = who
      BY <1>1 DEF store
    <2> QED BY <1>0, <2>1, TableTypes
  <1>2. Resting \in CamType /\ Resting.pc = "idle"
    BY DEF Resting, CamType
  <1>3. ASSUME cam[s].pc # "idle"
        PROVE  /\ NextFace(s) \in CamType /\ NextFace(s).pc \in {"idle", "face"}
               /\ NextFace(s).pc # "idle" => NextFace(s).left > 0
    <2>1. CASE cam[s].left = 1
      BY <1>2, <2>1 DEF NextFace
    <2>2. CASE cam[s].left # 1
      <3>1. cam[s].left - 1 \in Nat /\ cam[s].left - 1 > 0
        BY <1>0, <1>3, <2>2 DEF CamType
      <3> QED BY <2>2, <3>1 DEF NextFace, Resting, CamType
    <2> QED BY <2>1, <2>2
  <1>4. ASSUME NEW n \in 1..MaxInFrame, ProcVideoStream(s, n) PROVE IInv'
    <2> DEFINE c == [Resting EXCEPT !.pc = "face", !.left = n * subs[s]]
    <2>1. n * subs[s] \in Nat /\ n * subs[s] > 0
      <3>1. n \in Nat /\ n > 0 /\ subs[s] \in Nat /\ subs[s] > 0
        <4>1. MaxInFrame \in Nat
          BY FaceAssumption DEF FaceAssumption
        <4>2. n \in Nat /\ n > 0
          BY <4>1
        <4>3. subs[s] \in Nat
          BY <1>0 DEF TypeOK
        <4> QED BY <1>4, <4>2, <4>3 DEF ProcVideoStream
      <3> QED BY <3>1, FacesLeft
    <2>2. c \in CamType /\ c.pc = "face" /\ c.left > 0
      BY <2>1 DEF Resting, CamType
    <2> HIDE DEF c
    <2>3. CamStep(s, c) /\ UNCHANGED store
      BY <1>4 DEF ProcVideoStream, c
    <2> QED BY <1>1, <2>2, <2>3, CamInv DEF Holding
  <1>5. ASSUME NEW f \in 0..features, Compare(s, f) PROVE IInv'
    <2>1. cam[s].pc = "face" /\ FeatureMutexFree /\ UNCHANGED store
      BY <1>5 DEF Compare
    <2>2. CASE f = 0
      <3>1. CamStep(s, NextFace(s))
        BY <1>5, <2>2 DEF Compare
      <3> QED BY <1>1, <1>3, <2>1, <3>1, CamInv DEF Holding
    <2>3. CASE f # 0
      <3> DEFINE c == [cam[s] EXCEPT !.pc = "matched", !.face = f]
      <3>1. f \in 1..faces
        BY <1>0, <2>3
      <3>2. c \in CamType /\ c.face = f /\ c.left = cam[s].left
        <4>1. cam[s] \in CamType /\ f \in Nat
          BY <1>0
        <4> QED BY ONLY <4>1 DEF CamType
      <3> HIDE DEF c
      <3>3. CamStep(s, c)
        BY <1>5, <2>3 DEF Compare, c
      <3> QED BY <1>0, <1>1, <2>1, <3>1, <3>2, <3>3, CamInv
    <2> QED BY <2>2, <2>3
  <1>6. ASSUME NEW c \in CamType, CamStep(s, c), cam[s].pc \in Holding,
               c.left = cam[s].left, c.face = cam[s].face,
               Table!TableTypeOK', who' \in [rows' -> Nat], \A i \in rows' : who'[i] \in 1..faces
        PROVE  IInv'
    <2>1. cam[s].pc # "idle"
      BY <1>6 DEF Holding
    <2> QED BY <1>0, <1>6, <2>1, CamInv
  <1>7. CASE Report(s)
    <2> DEFINE c == [cam[s] EXCEPT !.pc = "report", !.todo = topics]
    <2>1. c \in CamType /\ c.left = cam[s].left /\ c.face = cam[s].face
      BY <1>0 DEF CamType, TypeOK
    <2> HIDE DEF c
    <2>2. CamStep(s, c) /\ UNCHANGED store /\ cam[s].pc \in Holding
      BY <1>7 DEF Report, c, Holding
    <2> QED BY <1>1, <1>6, <2>1, <2>2
  <1>8. ASSUME NEW t \in Task, ProResultMsg(s, t) PROVE IInv'
    <2> DEFINE p == IF s \in dataSrc[t] THEN "delete" ELSE "report"
               c == [cam[s] EXCEPT !.pc = p, !.todo = @ \ {t}]
    <2>1. p \in {"delete", "report"}
      OBVIOUS
    <2>2. c \in CamType /\ c.left = cam[s].left /\ c.face = cam[s].face
      BY <1>0, <2>1 DEF CamType
    <2>3. CamStep(s, c) /\ UNCHANGED store /\ cam[s].pc \in Holding
      BY <1>8 DEF ProResultMsg, Holding
    <2> HIDE DEF c
    <2> QED BY <1>1, <1>6, <2>2, <2>3
  <1>9. CASE DeleteOld(s)
    <2> DEFINE c == [cam[s] EXCEPT !.pc = "insert"]
    <2>1. c \in CamType /\ c.left = cam[s].left /\ c.face = cam[s].face
      BY <1>0 DEF CamType
    <2> HIDE DEF c
    <2>2. CamStep(s, c) /\ cam[s].pc \in Holding
      BY <1>9 DEF DeleteOld, c, Holding
    <2>3. Table!TableTypeOK'
      BY <1>0, <1>9, TableTypes DEF DeleteOld
    <2>4. rows' \subseteq rows
      BY <1>9 DEF DeleteOld, Table!DeleteStmt, Table!Kept
    <2>5. who' = [i \in rows' |-> who[i]]
      BY <1>9 DEF DeleteOld
    <2>6. who' \in [rows' -> Nat] /\ \A i \in rows' : who'[i] \in 1..faces
      BY <1>0, <2>4, <2>5
    <2> QED BY <1>6, <2>1, <2>2, <2>3, <2>6
  <1>10. CASE SaveAlert(s)
    <2> DEFINE c == [cam[s] EXCEPT !.pc = "report"]
    <2>1. c \in CamType /\ c.left = cam[s].left /\ c.face = cam[s].face
      BY <1>0 DEF CamType
    <2> HIDE DEF c
    <2>2. CamStep(s, c) /\ cam[s].pc \in Holding
      BY <1>10 DEF SaveAlert, c, Holding
    <2>3. Table!TableTypeOK'
      BY <1>0, <1>10, TableTypes DEF SaveAlert
    <2>4. who' = [i \in rows' |-> IF i \in rows THEN who[i] ELSE cam[s].face]
      BY <1>10 DEF SaveAlert
    <2>5. cam[s].face \in 1..faces
      BY <1>0, <2>2
    <2>6. who' \in [rows' -> Nat] /\ \A i \in rows' : who'[i] \in 1..faces
      BY <1>0, <2>4, <2>5
    <2> QED BY <1>6, <2>1, <2>2, <2>3, <2>6
  <1>11. CASE ReportDone(s)
    <2>1. CamStep(s, NextFace(s)) /\ UNCHANGED store /\ cam[s].pc = "report"
      BY <1>11 DEF ReportDone
    <2> QED BY <1>1, <1>3, <2>1, CamInv DEF Holding
  <1> QED BY <1>4, <1>5, <1>7, <1>8, <1>9, <1>10, <1>11 DEF Camera

\* A restart leaves faces and alerts, and nothing else.
LEMMA RestartInv ==
    ASSUME IInv, Restart
    PROVE  IInv'
  <1>0. TypeOK /\ ReportKnown
    BY DEF IInv
  <1>1. Table!TableTypeOK'
    BY <1>0, TableTypes DEF Restart, store
  <1>2. hnd' = Start /\ on \subseteq Task /\ NoTask \in Task \cup {NoTask}
    BY <1>0 DEF Restart, TypeOK
  <1>3. /\ hnd' \in [pc : {"idle", "tasks", "read", "topic", "features"}, todo : SUBSET Task,
                     task : Task \cup {NoTask}, list : Nat, main : BOOLEAN]
        /\ hnd'.pc = "tasks" /\ hnd'.list = 0
    BY ONLY <1>2 DEF Start
  <1>4. cam' \in [Source -> CamType] /\ \A s \in Source : cam'[s].pc = "idle"
    BY DEF Restart, Resting, CamType
  <1>5. /\ reg' \in [Registrar -> [pc : {"idle", "read", "update"}, list : Nat]]
        /\ \A r \in Registrar : reg'[r].list = 0
    BY DEF Restart, NoList
  <1>6. UNCHANGED <<on, src, updates, faces, rows, who>> /\ restarts' \in Nat
    BY <1>0 DEF Restart, store, TypeOK
  <1>7. TypeOK'
    BY <1>0, <1>1, <1>3, <1>4, <1>5, <1>6 DEF Restart, TypeOK, CamType
  <1>8. ListsKnown'
    BY <1>0, <1>3, <1>4, <1>5, <1>6 DEF Restart, ListsKnown, Holding, TypeOK
  <1>9. OneHolder' /\ ReportKnown'
    BY <1>0, <1>4, <1>6 DEF OneHolder, ReportKnown, Holding
  <1> QED BY <1>7, <1>8, <1>9 DEF IInv

\* Every step preserves the invariant.
LEMMA StepInv == IInv /\ [Next]_vars => IInv'
  <1> SUFFICES ASSUME IInv, [Next]_vars PROVE IInv'
    OBVIOUS
  <1>1. CASE UNCHANGED vars
    <2>1. UNCHANGED <<rows, seq, late>>
      BY <1>1 DEF vars, store
    <2>2. Table!TableTypeOK'
      BY <2>1, TableTypes DEF IInv
    <2>3. TypeOK'
      BY <1>1, <2>2 DEF IInv, TypeOK, vars, config, alg, lists, store
    <2>4. OneHolder' /\ ListsKnown' /\ ReportKnown'
      BY <1>1 DEF IInv, OneHolder, ListsKnown, ReportKnown, vars, config, alg, lists, store
    <2> QED BY <2>3, <2>4 DEF IInv
  <1> QED BY <1>1, UpdateInv, RegisterInv, CameraInv, RestartInv DEF Next

\* The mutexes exclude, and no list and no alert names a face that is not stored.
THEOREM FaceInvariance == Spec => []IInv
BY InitInv, StepInv, PTL DEF Spec

\* Every face alert names a registered face: ReportResult's join drops no alert.
THEOREM FacesKnown == Spec => []ReportKnown
  <1>1. IInv => ReportKnown
    BY DEF IInv
  <1> QED BY <1>1, FaceInvariance, PTL

\* Who holds m_mapFaceFeatureMutex finds m_mapReportTopicMutex free, because it is
\* only taken under the first one or for a single assignment.
THEOREM NoCircularWait == Spec => []HolderNeverWaits
  <1>1. IInv => HolderNeverWaits
    BY DEF IInv, OneHolder, Holding, HolderNeverWaits, TopicMutexFree
  <1> QED BY <1>1, FaceInvariance, PTL

\* FaceReportTable has one writer, however many cameras and tasks there are; with
\* RingBounded of AlertReport_proofs this bounds it by s32QueueSize plus one (plus
\* failed deletes).
THEOREM FaceImplementsTable == Spec => ImplementsAlertTable
  <1>1. Init => Table!TableInit
    BY DEF Init, Table!TableInit, writer, Resting
  <1>2. ASSUME UNCHANGED <<rows, seq, late>>,
               \A s \in Source : (cam[s].pc = "insert" \/ cam'[s].pc = "insert") => cam'[s] = cam[s]
        PROVE  UNCHANGED Table!table
    <2>1. writer' = writer
      BY <1>2 DEF writer
    <2> QED BY <1>2, <2>1 DEF Table!table
  <1>3. IInv /\ [Next]_vars => [Table!TableNext]_(Table!table)
    <2> SUFFICES ASSUME IInv, [Next]_vars PROVE [Table!TableNext]_(Table!table)
      OBVIOUS
    <2>1. ASSUME NEW s \in Source, NEW c, CamStep(s, c)
          PROVE  cam'[s] = c /\ \A r \in Source \ {s} : cam'[r] = cam[r]
      BY <2>1 DEF CamStep, IInv, TypeOK
    <2>2. CASE UNCHANGED <<cam, store>>
      BY <1>2, <2>2 DEF store
    <2>3. CASE Restart
      <3>1. writer' = [t \in {"face"} |-> "idle"]
        BY <2>3 DEF Restart, Resting, writer
      <3> QED BY <2>3, <3>1 DEF Restart, store, Table!TableNext, Table!TableRestart
    <2>4. ASSUME NEW s \in Source, NEW c, CamStep(s, c), UNCHANGED store,
                 cam[s].pc # "insert", c.pc # "insert"
          PROVE  UNCHANGED Table!table
      BY <1>2, <2>1, <2>4 DEF store
    <2>5. ASSUME NEW s \in Source, cam[s].pc \in Holding
          PROVE  \A r \in Source \ {s} : cam[r].pc # "insert"
      BY <2>5 DEF IInv, OneHolder, Holding
    <2>6. ASSUME NEW s \in Source, DeleteOld(s) PROVE Table!Delete("face")
      <3>1. cam[s].pc = "delete" /\ CamStep(s, [cam[s] EXCEPT !.pc = "insert"])
        BY <2>6 DEF DeleteOld
      <3>2. cam'[s].pc = "insert"
        BY <2>1, <3>1 DEF IInv, TypeOK
      <3>3. \A r \in Source : cam[r].pc # "insert"
        BY <2>5, <3>1 DEF Holding
      <3>4. writer["face"] = "idle" /\ writer' = [writer EXCEPT !["face"] = "deleted"]
        BY <3>2, <3>3 DEF writer
      <3> QED BY <2>6, <3>4 DEF DeleteOld, Table!Delete
    <2>7. ASSUME NEW s \in Source, SaveAlert(s) PROVE Table!Insert("face")
      <3>1. cam[s].pc = "insert" /\ CamStep(s, [cam[s] EXCEPT !.pc = "report"])
        BY <2>7 DEF SaveAlert
      <3>2. \A r \in Source : cam'[r].pc # "insert"
        BY <2>1, <2>5, <3>1 DEF IInv, TypeOK, Holding
      <3>3. writer["face"] = "deleted" /\ writer' = [writer EXCEPT !["face"] = "idle"]
        BY <3>1, <3>2 DEF writer
      <3> QED BY <2>7, <3>3 DEF SaveAlert, Table!Insert
    <2>8. ASSUME NEW s \in Source, NEW n \in 1..MaxInFrame, ProcVideoStream(s, n)
          PROVE  UNCHANGED Table!table
      <3>1. [Resting EXCEPT !.pc = "face", !.left = n * subs[s]].pc # "insert"
        BY DEF Resting
      <3> QED BY <2>4, <2>8, <3>1 DEF ProcVideoStream
    <2>9. ASSUME NEW s \in Source,
                 \/ Report(s) \/ ReportDone(s)
                 \/ \E f \in 0..features : Compare(s, f)
                 \/ \E t \in Task : ProResultMsg(s, t)
          PROVE  UNCHANGED Table!table
      <3>1. cam[s].pc # "insert" /\ UNCHANGED store
        BY <2>9 DEF Report, ReportDone, Compare, ProResultMsg
      <3>2. cam[s] \in CamType
        BY DEF IInv, TypeOK, CamType
      <3>3. NextFace(s).pc # "insert"
        BY DEF NextFace, Resting
      <3>4. \E c : CamStep(s, c) /\ c.pc # "insert"
        <4>1. CASE Report(s)
          <5>1. [cam[s] EXCEPT !.pc = "report", !.todo = topics].pc # "insert"
            BY <3>2 DEF CamType
          <5> QED BY <4>1, <5>1 DEF Report
        <4>2. CASE ReportDone(s)
          BY <3>3, <4>2 DEF ReportDone
        <4>3. ASSUME NEW f \in 0..features, Compare(s, f) PROVE \E c : CamStep(s, c) /\ c.pc # "insert"
          <5>1. [cam[s] EXCEPT !.pc = "matched", !.face = f].pc # "insert"
            BY <3>2 DEF CamType
          <5> QED BY <3>3, <4>3, <5>1 DEF Compare
        <4>4. ASSUME NEW t \in Task, ProResultMsg(s, t) PROVE \E c : CamStep(s, c) /\ c.pc # "insert"
          <5> DEFINE p == IF s \in dataSrc[t] THEN "delete" ELSE "report"
                     c == [cam[s] EXCEPT !.pc = p, !.todo = @ \ {t}]
          <5>1. p # "insert"
            OBVIOUS
          <5>2. c.pc = p
            BY <3>2 DEF CamType
          <5>3. CamStep(s, c)
            BY <4>4 DEF ProResultMsg
          <5> HIDE DEF c, p
          <5> QED BY <5>1, <5>2, <5>3
        <4> QED BY <2>9, <4>1, <4>2, <4>3, <4>4
      <3> QED BY <2>4, <3>1, <3>4
    <2>10. ASSUME NEW T \in SUBSET Task, NEW S \in [Task -> SourceLists], Update(T, S)
           PROVE  UNCHANGED <<cam, store>>
      BY <2>10 DEF Update
    <2>11. Handler => UNCHANGED <<cam, store>>
      BY DEF Handler, TaskInit, ReadFaceFeatureLst, SetReportTopic, SetFaceFeature, Reply
    <2>12. ASSUME NEW r \in Registrar, FaceRegiste(r) \/ Register(r) PROVE UNCHANGED <<cam, store>>
      BY <2>12 DEF FaceRegiste, Register, ReadFaces, FaceFeatureUpdate
    <2>13. UNCHANGED vars => UNCHANGED <<cam, store>>
      BY DEF vars
    <2> QED BY <2>2, <2>3, <2>6, <2>7, <2>8, <2>9, <2>10, <2>11, <2>12, <2>13
          DEF Next, Camera, Table!TableNext
  <1> QED BY <1>1, <1>3, FaceInvariance, PTL DEF Spec, ImplementsAlertTable, Table!TableSpec

-----------------------------------------------------------------------------
\* Handlers of 0x71 and 0x72 put lists on their way and hand them over.
LEMMA RegisterLists ==
    ASSUME IInv, RInv, NEW r \in Registrar, FaceRegiste(r) \/ Register(r)
    PROVE  RInv'
  <1>1. /\ UNCHANGED <<hnd, ready>>
        /\ reg \in [Registrar -> [pc : {"idle", "read", "update"}, list : Nat]]
    BY DEF IInv, TypeOK, FaceRegiste, Register, ReadFaces, FaceFeatureUpdate, alg
  <1>2. \A q \in Registrar \ {r} : reg'[q] = reg[q]
    BY <1>1 DEF FaceRegiste, Register, ReadFaces, FaceFeatureUpdate
  <1>3. CASE FaceRegiste(r)
    <2>1. reg'[r].pc = "read"
      BY <1>1, <1>3 DEF FaceRegiste
    <2>2. ~mixed' => hnd.pc \notin {"topic", "features"} /\ \A q \in Registrar : reg[q].pc = "idle"
      BY <1>3 DEF FaceRegiste, BeginList, Listing
    <2>3. OneList'
      BY <1>1, <1>2, <2>1, <2>2 DEF OneList
    <2>4. r \in Listing'
      BY <2>1 DEF Listing
    <2> QED BY <2>3, <2>4 DEF RInv, RegisteredInForce
  <1>4. CASE ReadFaces(r)
    <2>1. reg[r].pc = "read" /\ reg'[r] = [pc |-> "update", list |-> faces] /\ UNCHANGED <<faces, mixed>>
      BY <1>1, <1>4 DEF ReadFaces, lists
    <2>2. OneList'
      BY <1>1, <1>2, <2>1 DEF RInv, OneList
    <2>3. r \in Listing'
      BY <2>1 DEF Listing
    <2> QED BY <2>2, <2>3 DEF RInv, RegisteredInForce
  <1>5. CASE FaceFeatureUpdate(r)
    <2>1. /\ reg[r].pc = "update" /\ reg'[r].pc = "idle" /\ features' = reg[r].list
          /\ UNCHANGED <<faces, mixed>>
      BY <1>1, <1>5 DEF FaceFeatureUpdate, NoList
    <2>2. OneList'
      BY <1>1, <1>2, <2>1 DEF RInv, OneList
    <2>3. ~mixed => features' = faces
      BY <2>1 DEF RInv, OneList
    <2> QED BY <2>1, <2>2, <2>3 DEF RInv, RegisteredInForce
  <1> QED BY <1>3, <1>4, <1>5 DEF Register

\* The handler of 0x13 reads a list and hands it over when it initialises a task.
LEMMA HandlerLists ==
    ASSUME IInv, RInv, Handler
    PROVE  RInv'
  <1>1. /\ UNCHANGED <<reg, faces>>
        /\ hnd \in [pc : {"idle", "tasks", "read", "topic", "features"}, todo : SUBSET Task,
                    task : Task \cup {NoTask}, list : Nat, main : BOOLEAN]
    BY DEF IInv, TypeOK, Handler, TaskInit, ReadFaceFeatureLst, SetReportTopic, SetFaceFeature, Reply
  <1>2. CASE ReadFaceFeatureLst
    <2>1. hnd'.pc = "topic" /\ hnd'.list = faces
      BY <1>1, <1>2 DEF ReadFaceFeatureLst
    <2>2. ~mixed' => \A r \in Registrar : reg[r].pc = "idle"
      BY <1>2 DEF ReadFaceFeatureLst, BeginList, Listing
    <2>3. OneList'
      BY <1>1, <2>1, <2>2 DEF OneList
    <2>4. "handler" \in Listing'
      BY <2>1 DEF Listing
    <2> QED BY <2>3, <2>4 DEF RInv, RegisteredInForce
  <1>3. CASE SetReportTopic
    <2>1. /\ hnd.pc = "topic" /\ hnd'.pc = "features" /\ hnd'.list = hnd.list /\ UNCHANGED mixed
      BY <1>1, <1>3 DEF SetReportTopic, lists
    <2>2. OneList'
      BY <1>1, <2>1 DEF RInv, OneList
    <2>3. "handler" \in Listing'
      BY <2>1 DEF Listing
    <2> QED BY <2>2, <2>3 DEF RInv, RegisteredInForce
  <1>4. CASE SetFaceFeature
    <2>1. hnd.pc = "features" /\ hnd'.pc = "tasks" /\ features' = hnd.list /\ UNCHANGED mixed
      BY <1>1, <1>4 DEF SetFaceFeature
    <2>2. OneList'
      BY <1>1, <2>1 DEF RInv, OneList
    <2>3. ~mixed => features' = faces
      BY <2>1 DEF RInv, OneList
    <2> QED BY <1>1, <2>1, <2>2, <2>3 DEF RInv, RegisteredInForce
  <1>5. CASE Reply \/ \E t \in Task : TaskInit(t)
    <2>1. /\ UNCHANGED <<features, mixed, ready>>
          /\ hnd.pc = "tasks" /\ hnd'.pc \in {"idle", "read"}
      BY <1>1, <1>5 DEF Reply, TaskInit, lists, alg
    <2>2. Listing' = Listing
      BY <1>1, <2>1 DEF Listing
    <2> QED BY <1>1, <2>1, <2>2 DEF RInv, OneList, RegisteredInForce
  <1> QED BY <1>2, <1>3, <1>4, <1>5 DEF Handler

\* Nothing else touches a list.
LEMMA StepRInv == IInv /\ RInv /\ [Next]_vars => RInv'
  <1> SUFFICES ASSUME IInv, RInv, [Next]_vars PROVE RInv'
    OBVIOUS
  <1>1. ASSUME UNCHANGED <<hnd, reg, ready, features, mixed, faces>> PROVE RInv'
    BY <1>1 DEF RInv, OneList, RegisteredInForce, Listing
  <1>2. CASE UNCHANGED vars
    BY <1>1, <1>2 DEF vars, lists, alg
  <1>3. ASSUME NEW T \in SUBSET Task, NEW S \in [Task -> SourceLists], Update(T, S) PROVE RInv'
    <2>1. UNCHANGED <<reg, ready, features, mixed, faces>> /\ hnd.pc = "idle" /\ hnd'.pc = "tasks"
      BY <1>3 DEF Update, lists, alg, IInv, TypeOK
    <2>2. Listing' = Listing
      BY <2>1 DEF Listing
    <2> QED BY <2>1, <2>2 DEF RInv, OneList, RegisteredInForce
  <1>4. ASSUME NEW s \in Source, Camera(s) \/ \E n \in 1..MaxInFrame : ProcVideoStream(s, n) PROVE RInv'
    <2>1. UNCHANGED <<hnd, reg, ready, features, mixed, faces>>
      BY <1>4 DEF Camera, Report, DeleteOld, SaveAlert, ReportDone, Compare, ProResultMsg,
                  ProcVideoStream, CamStep, lists, alg
    <2> QED BY <1>1, <2>1
  <1>5. CASE Restart
    <2>1. ~ready' /\ hnd'.pc = "tasks" /\ \A r \in Registrar : reg'[r].pc = "idle"
      BY <1>5 DEF Restart, Start, NoList
    <2> QED BY <2>1 DEF RInv, OneList, RegisteredInForce
  <1> QED BY <1>2, <1>3, <1>4, <1>5, RegisterLists, HandlerLists DEF Next

\* After registrations and initialisations that did not overlap, the algorithm compares
\* with exactly the stored faces, failed inserts or not, for any number of handlers,
\* tasks, cameras and restarts.
THEOREM FacesInForce == Spec => []RegisteredInForce
  <1>1. Init => RInv
    <2> SUFFICES ASSUME Init PROVE RInv
      OBVIOUS
    <2>1. ~ready /\ hnd.pc = "tasks" /\ \A r \in Registrar : reg[r].pc = "idle"
      BY DEF Init, Start, NoList
    <2> QED BY <2>1 DEF RInv, OneList, RegisteredInForce
  <1>2. RInv => RegisteredInForce
    BY DEF RInv
  <1> QED BY <1>1, <1>2, StepRInv, FaceInvariance, PTL DEF Spec
=============================================================================
