------------------------- MODULE RtspCliMng_proofs -------------------------
(***************************************************************************)
(* For any number of updates, subsessions and queues: a camera has one     *)
(* producer, every picture has the size of the camera that took it, and    *)
(* no callback runs on a camera that is being freed.                       *)
(*                                                                         *)
(* The argument is that at most one of the two workers is between opening  *)
(* and closing the source (OneWorker), and that a source is opened only    *)
(* where the last one is closed (SnapOwned, SourceClosed).                 *)
(***************************************************************************)
EXTENDS RtspCliMng, TLAPS

Obj == {"pull", "snap"}

\* The typing of what the steps of a worker and of a thread change.
LEMMA TypeParts ==
    ASSUME TypeOK
    PROVE  /\ at \in [Workers -> OwnerSteps \cup PullSteps]
           /\ at["owner"] \in OwnerSteps /\ at["pull"] \in PullSteps
           /\ loop \in [Obj -> LoopStates] /\ unit \in [Obj -> UnitStates]
  BY DEF TypeOK, CThreadTypeOK, Obj

\* Nothing is open and no thread runs.
LEMMA InitIInv == Init => IInv
  <1> SUFFICES ASSUME Init PROVE IInv
    OBVIOUS
  <1>1. /\ at = [w \in Workers |-> IF w = "owner" THEN "new" ELSE "begin"]
        /\ at["owner"] = "new" /\ at["pull"] = "begin"
    BY DEF Init, Workers
  <1>2. loop["pull"] = "none" /\ loop["snap"] = "none" /\ unit["pull"] = "none" /\ unit["snap"] = "none"
    BY DEF Init, CThreadInit
  <1>3. \A q \in QueueTypes : que[q] = <<>>
    BY DEF Init
  <1>4. TypeOK
    <2>1. at \in [Workers -> OwnerSteps \cup PullSteps]
      BY <1>1 DEF OwnerSteps, PullSteps
    <2>2. at["owner"] \in OwnerSteps /\ at["pull"] \in PullSteps
      BY <1>1 DEF OwnerSteps, PullSteps
    <2>3. CThreadTypeOK
      BY DEF Init, CThreadInit, CThreadTypeOK, LoopStates, UnitStates
    <2>4. info \in Infos
      BY CameraAssumption DEF Init, Infos, CameraAssumption
    <2>5. que \in [QueueTypes -> Seq(Pictures)] /\ \A q \in QueueTypes : Len(que[q]) <= Capacity
      BY CameraAssumption DEF Init, CameraAssumption
    <2>6. url \in Vers /\ source \in Vers /\ qsize \in Vers /\ subs \in 0..MaxSub
      BY CameraAssumption DEF Init, Vers, CameraAssumption
    <2>7. /\ sched \in BOOLEAN /\ first \in BOOLEAN /\ http \in BOOLEAN
          /\ silent \in BOOLEAN /\ reconn \in BOOLEAN /\ bUpdate \in BOOLEAN
      BY DEF Init
    <2> QED BY <2>1, <2>2, <2>3, <2>4, <2>5, <2>6, <2>7 DEF Init, TypeOK
  <1>5. SingleProducer /\ PictureSizes
    BY <1>3 DEF Init, SingleProducer, PictureSizes
  <1>6. OneWorker /\ SnapOwned /\ SourceClosed /\ SizeKnown
    BY <1>1, <1>2 DEF Init, OneWorker, SnapOwned, SourceClosed, SizeKnown, Workers
  <1> QED BY <1>4, <1>5, <1>6 DEF IInv

\* A worker goes to its step s, the other one stays.
LEMMA Goes ==
    ASSUME TypeOK, NEW w \in Workers, NEW s, Goto(w, s),
           w = "owner" => s \in OwnerSteps, w = "pull" => s \in PullSteps
    PROVE  /\ at' \in [Workers -> OwnerSteps \cup PullSteps]
           /\ at'["owner"] \in OwnerSteps /\ at'["pull"] \in PullSteps
           /\ at'[w] = s /\ \A v \in Workers : v # w => at'[v] = at[v]
  BY DEF Goto, TypeOK, Workers

\* A step of CThread keeps its types and leaves the other thread alone.
LEMMA Threads ==
    ASSUME CThreadTypeOK, NEW o \in Obj,
           \/ Create(o) \/ LoopWait(o) \/ LoopTimeout(o) \/ CbReturn(o) \/ LoopExit(o)
           \/ Destroy(o) \/ UnitSignal(o) \/ UnitJoined(o)
    PROVE  /\ CThreadTypeOK'
           /\ \A p \in Obj : p # o => loop'[p] = loop[p] /\ unit'[p] = unit[p]
  <1>1. loop \in [Obj -> LoopStates] /\ unit \in [Obj -> UnitStates]
    BY DEF CThreadTypeOK, Obj
  <1>2. \E l \in LoopStates, u \in UnitStates :
            loop' = [loop EXCEPT ![o] = l] /\ unit' = [unit EXCEPT ![o] = u]
    <2>1. loop[o] \in LoopStates /\ unit[o] \in UnitStates
      BY <1>1
    <2>2. loop = [loop EXCEPT ![o] = loop[o]] /\ unit = [unit EXCEPT ![o] = unit[o]]
      BY <1>1
    <2>3. CASE Create(o) \/ LoopWait(o) \/ LoopTimeout(o) \/ CbReturn(o) \/ LoopExit(o)
      BY <2>1, <2>2, <2>3 DEF Create, LoopWait, LoopTimeout, CbReturn, LoopExit, LoopStates
    <2>4. CASE Destroy(o) \/ UnitSignal(o) \/ UnitJoined(o)
      BY <2>1, <2>2, <2>4 DEF Destroy, UnitSignal, UnitJoined, LoopStates, UnitStates
    <2> QED BY <2>3, <2>4
  <1>3. loop' \in [Obj -> LoopStates] /\ unit' \in [Obj -> UnitStates]
    BY <1>1, <1>2
  <1>4. \A p \in Obj : p # o => loop'[p] = loop[p] /\ unit'[p] = unit[p]
    BY <1>1, <1>2
  <1> QED BY <1>3, <1>4 DEF CThreadTypeOK, Obj

\* ReleaseSource up to the join of the snapshot thread.
LEMMA ReleaseInv ==
    ASSUME IInv, NEW w \in Workers, ReleaseSource(w)
    PROVE  IInv'
  <1>1. TypeOK /\ CThreadTypeOK /\ at[w] = "release" /\ "snap" \in Obj
    BY DEF IInv, TypeOK, ReleaseSource, Runs, Obj
  <1>2. \E s \in {"joinSnap", "released"} :
           /\ Goto(w, s)
           /\ s = "joinSnap" => Destroy("snap")
           /\ s = "released" => loop["snap"] = "none" /\ UNCHANGED thr
    BY DEF ReleaseSource
  <1>3. PICK s \in {"joinSnap", "released"} :
           /\ Goto(w, s)
           /\ s = "joinSnap" => Destroy("snap")
           /\ s = "released" => loop["snap"] = "none" /\ UNCHANGED thr
    BY <1>2
  <1>4. s \in OwnerSteps /\ s \in PullSteps
    BY DEF OwnerSteps, PullSteps
  <1>5. /\ at' \in [Workers -> OwnerSteps \cup PullSteps]
        /\ at'["owner"] \in OwnerSteps /\ at'["pull"] \in PullSteps
        /\ at'[w] = s /\ \A v \in Workers : v # w => at'[v] = at[v]
    BY <1>1, <1>3, <1>4, Goes
  <1>6. /\ CThreadTypeOK' /\ loop' = loop
        /\ unit'["pull"] = unit["pull"]
        /\ s = "joinSnap" => unit'["snap"] = "lock" /\ loop["snap"] # "none"
        /\ s = "released" => unit'["snap"] = unit["snap"]
    <2>1. CASE s = "joinSnap"
      BY <1>1, <1>3, <2>1, Threads DEF Destroy, Obj, CThreadTypeOK
    <2>2. CASE s = "released"
      BY <1>1, <1>3, <2>2 DEF thr, CThreadTypeOK
    <2> QED BY <2>1, <2>2
  <1>7. sched' = FALSE /\ session' = "none" /\ subs' = 0 /\ UNCHANGED <<cfg, conn, pics, url, source, http>>
    BY DEF ReleaseSource
  <1>8. TypeOK'
    <2>0. sched' \in BOOLEAN
      BY <1>7
    <2>1. subs' \in 0..MaxSub
      BY <1>7, CameraAssumption DEF CameraAssumption
    <2>2. UNCHANGED <<info, bUpdate, silent, reconn, first, qsize, que, url, source, http>>
      BY <1>7 DEF cfg, conn, pics
    <2> QED BY ONLY <1>1, <1>5, <1>6, <1>7, <2>0, <2>1, <2>2 DEF TypeOK
  <1>9. OneWorker'
    BY <1>1, <1>3, <1>5, <1>6 DEF IInv, OneWorker, Workers, ReleaseSource, Runs
  <1>10. SnapOwned'
    BY <1>1, <1>3, <1>5, <1>6, <1>7 DEF IInv, OneWorker, SnapOwned, Workers
  <1>11. SingleProducer' /\ PictureSizes' /\ SourceClosed' /\ SizeKnown'
    BY <1>1, <1>3, <1>5, <1>6, <1>7
    DEF IInv, OneWorker, SingleProducer, PictureSizes, SourceClosed, SizeKnown, Workers, pics
  <1> QED BY <1>8, <1>9, <1>10, <1>11 DEF IInv

\* ReleaseThread(m_ptrSnapShotThread) has returned: this was the only waiting worker.
LEMMA SnapJoinedInv ==
    ASSUME IInv, NEW w \in Workers, SnapJoined(w)
    PROVE  IInv'
  <1>1. TypeOK /\ CThreadTypeOK /\ at[w] = "joinSnap" /\ "snap" \in Obj /\ UnitJoined("snap")
    BY DEF IInv, TypeOK, SnapJoined, Runs, Obj
  <1>2. /\ at' \in [Workers -> OwnerSteps \cup PullSteps]
        /\ at'["owner"] \in OwnerSteps /\ at'["pull"] \in PullSteps
        /\ at'[w] = "released" /\ \A v \in Workers : v # w => at'[v] = at[v]
    BY <1>1, Goes DEF SnapJoined, OwnerSteps, PullSteps
  <1>3. /\ CThreadTypeOK' /\ loop'["pull"] = loop["pull"] /\ unit'["pull"] = unit["pull"]
        /\ loop["snap"] = "exited" /\ loop'["snap"] = "none" /\ unit'["snap"] = "none"
    BY <1>1, Threads DEF UnitJoined, CThreadTypeOK, Obj
  <1>4. UNCHANGED <<cfg, src, conn, pics, http>>
    BY DEF SnapJoined
  <1>5. TypeOK'
    BY <1>1, <1>2, <1>3, <1>4 DEF TypeOK, cfg, src, conn, pics
  <1>6. OneWorker'
    BY <1>1, <1>2, <1>3 DEF IInv, OneWorker, Workers, SnapJoined, Runs
  <1>7. SnapOwned'
    BY <1>1, <1>2, <1>3, <1>4 DEF IInv, OneWorker, SnapOwned, Workers
  <1>8. SingleProducer' /\ PictureSizes' /\ SourceClosed' /\ SizeKnown'
    BY <1>1, <1>2, <1>3, <1>4
    DEF IInv, OneWorker, SingleProducer, PictureSizes, SourceClosed, SizeKnown, Workers, src, pics
  <1> QED BY <1>5, <1>6, <1>7, <1>8 DEF IInv

\* CloseFmpeg, with no producer left.
LEMMA ReleasedInv ==
    ASSUME IInv, NEW w \in Workers, Released(w)
    PROVE  IInv'
  <1>1. TypeOK /\ CThreadTypeOK /\ at[w] = "released"
    BY DEF IInv, TypeOK, Released, Runs
  <1>2. /\ at' \in [Workers -> OwnerSteps \cup PullSteps]
        /\ at'["owner"] \in OwnerSteps /\ at'["pull"] \in PullSteps
        /\ at'[w] = (IF w = "pull" THEN "url" ELSE "gone") /\ \A v \in Workers : v # w => at'[v] = at[v]
    BY <1>1, Goes DEF Released, OwnerSteps, PullSteps, Workers
  <1>3. /\ source' = None /\ UNCHANGED <<cfg, conn, pics, thr, url, sched, session, subs, http>>
    BY DEF Released
  <1>4. source' \in Vers
    BY <1>3 DEF Vers
  <1>5. TypeOK'
    BY <1>1, <1>2, <1>3, <1>4 DEF TypeOK, CThreadTypeOK, cfg, conn, pics, thr
  <1>6. OneWorker' /\ SnapOwned'
    BY <1>1, <1>2, <1>3 DEF IInv, OneWorker, SnapOwned, Workers, Released, Runs, thr
  <1>7. SingleProducer' /\ PictureSizes' /\ SourceClosed' /\ SizeKnown'
    BY <1>1, <1>2, <1>3
    DEF IInv, OneWorker, SingleProducer, PictureSizes, SourceClosed, SizeKnown, Workers, pics, thr
  <1> QED BY <1>5, <1>6, <1>7 DEF IInv

\* GetRtspAndSnapUrl, with no producer that would use the address.
LEMMA OpenCameraInv ==
    ASSUME IInv, NEW w \in Workers, OpenCamera(w)
    PROVE  IInv'
  <1>1. TypeOK /\ CThreadTypeOK /\ at[w] = "url"
    BY DEF IInv, TypeOK, OpenCamera, Runs
  <1>2. PICK s \in {"setcb", "opened"} :
           /\ Goto(w, s)
           /\ url' = IF s = "setcb" THEN info.ver ELSE None
    BY DEF OpenCamera
  <1>3. /\ at' \in [Workers -> OwnerSteps \cup PullSteps]
        /\ at'["owner"] \in OwnerSteps /\ at'["pull"] \in PullSteps
        /\ at'[w] = s /\ \A v \in Workers : v # w => at'[v] = at[v]
    <2>1. s \in OwnerSteps /\ s \in PullSteps
      BY DEF OwnerSteps, PullSteps
    <2> QED BY <1>1, <1>2, <2>1, Goes
  <1>4. UNCHANGED <<cfg, conn, pics, thr, source, sched, session, subs, http>>
    BY DEF OpenCamera
  <1>5. info.ver \in 0..MaxVer /\ info.ver # None
    BY <1>1, CameraAssumption DEF TypeOK, Infos, CameraAssumption, None
  <1>6. url' \in Vers /\ (s = "setcb" => url' # None)
    BY <1>2, <1>5 DEF Vers
  <1>7. TypeOK'
    BY <1>1, <1>3, <1>4, <1>6 DEF TypeOK, CThreadTypeOK, cfg, conn, pics, thr
  <1>8. OneWorker' /\ SnapOwned'
    BY <1>1, <1>3, <1>4 DEF IInv, OneWorker, SnapOwned, Workers, OpenCamera, Runs, thr
  <1>9. SingleProducer' /\ PictureSizes' /\ SourceClosed' /\ SizeKnown'
    BY <1>1, <1>3, <1>4, <1>6
    DEF IInv, OneWorker, SingleProducer, PictureSizes, SourceClosed, SizeKnown, Workers, pics, thr
  <1> QED BY <1>7, <1>8, <1>9 DEF IInv

\* SetPullStreamCB opens a stream or creates the snapshot thread, where there is neither.
LEMMA SetPullStreamCBInv ==
    ASSUME IInv, NEW w \in Workers, SetPullStreamCB(w)
    PROVE  IInv'
  <1>1. TypeOK /\ CThreadTypeOK /\ at[w] = "setcb" /\ "snap" \in Obj
    BY DEF IInv, TypeOK, SetPullStreamCB, Runs, Obj
  <1>2. /\ at' \in [Workers -> OwnerSteps \cup PullSteps]
        /\ at'["owner"] \in OwnerSteps /\ at'["pull"] \in PullSteps
        /\ at'[w] = "opened" /\ \A v \in Workers : v # w => at'[v] = at[v]
    BY <1>1, Goes DEF SetPullStreamCB, OwnerSteps, PullSteps
  <1>3. source' = url /\ url # None /\ ~sched /\ loop["snap"] = "none" /\ session = "none"
    BY <1>1 DEF IInv, SizeKnown, SourceClosed, SetPullStreamCB
  <1>4. UNCHANGED <<cfg, conn, url, subs, http, qsize, que>>
    BY DEF SetPullStreamCB
  <1>5. CASE sched' = TRUE /\ session' = "describe" /\ first' = TRUE /\ UNCHANGED thr
    <2>1. sched' \in BOOLEAN /\ first' \in BOOLEAN
      BY <1>5
    <2>2. TypeOK'
      BY ONLY <1>1, <1>2, <1>3, <1>4, <1>5, <2>1
      DEF TypeOK, CThreadTypeOK, cfg, conn, thr
    <2>3. OneWorker' /\ SnapOwned'
      BY <1>1, <1>2, <1>4, <1>5 DEF IInv, OneWorker, SnapOwned, Workers, SetPullStreamCB, Runs, thr
    <2>4. SingleProducer' /\ PictureSizes' /\ SourceClosed' /\ SizeKnown'
      BY <1>1, <1>2, <1>3, <1>4, <1>5
      DEF IInv, OneWorker, SingleProducer, PictureSizes, SourceClosed, SizeKnown, Workers, thr
    <2> QED BY <2>2, <2>3, <2>4 DEF IInv
  <1>6. CASE Create("snap") /\ UNCHANGED <<sched, session, first>>
    <2>1. /\ CThreadTypeOK' /\ loop'["pull"] = loop["pull"]
          /\ unit' = unit /\ loop'["snap"] = "top"
      BY <1>1, <1>6, Threads DEF Create, CThreadTypeOK, Obj
    <2>2. TypeOK'
      BY <1>1, <1>2, <1>3, <1>4, <1>6, <2>1 DEF TypeOK, cfg, conn
    <2>3. OneWorker' /\ SnapOwned'
      BY <1>1, <1>2, <1>3, <1>4, <1>6, <2>1 DEF IInv, OneWorker, SnapOwned, Workers, SetPullStreamCB, Runs
    <2>4. SingleProducer' /\ PictureSizes' /\ SourceClosed' /\ SizeKnown'
      BY <1>1, <1>2, <1>3, <1>4, <1>6, <2>1
      DEF IInv, OneWorker, SingleProducer, PictureSizes, SourceClosed, SizeKnown, Workers
    <2> QED BY <2>2, <2>3, <2>4 DEF IInv
  <1> QED BY <1>5, <1>6 DEF SetPullStreamCB

\* The owner starts the camera, creates its pull thread, deletes the camera.
LEMMA OwnerInv ==
    ASSUME IInv, Start \/ Started \/ Delete \/ PullJoined
    PROVE  IInv'
  <1>1. TypeOK /\ CThreadTypeOK /\ "owner" \in Workers /\ "pull" \in Obj /\ "snap" \in Obj
    BY DEF IInv, TypeOK, Workers, Obj
  <1>2. UNCHANGED <<cfg, src, conn, pics, http>>
    BY DEF Start, Started, Delete, PullJoined
  <1>3. PICK s \in {"url", "running", "joinPull", "release"} :
           /\ Goto("owner", s)
           /\ s = "url" => at["owner"] = "new" /\ UNCHANGED thr
           /\ s = "running" => at["owner"] = "opened" /\ Create("pull")
           /\ s = "joinPull" => at["owner"] = "running" /\ Destroy("pull")
           /\ s = "release" => at["owner"] = "joinPull" /\ UnitJoined("pull")
    BY DEF Start, Started, Delete, PullJoined
  <1>4. /\ at' \in [Workers -> OwnerSteps \cup PullSteps]
        /\ at'["owner"] \in OwnerSteps /\ at'["pull"] \in PullSteps
        /\ at'["owner"] = s /\ at'["pull"] = at["pull"]
    <2>1. s \in OwnerSteps
      BY DEF OwnerSteps
    <2> QED BY <1>1, <1>3, <2>1, Goes DEF Workers
  <1>5. CThreadTypeOK' /\ loop'["snap"] = loop["snap"] /\ unit'["snap"] = unit["snap"]
    <2>1. CASE UNCHANGED thr
      BY <1>1, <2>1 DEF thr, CThreadTypeOK
    <2>2. CASE Create("pull") \/ Destroy("pull") \/ UnitJoined("pull")
      BY <1>1, <2>2, Threads DEF Obj
    <2> QED BY <1>3, <2>1, <2>2
  <1>6. TypeOK'
    BY <1>1, <1>2, <1>4, <1>5 DEF TypeOK, cfg, src, conn, pics
  <1>7. OneWorker'
    <2>1. s = "url" => loop'["pull"] = loop["pull"] /\ unit'["pull"] = unit["pull"]
      BY <1>3 DEF thr
    <2>2. s = "running" => loop'["pull"] = "top" /\ unit'["pull"] = unit["pull"] /\ loop["pull"] = "none"
      BY <1>1, <1>3 DEF Create, CThreadTypeOK
    <2>3. s = "joinPull" => loop'["pull"] = loop["pull"] /\ unit'["pull"] = "lock" /\ loop["pull"] # "none"
      BY <1>1, <1>3 DEF Destroy, CThreadTypeOK
    <2>4. s = "release" => loop'["pull"] = "none" /\ unit'["pull"] = "none" /\ loop["pull"] = "exited"
      BY <1>1, <1>3 DEF UnitJoined, CThreadTypeOK
    <2> QED BY <1>3, <1>4, <2>1, <2>2, <2>3, <2>4 DEF IInv, OneWorker
  <1>8. SnapOwned'
    BY <1>2, <1>3, <1>4, <1>5 DEF IInv, SnapOwned, Workers
  <1>9. SingleProducer' /\ PictureSizes' /\ SourceClosed' /\ SizeKnown'
    BY <1>2, <1>3, <1>4, <1>5
    DEF IInv, SingleProducer, PictureSizes, SourceClosed, SizeKnown, Workers, src, pics
  <1> QED BY <1>6, <1>7, <1>8, <1>9 DEF IInv

\* An update, and the time that passes, touch neither threads nor pictures.
LEMMA OutsideInv ==
    ASSUME IInv, Silence \/ \E m \in Modes : UpdateCamBaseInfo(m)
    PROVE  IInv'
  <1>1. TypeOK
    BY DEF IInv
  <1>2. UNCHANGED <<src, pics, thr, at, reconn, http>>
    BY DEF Silence, UpdateCamBaseInfo, conn
  <1>3. info' \in Infos
    <2>1. CASE Silence
      BY <1>1, <2>1 DEF TypeOK, Silence, cfg
    <2>2. ASSUME NEW m \in Modes, UpdateCamBaseInfo(m) PROVE info' \in Infos
      <3>1. info.ver + 1 \in 0..MaxVer
        BY <1>1, <2>2, CameraAssumption DEF TypeOK, Infos, UpdateCamBaseInfo, CameraAssumption
      <3> QED BY <2>2, <3>1 DEF UpdateCamBaseInfo, Infos
    <2> QED BY <2>1, <2>2
  <1>4. bUpdate' \in BOOLEAN /\ silent' \in BOOLEAN
    BY <1>1 DEF TypeOK, Silence, UpdateCamBaseInfo, cfg, conn
  <1>5. TypeOK'
    BY <1>1, <1>2, <1>3, <1>4 DEF TypeOK, CThreadTypeOK, src, pics, thr
  <1>6. OneWorker' /\ SnapOwned' /\ SourceClosed' /\ SizeKnown' /\ SingleProducer' /\ PictureSizes'
    BY <1>2 DEF IInv, OneWorker, SnapOwned, SourceClosed, SizeKnown, SingleProducer, PictureSizes,
                src, pics, thr
  <1> QED BY <1>5, <1>6 DEF IInv

\* Pushing a picture that has its own size.
LEMMA Pushed ==
    ASSUME TypeOK, PictureSizes, NEW v \in 0..MaxVer, que' = PushAll([ver |-> v, size |-> v])
    PROVE  /\ que' \in [QueueTypes -> Seq(Pictures)]
           /\ \A q \in QueueTypes : Len(que'[q]) <= Capacity
           /\ PictureSizes'
  <1> DEFINE p == [ver |-> v, size |-> v]
  <1>1. p \in Pictures /\ p.size = p.ver
    BY DEF Pictures
  <1>2. \A q \in QueueTypes :
           /\ que[q] \in Seq(Pictures) /\ Len(que[q]) <= Capacity
           /\ que'[q] = IF Len(que[q]) < Capacity THEN Append(que[q], p) ELSE que[q]
    BY DEF PushAll, TypeOK
  <1>3. que' = [q \in QueueTypes |-> que'[q]]
    BY DEF PushAll
  <1> HIDE DEF p
  <1>4. ASSUME NEW q \in QueueTypes
        PROVE  /\ que'[q] \in Seq(Pictures) /\ Len(que'[q]) <= Capacity
               /\ \A i \in DOMAIN que'[q] : que'[q][i].size = que'[q][i].ver
    <2>1. CASE que'[q] = que[q]
      BY <1>2, <2>1 DEF PictureSizes
    <2>2. CASE que'[q] = Append(que[q], p) /\ Len(que[q]) < Capacity
      <3>0. que[q] \in Seq(Pictures) /\ p \in Pictures /\ que'[q] = Append(que[q], p)
        BY <1>1, <1>2, <2>2
      <3>1. que'[q] \in Seq(Pictures) /\ Len(que'[q]) = Len(que[q]) + 1
        BY ONLY <3>0
      <3>2. \A i \in DOMAIN que'[q] : (i \in DOMAIN que[q] /\ que'[q][i] = que[q][i]) \/ que'[q][i] = p
        BY <1>1, <1>2, <2>2
      <3>3. \A i \in DOMAIN que'[q] : que'[q][i].size = que'[q][i].ver
        BY <1>1, <3>2 DEF PictureSizes
      <3>4. Len(que'[q]) <= Capacity
        BY <1>2, <2>2, <3>1, CameraAssumption DEF CameraAssumption
      <3> QED BY <3>1, <3>3, <3>4
    <2> QED BY <1>2, <2>1, <2>2
  <1> QED BY <1>3, <1>4 DEF PictureSizes

\* A step of PullStream that neither opens nor closes anything.
LEMMA PullMoves ==
    ASSUME IInv, NEW s \in {"release", "step", "check", "end"}, Goto("pull", s),
           Runs("pull", at["pull"]), at["pull"] \in {"begin", "opened", "step", "check"},
           UNCHANGED <<url, source, sched, thr, http>>,
           session' # "none" => sched, sched => first' \/ qsize' = source,
           PictureSizes',
           info' \in Infos, bUpdate' \in BOOLEAN, silent' \in BOOLEAN, reconn' \in BOOLEAN,
           first' \in BOOLEAN, qsize' \in Vers, subs' \in 0..MaxSub,
           session' \in {"none", "describe", "setup", "play", "playing", "stalled", "dead"},
           que' \in [QueueTypes -> Seq(Pictures)], \A q \in QueueTypes : Len(que'[q]) <= Capacity
    PROVE  IInv'
  <1>1. TypeOK /\ loop["pull"] = "cb"
    BY DEF IInv, Runs
  <1>2. /\ at' \in [Workers -> OwnerSteps \cup PullSteps]
        /\ at'["owner"] \in OwnerSteps /\ at'["pull"] \in PullSteps
        /\ at'["pull"] = s /\ at'["owner"] = at["owner"]
    <2>1. s \in PullSteps
      BY DEF PullSteps
    <2> QED BY <1>1, <2>1, Goes DEF Workers
  <1>3. TypeOK'
    BY <1>1, <1>2 DEF TypeOK, CThreadTypeOK, thr
  <1>4. OneWorker' /\ SnapOwned'
    BY <1>1, <1>2 DEF IInv, OneWorker, SnapOwned, Workers, thr
  <1>5. SingleProducer' /\ SourceClosed'
    BY <1>2 DEF IInv, SingleProducer, SourceClosed, Workers, thr
  <1>6. SizeKnown'
    BY <1>2 DEF IInv, SizeKnown, Workers, thr
  <1> QED BY <1>3, <1>4, <1>5, <1>6 DEF IInv

\* What the pull thread does in its callback, opening and closing aside.
LEMMA PullThreadInv ==
    ASSUME IInv, PullThread
    PROVE  IInv'
  <1>1. /\ TypeOK /\ PictureSizes /\ (session # "none" => sched)
        /\ sched => source # None /\ (first \/ qsize = source)
    BY DEF IInv, SourceClosed, SizeKnown
  <1>2. CASE PullStream
    BY <1>1, <1>2, PullMoves DEF PullStream, Runs, TypeOK, PictureSizes, cfg, src, conn, pics
  <1>3. CASE RestartCam
    BY <1>1, <1>3, PullMoves DEF RestartCam, Runs, TypeOK, PictureSizes, src, conn, pics
  <1>4. CASE IgnoreFrame
    BY <1>1, <1>4, PullMoves DEF IgnoreFrame, Runs, TypeOK, PictureSizes, cfg, src, conn, pics
  <1>5. CASE CheckConn
    BY <1>1, <1>5, PullMoves DEF CheckConn, Runs, TypeOK, PictureSizes, src, pics
  <1>6. CASE SingleStep
    <2>1. /\ subs' \in 0..MaxSub
          /\ session' \in {"none", "describe", "setup", "play", "playing", "stalled", "dead"}
          /\ session = "none" => session' = "none"
      BY <1>1, <1>6, CameraAssumption DEF SingleStep, SessionEvent, TypeOK, CameraAssumption
    <2> QED BY <1>1, <1>6, <2>1, PullMoves DEF SingleStep, Runs, TypeOK, PictureSizes, cfg, conn, pics
  <1>7. CASE AcceptFrame
    <2>1. source \in 0..MaxVer /\ source \in Vers
      BY <1>1, <1>7 DEF AcceptFrame, TypeOK, Vers
    <2>2. /\ UNCHANGED <<cfg, src, thr, http>> /\ Goto("pull", "check") /\ Runs("pull", "step")
          /\ silent' = FALSE /\ reconn' = FALSE
      BY <1>7 DEF AcceptFrame
    <2>3. silent' \in BOOLEAN /\ reconn' \in BOOLEAN
      BY <2>2
    <2>4. CASE UNCHANGED pics
      BY <1>1, <2>2, <2>3, <2>4, PullMoves DEF Runs, TypeOK, PictureSizes, cfg, src, pics
    <2>5. CASE /\ first' = FALSE
               /\ qsize' = IF first THEN source ELSE qsize
               /\ que' = PushAll([ver |-> source, size |-> qsize'])
      <3>1. qsize' = source
        BY <1>1, <1>7, <2>5 DEF AcceptFrame
      <3>2. first' \in BOOLEAN
        BY <2>5
      <3>3. que' = PushAll([ver |-> source, size |-> source])
        BY <2>5, <3>1
      <3>4. /\ que' \in [QueueTypes -> Seq(Pictures)] /\ PictureSizes'
            /\ \A q \in QueueTypes : Len(que'[q]) <= Capacity
        BY <1>1, <2>1, <3>3, Pushed
      <3> QED BY <1>1, <2>1, <2>2, <2>3, <3>1, <3>2, <3>4, PullMoves DEF Runs, TypeOK, cfg, src
    <2> QED BY <1>7, <2>4, <2>5 DEF AcceptFrame
  <1>8. CASE PullReturn
    <2>1. /\ CThreadTypeOK' /\ loop'["pull"] = "top" /\ unit' = unit /\ loop'["snap"] = loop["snap"]
      BY <1>1, <1>8, Threads DEF PullReturn, CbReturn, TypeOK, CThreadTypeOK, Obj
    <2>2. /\ at' \in [Workers -> OwnerSteps \cup PullSteps]
          /\ at'["owner"] \in OwnerSteps /\ at'["pull"] \in PullSteps
          /\ at'["pull"] = "begin" /\ at'["owner"] = at["owner"]
      BY <1>1, <1>8, Goes DEF PullReturn, PullSteps, Workers
    <2>3. UNCHANGED <<cfg, src, conn, pics, http>> /\ loop["pull"] = "cb" /\ at["pull"] = "end"
      BY <1>8 DEF PullReturn, Runs
    <2>4. TypeOK'
      BY <1>1, <2>1, <2>2, <2>3 DEF TypeOK, cfg, src, conn, pics
    <2>5. OneWorker' /\ SnapOwned'
      BY <2>1, <2>2, <2>3 DEF IInv, OneWorker, SnapOwned, Workers
    <2>6. SingleProducer' /\ PictureSizes' /\ SourceClosed' /\ SizeKnown'
      BY <2>1, <2>2, <2>3 DEF IInv, SingleProducer, PictureSizes, SourceClosed, SizeKnown, Workers, src, pics
    <2> QED BY <2>4, <2>5, <2>6 DEF IInv
  <1> QED BY <1>2, <1>3, <1>4, <1>5, <1>6, <1>7, <1>8 DEF PullThread

\* The snapshot thread pushes what it took with the address in use.
LEMMA SnapInv ==
    ASSUME IInv, GetSnapShotPic \/ SnapShotLoop
    PROVE  IInv'
  <1>1. TypeOK
    BY DEF IInv
  <1>2. CASE GetSnapShotPic
    <2>1. UNCHANGED <<cfg, src, conn, pics, thr, at>> /\ loop["snap"] = "cb" /\ http' = TRUE
      BY <1>2 DEF GetSnapShotPic
    <2>2. http' \in BOOLEAN
      BY <2>1
    <2>3. TypeOK'
      BY <1>1, <2>1, <2>2 DEF TypeOK, CThreadTypeOK, cfg, src, conn, pics, thr
    <2>4. OneWorker' /\ SnapOwned' /\ SourceClosed' /\ SizeKnown' /\ SingleProducer' /\ PictureSizes'
      BY <2>1 DEF IInv, OneWorker, SnapOwned, SourceClosed, SizeKnown, SingleProducer, PictureSizes,
                  src, pics, thr
    <2> QED BY <2>3, <2>4 DEF IInv
  <1>3. CASE SnapShotLoop
    <2>1. /\ CThreadTypeOK' /\ loop'["snap"] = "top" /\ unit' = unit /\ loop'["pull"] = loop["pull"]
          /\ loop["snap"] = "cb"
      BY <1>1, <1>3, Threads DEF SnapShotLoop, CbReturn, TypeOK, CThreadTypeOK, Obj
    <2>2. url \in 0..MaxVer
      BY <1>1, <2>1 DEF IInv, SizeKnown, TypeOK, Vers
    <2>3. /\ UNCHANGED <<cfg, src, at, first, qsize>>
          /\ http' = FALSE /\ silent' = FALSE /\ reconn' = FALSE
          /\ que' = PushAll([ver |-> url, size |-> url])
      BY <1>3 DEF SnapShotLoop
    <2>4. http' \in BOOLEAN /\ silent' \in BOOLEAN /\ reconn' \in BOOLEAN
      BY <2>3
    <2>5. /\ que' \in [QueueTypes -> Seq(Pictures)] /\ PictureSizes'
          /\ \A q \in QueueTypes : Len(que'[q]) <= Capacity
      BY <1>1, <2>2, <2>3, Pushed DEF IInv
    <2>6. UNCHANGED <<info, bUpdate, url, source, sched, session, subs, at, first, qsize>>
      BY <2>3 DEF cfg, src
    <2>7. TypeOK'
      BY ONLY <1>1, <2>1, <2>4, <2>5, <2>6 DEF TypeOK
    <2>8. OneWorker' /\ SnapOwned' /\ SourceClosed' /\ SizeKnown' /\ SingleProducer'
      BY <2>1, <2>3, <2>6 DEF IInv, OneWorker, SnapOwned, SourceClosed, SizeKnown, SingleProducer
    <2> QED BY <2>5, <2>7, <2>8 DEF IInv
  <1> QED BY <1>2, <1>3

\* A consumer takes the oldest picture.
LEMMA PopInv ==
    ASSUME IInv, NEW q \in QueueTypes, Pop(q)
    PROVE  IInv'
  <1>1. TypeOK /\ PictureSizes /\ UNCHANGED <<cfg, src, conn, thr, at, first, http, qsize>>
    BY DEF IInv, Pop
  <1>2. que[q] \in Seq(Pictures) /\ que[q] # <<>> /\ Len(que[q]) <= Capacity
    BY <1>1 DEF Pop, TypeOK
  <1>3. /\ Tail(que[q]) \in Seq(Pictures) /\ Len(Tail(que[q])) = Len(que[q]) - 1 /\ Len(que[q]) \in Nat
        /\ \A i \in DOMAIN Tail(que[q]) : i + 1 \in DOMAIN que[q] /\ Tail(que[q])[i] = que[q][i + 1]
    BY <1>2
  <1>4. /\ que' \in [QueueTypes -> Seq(Pictures)] /\ que'[q] = Tail(que[q])
        /\ \A r \in QueueTypes : r # q => que'[r] = que[r]
    BY <1>1, <1>3 DEF Pop, TypeOK
  <1>5. \A r \in QueueTypes : Len(que'[r]) <= Capacity
    <2>1. Len(que'[q]) <= Capacity
      BY <1>2, <1>3, <1>4, CameraAssumption DEF CameraAssumption
    <2> QED BY <1>1, <1>4, <2>1 DEF TypeOK
  <1>6. PictureSizes'
    <2>1. \A i \in DOMAIN que'[q] : que'[q][i].size = que'[q][i].ver
      BY <1>1, <1>3, <1>4 DEF PictureSizes
    <2> QED BY <1>1, <1>4, <2>1 DEF PictureSizes
  <1>7. TypeOK'
    BY <1>1, <1>4, <1>5 DEF TypeOK, CThreadTypeOK, cfg, src, conn, thr
  <1>8. OneWorker' /\ SnapOwned' /\ SourceClosed' /\ SizeKnown' /\ SingleProducer'
    BY <1>1 DEF IInv, OneWorker, SnapOwned, SourceClosed, SizeKnown, SingleProducer, src, thr
  <1> QED BY <1>6, <1>7, <1>8 DEF IInv

\* The two CThreads outside of their callbacks.
LEMMA ThreadStepInv ==
    ASSUME IInv, ThreadStep
    PROVE  IInv'
  <1>1. TypeOK /\ CThreadTypeOK
    BY DEF IInv, TypeOK
  <1>2. PICK o \in Obj : LoopWait(o) \/ LoopTimeout(o) \/ LoopExit(o) \/ UnitSignal(o)
    BY DEF ThreadStep, Obj
  <1>3. CThreadTypeOK' /\ \A p \in Obj : p # o => loop'[p] = loop[p] /\ unit'[p] = unit[p]
    BY <1>1, <1>2, Threads
  <1>4. /\ loop[o] # "none" => loop'[o] # "none"
        /\ (unit'[o] = "none") <=> (unit[o] = "none")
        /\ loop[o] = "cb" => loop'[o] = "cb"
        /\ loop[o] = "none" => loop'[o] = "none"
    <2>1. loop \in [Obj -> LoopStates] /\ unit \in [Obj -> UnitStates]
      BY <1>1 DEF CThreadTypeOK, Obj
    <2>2. CASE LoopWait(o) \/ LoopTimeout(o) \/ LoopExit(o)
      BY <2>1, <2>2 DEF LoopWait, LoopTimeout, LoopExit
    <2>3. CASE UnitSignal(o)
      BY <2>1, <2>3 DEF UnitSignal
    <2> QED BY <1>2, <2>2, <2>3
  <1>5. \A p \in Obj : /\ (loop'[p] = "none") <=> (loop[p] = "none")
                       /\ (unit'[p] = "none") <=> (unit[p] = "none")
                       /\ loop[p] = "cb" => loop'[p] = "cb"
    BY <1>3, <1>4
  <1>6. UNCHANGED <<cfg, at, src, conn, pics, http>> /\ "pull" \in Obj /\ "snap" \in Obj
    BY DEF ThreadStep, Obj
  <1>7. TypeOK'
    BY <1>1, <1>3, <1>6 DEF TypeOK, cfg, src, conn, pics
  <1>8. OneWorker' /\ SnapOwned'
    BY <1>5, <1>6 DEF IInv, OneWorker, SnapOwned
  <1>9. SingleProducer' /\ PictureSizes' /\ SourceClosed' /\ SizeKnown'
    BY <1>5, <1>6 DEF IInv, SingleProducer, PictureSizes, SourceClosed, SizeKnown, src, pics
  <1> QED BY <1>7, <1>8, <1>9 DEF IInv

\* The invariant is inductive.
LEMMA StepIInv == IInv /\ [Next]_vars => IInv'
  <1> SUFFICES ASSUME IInv, [Next]_vars PROVE IInv'
    OBVIOUS
  <1>1. ASSUME NEW w \in Workers, Worker(w) PROVE IInv'
    BY <1>1, ReleaseInv, SnapJoinedInv, ReleasedInv, OpenCameraInv, SetPullStreamCBInv DEF Worker
  <1>2. CASE UNCHANGED vars
    BY <1>2 DEF IInv, TypeOK, CThreadTypeOK, SingleProducer, PictureSizes, OneWorker, SnapOwned,
                SourceClosed, SizeKnown, vars, cfg, src, conn, pics, thr
  <1> QED BY <1>1, <1>2, OwnerInv, OutsideInv, PullThreadInv, SnapInv, PopInv, ThreadStepInv DEF Next

\* Type correctness of a camera: no picture is pushed without a size or a source,
\* and no queue grows past gTaskQueueCapacity.
THEOREM TypeCorrect == SafeSpec => []TypeOK
  <1>1. IInv => TypeOK
    BY DEF IInv
  <1> QED BY <1>1, InitIInv, StepIInv, PTL DEF SafeSpec

\* The snapshot thread never runs beside an RTSP session, whatever sequence of
\* changes of s32WorkMode, reconnections and restarts the camera goes through.
THEOREM OneProducer == SafeSpec => []SingleProducer
  <1>1. IInv => SingleProducer
    BY DEF IInv
  <1> QED BY <1>1, InitIInv, StepIInv, PTL DEF SafeSpec

\* Every picture in a queue was copied with the size of the camera that took it.
THEOREM SizesMatch == SafeSpec => []PictureSizes
  <1>1. IInv => PictureSizes
    BY DEF IInv
  <1> QED BY <1>1, InitIInv, StepIInv, PTL DEF SafeSpec

\* The destructors join the pull thread before the source goes and the snapshot
\* thread before the camera goes.
THEOREM CallbacksEnd == SafeSpec => []NoThreadOutlivesCamera
  <1>1. IInv => NoThreadOutlivesCamera
    BY DEF IInv, OneWorker, SourceClosed, NoThreadOutlivesCamera, Workers
  <1> QED BY <1>1, InitIInv, StepIInv, PTL DEF SafeSpec
=============================================================================
